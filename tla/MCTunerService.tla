--------------------------- MODULE MCTunerService ---------------------------
(* Instances of TunerService for TLC.  All clients belong to one module,    *)
(* the case in which pre_check tells them apart least.                      *)
EXTENDS TunerService, TLC

CONSTANTS c1, c2, rec

SameModule == [c \in Clients |-> rec]
=============================================================================
