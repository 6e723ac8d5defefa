------------------------------ MODULE MCGuide -------------------------------
(***************************************************************************)
(* The constants of Guide for model checking: one service with two         *)
(* programmes, which two physical channels carry (a relay); two keywords   *)
(* for names and none for details; a reserve is renewed more than once.    *)
(***************************************************************************)
EXTENDS Guide

KeyOf(e) == [service |-> 1, event |-> e]
Programme(e, start, end) == [key |-> KeyOf(e), start |-> start, end |-> end]

MCServices == {1}
MCSchedule == [s \in MCServices |->
                 [n \in 1..NumSections |-> <<Programme(n, n, n + 1)>>]]
MCCarries  == <<1, 1>>
MCWanted   == [job \in Jobs |-> IF job = "ex" THEN <<>>
                                ELSE <<{KeyOf(2)}, {KeyOf(1), KeyOf(2)}>>]
MCAsked    == {KeyOf(2)}
=============================================================================
