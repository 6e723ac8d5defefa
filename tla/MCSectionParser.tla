-------------------------- MODULE MCSectionParser --------------------------
(* An instance of SectionParser for TLC: sections of one, two and three     *)
(* packets, of which the table does not keep the last, and one that it does *)
(* not want at all.                                                         *)
EXTENDS SectionParser

MCLength == [s \in Sections |-> CASE s = "a" -> 3 [] s = "b" -> 6 [] s = "c" -> 9 [] OTHER -> 4]

-----------------------------------------------------------------------------
(* ts_parser, which finds the packets in what the tune thread reads; packets *)
(* of three bytes instead of 188, two of which may look like sync bytes.    *)
T == INSTANCE TsParser WITH UnitSizes <- <<3, 4>>, InnerSize <- 24, SyncChecks <- 3, HeaderLen <- 4

Pieces == 1..8
Packets == 14
Plain == [control |-> 1, length |-> 0]
Headers == {Plain} \cup {[control |-> 2, length |-> 183]} \cup [control : {3}, length : {0, 7}]
HeaderRows == {<<g, h, i>> : g, h, i \in Headers}

(* Whatever the tune thread's reads are cut into, and whatever bytes the    *)
(* payload has, every packet of an intact stream that has a payload reaches *)
(* section_parser, with that payload unless it has an adaptation field too; *)
(* and after a gap those that come once SyncChecks packets have passed.     *)
(* Stated of the parsers' initial state, since ts_parser begins anew with a *)
(* tune.                                                                    *)
Through(n, beyond) ==
  /\ \A false \in SUBSET (0..6) :
       LET s == T!Stream(3, Packets, false, 7, <<Plain>>) IN T!AllOf(T!Parsed(s, n, beyond), s, 3)
  /\ \A row \in HeaderRows :
       LET s == T!Stream(3, Packets, {2, 6}, 7, row) IN T!AllOf(T!Parsed(s, n, beyond), s, 3)
  /\ \A from \in 13..22, lost \in 1..4 :
       LET s == T!Without(T!Stream(3, Packets, {}, 7, <<Plain>>), from, lost)
       IN T!BackInStep(T!Parsed(s, n, beyond), 3, from + lost, 4)

PacketsGetThrough == Init => \A n \in Pieces, beyond \in BOOLEAN : Through(n, beyond)

-----------------------------------------------------------------------------
(* What the tables' parsers make of a section that was delivered.           *)
E == INSTANCE PsiEncoding

(* Each table and each descriptor is read as a broadcaster lays it out, or  *)
(* refused where the parsers demand more than that; no length or count is   *)
(* taken from beside its place.  Of the bit fields these are, in the way    *)
(* PsiEncoding states: the audio's quality and sampling rate, the           *)
(* terrestrial area code and guard interval, the satellite's frequency,     *)
(* modulation and symbol rate.                                              *)
SectionsAreRead == Init => E!TablesAreRead /\ E!DescriptorsAreRead
=============================================================================
