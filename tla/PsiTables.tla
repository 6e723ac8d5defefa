----------------------------- MODULE PsiTables ------------------------------
(***************************************************************************)
(* What the parsers of the tables (parser/psisi) make of a section: its    *)
(* rows, each with a head of fixed size whose last two bytes tell how long *)
(* the descriptors after it are.  Parsing is a function of the section, so *)
(* there are no actions here.                                              *)
(*                                                                         *)
(* A section is b, the bytes between its header and its CRC; a descriptor  *)
(* is its tag and its data.  What a parser finds in a field the program    *)
(* looks at is kept, reserved bits are not.                                *)
(***************************************************************************)
EXTENDS Naturals, Sequences

(* The bytes that follow a section are those of another one; none is read   *)
(* of a section whose lengths are right.                                    *)
ByteAt(b, p) == IF p \in DOMAIN b THEN b[p] ELSE 0
Id16(b, p)  == 256 * ByteAt(b, p) + ByteAt(b, p + 1)
Pid13(b, p) == 256 * (ByteAt(b, p) % 32) + ByteAt(b, p + 1)

(* Mutant: a length is one byte.                                            *)
Len8(b, p) == ByteAt(b, p + 1)
Len12(b, p) == 256 * (ByteAt(b, p) % 16) + ByteAt(b, p + 1)

Refused == [ok |-> FALSE]
Bytes(b, from, n) == [i \in 1..n |-> ByteAt(b, from + i - 1)]

(* descriptor::parse: one without data is not valid.                        *)
IsValidDescriptor(b, p) == ByteAt(b, p + 1) # 0
DescriptorAt(b, p) == [tag |-> ByteAt(b, p), data |-> Bytes(b, p + 2, ByteAt(b, p + 1))]

(* The descriptors in the n bytes from p on; the rows after them begin where *)
(* the last one has ended, be it beyond the n bytes.                        *)
RECURSIVE Descriptors(_, _, _)
Descriptors(b, p, n) ==
  IF n <= 0 THEN [ok |-> TRUE, at |-> p, list |-> <<>>]
  ELSE IF ~IsValidDescriptor(b, p) THEN Refused
  ELSE LET size == 2 + ByteAt(b, p + 1)
           rest == Descriptors(b, p + size, IF size > n THEN 0 ELSE n - size)
       IN IF ~rest.ok THEN Refused ELSE [rest EXCEPT !.list = <<DescriptorAt(b, p)>> \o @]

(* The rows in the n bytes from p on, with heads of fix bytes.              *)
RECURSIVE Rows(_, _, _, _)
Rows(b, p, n, fix) ==
  IF n = 0 THEN [ok |-> TRUE, list |-> <<>>]
  ELSE LET length == Len12(b, p + fix - 2)
           ds == Descriptors(b, p + fix, length)
       IN IF ~ds.ok THEN Refused
          ELSE IF n < fix + length THEN Refused
          ELSE LET rest == Rows(b, ds.at, n - fix - length, fix)
                   row == [head |-> Bytes(b, p, fix), descriptors |-> ds.list]
               IN IF ~rest.ok THEN Refused ELSE [rest EXCEPT !.list = <<row>> \o @]

(* What is kept of each row's head.                                         *)
WithIds(rows, Id(_)) ==
  [k \in DOMAIN rows |-> [id |-> Id(rows[k].head), descriptors |-> rows[k].descriptors]]

-----------------------------------------------------------------------------
(* The tables.                                                              *)
ParsePAT(b) ==
  IF Len(b) < 4 \/ Len(b) % 4 # 0 THEN Refused
  ELSE [ok |-> TRUE,
        programs |-> [k \in 1..(Len(b) \div 4) |->
                        [number |-> Id16(b, 4 * k - 3), pid |-> Pid13(b, 4 * k - 1)]]]

(* Streams of no more than one head's size are refused, even if that is a   *)
(* stream without descriptors.                                              *)
ParsePMT(b) ==
  LET ds == Descriptors(b, 5, Len12(b, 3))
      n == Len(b) - 4 - Len12(b, 3)
      Stream(h) == [type |-> h[1], pid |-> Pid13(h, 2)]
  IN IF ~ds.ok \/ Len(b) <= 4 + Len12(b, 3) + 5 THEN Refused
     ELSE LET rows == Rows(b, ds.at, n, 5)
          IN IF ~rows.ok THEN Refused
             ELSE [ok |-> TRUE, descriptors |-> ds.list, streams |-> WithIds(rows.list, Stream)]

ParseCAT(b) ==
  LET ds == Descriptors(b, 1, Len(b))
  IN IF ~ds.ok THEN Refused ELSE [ok |-> TRUE, descriptors |-> ds.list]

(* Also the loop's own length must be right.                                *)
ParseNIT(b) ==
  LET first == Len12(b, 1)
      ds == Descriptors(b, 3, first)
      n == Len(b) - 4 - first
      Ids(h) == [tsid |-> Id16(h, 1), onid |-> Id16(h, 3)]
  IN IF ~ds.ok \/ Len(b) <= 4 + first + 6 THEN Refused
     ELSE IF n # Len12(b, ds.at) THEN Refused
     ELSE LET rows == Rows(b, ds.at + 2, n, 6)
          IN IF ~rows.ok THEN Refused
             ELSE [ok |-> TRUE, descriptors |-> ds.list, streams |-> WithIds(rows.list, Ids)]

ParseSDT(b) ==
  LET Service(h) == Id16(h, 1)
  IN IF Len(b) <= 3 + 5 THEN Refused
     ELSE LET rows == Rows(b, 4, Len(b) - 3, 5)
          IN IF ~rows.ok THEN Refused
             ELSE [ok |-> TRUE, onid |-> Id16(b, 1), services |-> WithIds(rows.list, Service)]

(* EIT, present and following, and schedule: no event, and one without      *)
(* descriptors, are allowed.                                                *)
Event(h) == [event_id |-> Id16(h, 1), start |-> SubSeq(h, 3, 7), duration |-> SubSeq(h, 8, 10)]

ParseEvents(b) ==
  LET n == Len(b) - 6
  IN IF Len(b) < 6 \/ (n # 0 /\ n < 12) THEN Refused
     ELSE LET rows == Rows(b, 7, n, 12)
          IN IF ~rows.ok THEN Refused
             ELSE [ok |-> TRUE, tsid |-> Id16(b, 1), onid |-> Id16(b, 3),
                   last_section |-> b[5], last_table |-> b[6],
                   events |-> WithIds(rows.list, Event)]

ParseEIT(b) == ParseEvents(b)
ParseSchedule(b) == ParseEvents(b)

(* BIT, which nobody is given so far.                                       *)
ParseBIT(b) ==
  LET first == Len12(b, 1)
      ds == Descriptors(b, 3, first)
      Broadcaster(h) == h[1]
  IN IF ~ds.ok \/ Len(b) <= 2 + first + 3 THEN Refused
     ELSE LET rows == Rows(b, ds.at, Len(b) - 2 - first, 3)
          IN IF ~rows.ok THEN Refused
             ELSE [ok |-> TRUE, descriptors |-> ds.list,
                   broadcasters |-> WithIds(rows.list, Broadcaster)]

(* CDT: a logo, when the type says so.                                      *)
ParseCDT(b) ==
  LET first == Len12(b, 4)
      ds == Descriptors(b, 6, first)
      n == Len(b) - 5 - first
      p == ds.at
  IN IF ~ds.ok THEN Refused
     ELSE IF b[3] # 1 THEN [ok |-> TRUE, onid |-> Id16(b, 1), descriptors |-> ds.list, logo |-> <<>>]
     ELSE IF Len(b) <= 5 + first + 7 \/ n # 7 + Id16(b, p + 5) THEN Refused
     ELSE [ok |-> TRUE, onid |-> Id16(b, 1), descriptors |-> ds.list,
           logo |-> [type |-> b[p], id |-> 256 * (b[p + 1] % 2) + b[p + 2],
                     version |-> Len12(b, p + 3), data |-> Bytes(b, p + 7, n - 7)]]
=============================================================================
