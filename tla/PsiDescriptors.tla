--------------------------- MODULE PsiDescriptors ---------------------------
(***************************************************************************)
(* What the descriptors (parser/psisi/descriptor) make of their data d,    *)
(* which is followed by zeros.  Those of fixed layout are taken to be long *)
(* enough for it.  A text is its bytes, whatever the characters.           *)
(***************************************************************************)
EXTENDS PsiTables

(* A text that begins with its length, and what comes after it.             *)
Text(d, p) == Bytes(d, p + 1, ByteAt(d, p))
After(d, p) == p + 1 + ByteAt(d, p)

(* d has been read to the place before p: the length check at the end.      *)
ReadTo(d, p) == p = Len(d) + 1

(* Entries of a fixed size from p on.                                       *)
Each(d, p, size) ==
  IF p > Len(d) + 1 \/ (Len(d) + 1 - p) % size # 0 THEN Refused
  ELSE [ok |-> TRUE,
        list |-> [k \in 1..((Len(d) + 1 - p) \div size) |-> Bytes(d, p + (k - 1) * size, size)]]

Checked(d, p, fields) == IF ReadTo(d, p) THEN [ok |-> TRUE, fields |-> fields] ELSE Refused

-----------------------------------------------------------------------------
(* Descriptors the program takes something from.                            *)
ServiceDescriptor(d) ==
  Checked(d, After(d, After(d, 2)),
          [type |-> d[1], provider |-> Text(d, 2), name |-> Text(d, After(d, 2))])

ShortEvent(d) ==
  Checked(d, After(d, After(d, 4)),
          [language |-> Bytes(d, 1, 3), name |-> Text(d, 4), text |-> Text(d, After(d, 4))])

(* The items in the n bytes from p on.                                      *)
RECURSIVE Items(_, _, _)
Items(d, p, n) ==
  IF n = 0 THEN [ok |-> TRUE, list |-> <<>>, at |-> p]
  ELSE LET item == [description |-> Text(d, p), text |-> Text(d, After(d, p))]
           next == After(d, After(d, p))
           rest == Items(d, next, n + p - next)
       IN IF next - p > n THEN Refused
          ELSE IF ~rest.ok THEN Refused ELSE [rest EXCEPT !.list = <<item>> \o @]

ExtendedEvent(d) ==
  LET items == Items(d, 6, d[5])
  IN IF ~items.ok THEN Refused
     ELSE Checked(d, After(d, items.at),
                  [number |-> d[1] \div 16, last |-> d[1] % 16, language |-> Bytes(d, 2, 3),
                   items |-> items.list, text |-> Text(d, items.at)])

Component(d) ==
  Checked(d, Len(d) + 1, [content |-> d[1] % 16, type |-> d[2], tag |-> d[3],
                          language |-> Bytes(d, 4, 3), text |-> Bytes(d, 7, Len(d) - 6)])

(* quality_indicator and sampling_rate are read a bit beside their place.   *)
AudioComponent(d) ==
  LET multi == d[6] \div 128
      text == 10 + 3 * multi
  IN Checked(d, Len(d) + 1,
             [content |-> d[1] % 16, type |-> d[2], tag |-> d[3], stream_type |-> d[4],
              simulcast |-> d[5], multi |-> multi, main |-> (d[6] \div 64) % 2,
              quality |-> (d[6] \div 32) % 4, sampling_rate |-> d[6] % 8,
              languages |-> Bytes(d, 7, 3 + 3 * multi),
              text |-> Bytes(d, text, Len(d) + 1 - text)])

Content(d) == Each(d, 1, 2)
NetworkName(d) == Checked(d, Len(d) + 1, [name |-> d])
ServiceList(d) == Each(d, 1, 3)

(* area_code is read with its bytes swapped, guard_interval of the wrong one.*)
TerrestrialDelivery(d) ==
  LET freqs == Each(d, 3, 2)
  IN IF ~freqs.ok THEN Refused
     ELSE Checked(d, Len(d) + 1,
                  [area_code |-> ((d[1] + 256 * d[2]) \div 16) % 4096,
                   guard_interval |-> ((d[1] + 1) \div 4) % 4,
                   transmission_mode |-> d[2] % 4, freqs |-> freqs.list])

(* frequency and symbol_rate are read with their bytes swapped (frequency    *)
(* is kept as bytes here); modulation is or'ed with its mask.               *)
SatelliteDelivery(d) ==
  Checked(d, 12,
          [frequency |-> Bytes(d, 1, 4), orbital_position |-> Id16(d, 5),
           east |-> d[7] \div 128, polarisation |-> (d[7] \div 32) % 4,
           modulation |-> 32 * (d[7] \div 32) + 31,
           symbol_rate |-> d[8] \div 16 + 16 * d[9] + 4096 * d[10] + 1048576 * d[11],
           FEC_inner |-> d[11] % 16])

(* n transmissions from p on, each with a number of service ids.  What      *)
(* follows them is reserved.                                                *)
RECURSIVE Transmissions(_, _, _)
Transmissions(d, p, n) ==
  IF n = 0 THEN [list |-> <<>>, at |-> p]
  ELSE LET services == [k \in 1..ByteAt(d, p + 1) |-> Id16(d, p + 2 * k)]
           rest == Transmissions(d, p + 2 + 2 * ByteAt(d, p + 1), n - 1)
       IN [rest EXCEPT !.list = <<[type |-> ByteAt(d, p), services |-> services]>> \o @]

TsInformation(d) ==
  LET name == d[2] \div 4
      ts == Transmissions(d, 3 + name, d[2] % 4)
  IN IF Len(d) < ts.at - 1 THEN Refused
     ELSE [ok |-> TRUE, fields |-> [key |-> d[1], name |-> Bytes(d, 3, name), transmissions |-> ts.list]]

-----------------------------------------------------------------------------
(* Descriptors that are only shown.                                         *)
Series(d) ==
  Checked(d, Len(d) + 1,
          [id |-> Id16(d, 1), repeat |-> d[3] \div 16, pattern |-> (d[3] \div 2) % 8,
           expires |-> d[3] % 2, date |-> Id16(d, 4),
           episode |-> 16 * d[6] + d[7] \div 16, last |-> Len12(d, 7),
           name |-> Bytes(d, 9, Len(d) - 8)])

RECURSIVE SiTables(_, _)
SiTables(d, p) ==
  IF p > Len(d) THEN [ok |-> TRUE, list |-> <<>>, at |-> p]
  ELSE LET rest == SiTables(d, After(d, p + 1))
       IN IF After(d, p + 1) > Len(d) + 1 THEN Refused
          ELSE IF ~rest.ok THEN Refused
          ELSE [rest EXCEPT !.list = <<[table_id |-> d[p], description |-> Text(d, p + 1)]>> \o @]

SiParameter(d) ==
  LET tables == SiTables(d, 4)
  IN IF ~tables.ok THEN Refused
     ELSE Checked(d, tables.at, [version |-> d[1], time |-> Id16(d, 2), tables |-> tables.list])

(* Mutant: the reserved bits before the id belong to it.                    *)
LogoIdReserved(d) == 256 * d[2] + ByteAt(d, 3)
LogoId(d) == 256 * (d[2] % 2) + ByteAt(d, 3)
LogoTransmission(d) ==
  CASE d[1] = 1 -> Checked(d, 8, [type |-> 1, id |-> LogoId(d), version |-> Len12(d, 4), data_id |-> Id16(d, 6)])
    [] d[1] = 2 -> Checked(d, 4, [type |-> 2, id |-> LogoId(d)])
    [] d[1] = 3 -> Checked(d, Len(d) + 1, [type |-> 3, text |-> Bytes(d, 2, Len(d) - 1)])
    [] OTHER -> Refused

CaIdentifier(d) == Each(d, 1, 2)
PartialReception(d) == Each(d, 1, 2)
ConditionalAccess(d) == Checked(d, 5, [system |-> Id16(d, 1), pid |-> Pid13(d, 3)])
StreamIdentifier(d) == Checked(d, 2, [tag |-> d[1]])
=============================================================================
