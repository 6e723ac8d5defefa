------------------------------ MODULE TsParser ------------------------------
(***************************************************************************)
(* ts_parser (parser/ts_parser.cpp): the packets in a stream that comes in *)
(* pieces of any size.  Pieces are gathered in inner_buff_; one that does  *)
(* not fit has the buffer parsed first.  The parser is a function of what  *)
(* it is given, so there are no actions here.                              *)
(*                                                                         *)
(* A byte is whether it has the value of the sync byte, its place in the   *)
(* stream, and the adaptation_field_control and _length that a header      *)
(* beginning there has.  A packet is handed over by the place of its first *)
(* byte and by p_payload: so many bytes beyond that of a place, or nullptr.*)
(***************************************************************************)
EXTENDS Naturals, Sequences, FiniteSets

CONSTANTS
  UnitSizes,  \* <<188, 192, 204>>: plain, with time stamps, with error correction
  InnerSize,  \* INNER_BUFF_SIZE
  SyncChecks, \* 8: sync bytes that must follow one to find the step again
  HeaderLen   \* TS_HEADER_LEN

Largest == UnitSizes[Len(UnitSizes)]
First(S) == CHOOSE x \in S : \A y \in S : x <= y
InStep(buf, p, u, n) == \A i \in 0..n : buf[p + i * u].sync

(* get_unit_size: the last size found wins.  check_unit_size would look     *)
(* again further on if none was, and could not find one there either.       *)
SizesAt(buf, p) == {i \in DOMAIN UnitSizes : InStep(buf, p, UnitSizes[i], 2)}

RECURSIVE GetUnitSize(_, _, _)
GetUnitSize(buf, p, found) ==
  IF p + 3 * Largest > Len(buf) THEN found
  ELSE IF SizesAt(buf, p) = {} THEN GetUnitSize(buf, p + 1, found)
  ELSE LET u == UnitSizes[First(SizesAt(buf, p))] IN GetUnitSize(buf, p + 2 * u, u)

(* get_sync_top_addr.  The last place it tries has its last sync byte where *)
(* the data has ended: beyond is what happens to be there.                  *)
SyncTops(buf, p, u, beyond) ==
  {q \in p..(Len(buf) + 1 - SyncChecks * u) :
     InStep(Append(buf, [sync |-> beyond, at |-> 0]), q, u, SyncChecks)}

OutOfStep(buf, p, u) == ~buf[p].sync /\ ~buf[p + u].sync

(* p_payload.  With an adaptation field it is moved on from where the packet *)
(* before has left it, and parse begins with nullptr.                       *)
NullPtr == [from |-> 0, plus |-> 0]
HasField(byte) == byte.control \in {2, 3}
PayloadOf(byte, before) ==
  IF HasField(byte) THEN [before EXCEPT !.plus = @ + byte.length + 1]
  ELSE [from |-> byte.at, plus |-> HeaderLen]

(* What one packet adds to what is handed over: nothing if it is all        *)
(* adaptation field.                                                        *)
HandOver(byte, payload) ==
  IF byte.control = 2 THEN <<>> ELSE <<[at |-> byte.at, payload |-> payload]>>

(* The loop of parse: the packets from p on, and where it has stopped.      *)
RECURSIVE PacketsFrom(_, _, _, _, _, _)
PacketsFrom(buf, p, u, beyond, payload, out) ==
  LET tops == IF OutOfStep(buf, p, u) THEN SyncTops(buf, p, u, beyond) ELSE {p}
      q == First(tops)
      here == PayloadOf(buf[q], payload)
  IN IF p + u > Len(buf) THEN [out |-> out, stop |-> p]
     ELSE IF tops = {} THEN PacketsFrom(buf, p + u, u, beyond, payload, out)
     ELSE PacketsFrom(buf, q + u, u, beyond, here, out \o HandOver(buf[q], here))

(* parse.  Without a unit size the buffer is given up.                      *)
Parse(buf, beyond) ==
  LET u == GetUnitSize(buf, 1, 0)
      r == PacketsFrom(buf, 1, u, beyond, NullPtr, <<>>)
  IN IF u = 0 THEN [out |-> <<>>, rest |-> <<>>]
     ELSE [out |-> r.out, rest |-> SubSeq(buf, r.stop, Len(buf))]

(* put and copy_to_inner_buffer: s is [buf, out], and no piece is larger    *)
(* than the buffer.                                                         *)
Fits(buf, piece) == Len(buf) + Len(piece) <= InnerSize

(* Mutant: what is left of the last packet is not kept.                     *)
PutWithoutRest(s, piece, beyond) ==
  IF Fits(s.buf, piece) THEN [s EXCEPT !.buf = @ \o piece]
  ELSE [buf |-> piece, out |-> s.out \o Parse(s.buf, beyond).out]

Put(s, piece, beyond) ==
  IF Fits(s.buf, piece) THEN [s EXCEPT !.buf = @ \o piece]
  ELSE LET r == Parse(s.buf, beyond)
       IN [buf |-> IF Fits(r.rest, piece) THEN r.rest \o piece ELSE r.rest,
           out |-> s.out \o r.out]

(* A stream put in pieces of n bytes, after a reset.                        *)
Piece(stream, n, k) ==
  SubSeq(stream, (k - 1) * n + 1, IF k * n < Len(stream) THEN k * n ELSE Len(stream))

Parsed(stream, n, beyond) ==
  LET after[k \in Nat] == IF k = 0 THEN [buf |-> <<>>, out |-> <<>>]
                          ELSE Put(after[k - 1], Piece(stream, n, k), beyond)
  IN after[(Len(stream) + n - 1) \div n]

-----------------------------------------------------------------------------
(* The reference.  Packets of size u lie one after the other, each with a    *)
(* sync byte at its start; further ones lie at the places mod period that   *)
(* are in false.  Their headers are the given ones, over and over.          *)
Stream(u, packets, false, period, headers) ==
  [i \in 1..(packets * u) |->
     LET h == headers[(((i - 1) \div u) % Len(headers)) + 1]
     IN [sync |-> (i - 1) % u = 0 \/ i % period \in false, at |-> i,
         control |-> h.control, length |-> h.length]]

Without(stream, from, n) ==
  SubSeq(stream, 1, from - 1) \o SubSeq(stream, from + n, Len(stream))

(* Of an intact stream every packet that has a payload is handed over once  *)
(* and in its place, but for what is still in the buffer; and if it has no  *)
(* adaptation field, with its payload.                                      *)
AllOf(r, stream, u) ==
  LET gone == (Len(stream) - Len(r.buf)) \div u
      heads == SelectSeq([k \in 1..gone |-> stream[1 + (k - 1) * u]], LAMBDA b : b.control # 2)
  IN /\ gone * u + Len(r.buf) = Len(stream)
     /\ r.buf # <<>> => r.buf[1].at = 1 + gone * u
     /\ [k \in DOMAIN r.out |-> r.out[k].at] = [k \in DOMAIN heads |-> heads[k].at]
     /\ \A k \in DOMAIN heads :
          ~HasField(heads[k]) => r.out[k].payload = [from |-> heads[k].at, plus |-> HeaderLen]

(* Of a stream that lacks the bytes before place to, only beginnings of     *)
(* packets are handed over, in order, and each that lies late packets after *)
(* the gap.                                                                 *)
BackInStep(r, u, to, late) ==
  /\ \A k \in DOMAIN r.out : r.out[k].at % u = 1 /\ (k > 1 => r.out[k - 1].at < r.out[k].at)
  /\ \A q \in {i \in (to + late * u)..(IF r.buf = <<>> THEN 0 ELSE r.buf[1].at - 1) : i % u = 1} :
       \E k \in DOMAIN r.out : r.out[k].at = q
=============================================================================
