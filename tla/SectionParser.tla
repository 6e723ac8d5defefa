--------------------------- MODULE SectionParser ---------------------------
(***************************************************************************)
(* The reassembly of sections from the packets of one PID                  *)
(* (parser/section_parser.cpp), as psisi_manager's on_parser_notice drives *)
(* it.  Sections lie end to end in a pool, in the order of a list; the     *)
(* last may still be incomplete.  Complete ones are kept so that their     *)
(* repetitions are recognised, and given up when room is needed.           *)
(*                                                                         *)
(* The unit of data is abstract: a unit of the stream says of which        *)
(* section it is which part.  Packets can be lost; the ones that come are  *)
(* in order and undamaged.                                                 *)
(***************************************************************************)
EXTENDS Integers, Sequences, FiniteSets

CONSTANTS
  Sections,     \* the sections the stream repeats, with different contents
  Length,       \* their lengths in units, header included
  Started,      \* those on_section_started accepts, by their table_id
  Kept,         \* those on_section_completed leaves in the list
  PoolSize,     \* units of pool_
  FifoNum,      \* fifo_num_, 0 without a fifo
  Payload,      \* units a packet carries
  ShortHeader,  \* units until section_length is complete
  LongHeader    \* units until the data part begins

ASSUME PoolAssumption == PoolSize \in Nat /\ FifoNum \in Nat /\ Payload \in Nat
ASSUME HeaderAssumption == ShortHeader \in Nat \ {0} /\ LongHeader \in Nat
ASSUME LengthAssumption == Length \in [Sections -> Nat \ {0}]

Stuffing == [s |-> "stuffing", k |-> 0]
NoSection == [s |-> "none", sent |-> 0]
Unit == [s : Sections, k : Nat] \cup {Stuffing}

VARIABLES
  mem,        \* [list, pool, work]: sect_list_, pool_ below pool_ind_, work_sect_info_
  is_ignore_section, is_async_delete,
  call,       \* the loop of check_section_first
  sender,     \* the broadcaster: the section under way, and how much of it is sent
  sync,       \* history: the section under way has arrived without a gap so far
  must,       \* history: sections that are to be known when this call ends
  known,      \* history: sections this call has delivered or found in the list
  delivered   \* history: sections this call has handed to on_section_completed

memory == <<mem, is_ignore_section, is_async_delete>>
history == <<must, known, delivered>>
vars == <<memory, call, sender, sync, history>>

-----------------------------------------------------------------------------
(* The pool.  An entry of the list is a section_info, work the index of     *)
(* work_sect_info_ or 0.  Sections lie end to end, so that n of them go     *)
(* from the front in one cut (shift_all_section_list moves the others).     *)
Last(m) == m.list[m.work]
Bytes(m, i) == SubSeq(m.pool, m.list[i].raw + 1, m.list[i].tail)

Shifted(e, n) == [e EXCEPT !.raw = @ - n, !.tail = @ - n]

(* Mutant: the sections that remain are not moved.                          *)
DropFirstUnshifted(m, n) ==
  IF n = 0 THEN m
  ELSE [list |-> SubSeq(m.list, n + 1, Len(m.list)),
        pool |-> SubSeq(m.pool, m.list[n].tail + 1, Len(m.pool)),
        work |-> IF m.work > n THEN m.work - n ELSE 0]

DropFirst(m, n) ==
  IF n = 0 THEN m
  ELSE LET cut == m.list[n].tail
       IN [list |-> [i \in 1..(Len(m.list) - n) |-> Shifted(m.list[i + n], cut)],
           pool |-> SubSeq(m.pool, cut + 1, Len(m.pool)),
           work |-> IF m.work > n THEN m.work - n ELSE 0]

(* detach_section_list of the working section, the last one: nothing moves. *)
Detach(m) ==
  [list |-> SubSeq(m.list, 1, m.work - 1) \o SubSeq(m.list, m.work + 1, Len(m.list)),
   pool |-> SubSeq(m.pool, 1, Last(m).raw) \o SubSeq(m.pool, Last(m).tail + 1, Len(m.pool)),
   work |-> 0]

(* attach_section_list gives up complete sections from the front until      *)
(* there is room (raw units have gone when it is a section's turn); those   *)
(* it has given up are gone even if it then fails.                          *)
Evicted(m, size) ==
  {i \in DOMAIN m.list :
     /\ \A j \in 1..i : m.list[j].state = "complete"
     /\ Len(m.pool) - m.list[i].raw + size > PoolSize}

MakeRoom(m, size) == DropFirst(m, Cardinality(Evicted(m, size)))
HasRoom(m, size) == Len(m.pool) + size <= PoolSize

(* section_info's constructor: section_length is 0 unless the header's      *)
(* first part is there, and data_ stays NULL unless all of it is.           *)
Entry(m, u) ==
  [raw |-> Len(m.pool), tail |-> Len(m.pool) + Len(u), state |-> "init",
   total |-> IF Len(u) < ShortHeader THEN ShortHeader ELSE Length[u[1].s],
   data |-> Len(u) >= LongHeader]

Receiving(m) == m.work # 0 /\ Last(m).state = "receiving"

(* The data goes to the section that is being received, or starts one.      *)
Attach(m, u) ==
  IF Receiving(m)
  THEN [m EXCEPT !.pool = @ \o u, !.list[m.work].tail = Len(m.pool) + Len(u)]
  ELSE [list |-> Append(m.list, Entry(m, u)), pool |-> m.pool \o u, work |-> Len(m.list) + 1]

Marked(m, state) == [m EXCEPT !.list[m.work].state = state]
IsReceiveAll(m) == Last(m).tail - Last(m).raw >= Last(m).total

(* section_info's truncate and section_parser's: what follows the section   *)
(* in its last packet is not its own.                                       *)
Truncate(m) ==
  [m EXCEPT !.list[m.work].tail = Last(m).raw + Last(m).total,
            !.pool = SubSeq(@, 1, Last(m).raw + Last(m).total)]

-----------------------------------------------------------------------------
(* What is made of a section when all of it is there.                       *)
Whole(s) == [k \in 1..Length[s] |-> [s |-> s, k |-> k]]
CrcOk(m) ==
  LET b == Bytes(m, m.work) IN
  \E s \in Sections : SubSeq(b, 1, Last(m).total) = Whole(s)

IsKnown(m) ==
  \E i \in DOMAIN m.list : m.list[i].state = "complete" /\ Bytes(m, i) = Bytes(m, m.work)

Id(m) == Bytes(m, m.work)[1].s

FifoChecked(m) ==
  IF FifoNum > 0 /\ Len(m.list) > FifoNum THEN DropFirst(m, 1) ELSE m

(* on_section_completed: the table parses the section and, if it cannot use *)
(* it or does not need its repetitions recognised, detaches it.             *)
Completed(m) ==
  LET c == FifoChecked(Marked(m, "complete")) IN
  IF Id(m) \in Kept THEN c ELSE Detach(c)

(* Mutant: a repetition is not recognised.                                  *)
JudgedAnew(m) ==
  LET t == Truncate(m) IN
  CASE ~CrcOk(m) -> [r |-> "CRC32_ERR", m |-> Detach(m)]
    [] CrcOk(m) /\ Last(t).data -> [r |-> "COMPLETED", m |-> Completed(t)]
    [] OTHER -> [r |-> "DOWN", m |-> t]

(* The result, and what it leaves.  Parsing a section whose header was      *)
(* split at the end of a packet reads through data_, which is NULL.         *)
Judged(m) ==
  LET t == Truncate(m) IN
  CASE ~CrcOk(m) -> [r |-> "CRC32_ERR", m |-> Detach(m)]
    [] CrcOk(m) /\ IsKnown(t) -> [r |-> "ALREADY", m |-> Detach(t)]
    [] CrcOk(m) /\ ~IsKnown(t) /\ Last(t).data -> [r |-> "COMPLETED", m |-> Completed(t)]
    [] OTHER -> [r |-> "DOWN", m |-> t]

-----------------------------------------------------------------------------
(* The end of a call of check_section, and its records.                     *)
Idle == call.pc = "idle"

Ends(r, m, ptr) ==
  /\ call' = [pc |-> IF r = "DOWN" THEN "down" ELSE "idle",
              rest |-> <<>>, r |-> r, once |-> FALSE, ptr |-> ptr]
  /\ mem' = m

Noted(r, s) ==
  /\ known' = IF r \in {"COMPLETED", "ALREADY"} THEN known \cup {s} ELSE known
  /\ delivered' = IF r = "COMPLETED" THEN delivered \cup {s} ELSE delivered

(* check_section_follow: what it returns, and the section it was about.     *)
Follow(u) ==
  LET room == MakeRoom(mem, Len(u))
      m == Attach(room, u)
      Gives(j) == [r |-> j.r, m |-> j.m, s |-> Id(mem)]
      Refuses(r, left) == [r |-> r, m |-> left, s |-> "none"]
  IN CASE is_ignore_section -> Refuses("IGNORE", mem)
       [] ~is_ignore_section /\ ~Receiving(mem) -> Refuses("INVALID", mem)
       [] ~is_ignore_section /\ Receiving(mem) /\ ~HasRoom(room, Len(u)) ->
            Refuses("INVALID", room)
       [] ~is_ignore_section /\ Receiving(mem) /\ HasRoom(room, Len(u)) /\ ~IsReceiveAll(m) ->
            Refuses("RECEIVING", m)
       [] OTHER -> Gives(Judged(m))

OnFollow(u) ==
  LET f == Follow(u) IN
  /\ Ends(f.r, f.m, FALSE)
  /\ known' = IF f.r \in {"COMPLETED", "ALREADY"} THEN {f.s} ELSE {}
  /\ delivered' = IF f.r = "COMPLETED" THEN {f.s} ELSE {}
  /\ UNCHANGED <<is_ignore_section, is_async_delete>>

(* check_section_first up to its loop: what comes before the first section  *)
(* (pointer_field units) ends the section that is being received.           *)
OnFirst(ptr, u) ==
  LET f == Follow(SubSeq(u, 1, ptr))
      Loop(r, rest) == [pc |-> "loop", rest |-> rest, r |-> r, once |-> FALSE, ptr |-> ptr > 0]
  IN /\ \/ /\ ptr = 0
           /\ call' = Loop("COMPLETED", u)
           /\ known' = {} /\ delivered' = {}
           /\ UNCHANGED mem
        \/ /\ ptr > 0
           /\ known' = IF f.r \in {"COMPLETED", "ALREADY"} THEN {f.s} ELSE {}
           /\ delivered' = IF f.r = "COMPLETED" THEN {f.s} ELSE {}
           /\ IF f.r \in {"RECEIVING", "INVALID", "DOWN"}
              THEN Ends(IF f.r = "DOWN" THEN "DOWN" ELSE "INVALID", f.m, TRUE)
              ELSE /\ call' = Loop("COMPLETED", SubSeq(u, ptr + 1, Len(u)))
                   /\ mem' = f.m
     /\ UNCHANGED <<is_ignore_section, is_async_delete>>

(* One turn of the loop.  A section that is still incomplete when another   *)
(* begins is given up.                                                      *)
More == call.rest # <<>> /\ call.rest[1] # Stuffing

Fresh == IF Receiving(mem) THEN Detach(mem) ELSE mem
Begun == MakeRoom(Fresh, Len(call.rest))
Work == Attach([Begun EXCEPT !.work = 0], call.rest)

(* A table looks at the table_id, if it looks at all; it is 0 as long as    *)
(* the header is not there.                                                 *)
OnSectionStarted ==
  IF Len(call.rest) < ShortHeader THEN Started = Sections ELSE call.rest[1].s \in Started

GoesOn(r, m) ==
  /\ mem' = [m EXCEPT !.work = 0]
  /\ call' = [call EXCEPT !.rest = SubSeq(@, Last(Work).total + 1, Len(@)),
                          !.r = r, !.once = @ \/ r = "COMPLETED"]

SectionIgnored ==
  /\ call.pc = "loop" /\ More /\ HasRoom(Begun, Len(call.rest))
  /\ ~OnSectionStarted
  /\ is_ignore_section' = TRUE
  /\ GoesOn("IGNORE", Detach(Work))
  /\ UNCHANGED <<is_async_delete, sender, sync, history>>

(* Mutant: the section that goes on in the next packet stays ignored.       *)
SectionCutIgnored ==
  /\ call.pc = "loop" /\ More
  /\ HasRoom(Begun, Len(call.rest)) => OnSectionStarted /\ ~IsReceiveAll(Work)
  /\ IF HasRoom(Begun, Len(call.rest))
     THEN Ends(IF call.once THEN "COMPLETED" ELSE "RECEIVING", Marked(Work, "receiving"), call.ptr)
     ELSE Ends("INVALID", Begun, call.ptr)
  /\ UNCHANGED <<is_ignore_section, is_async_delete, sender, sync, history>>

(* The section goes on in the next packet, or the pool is too small.        *)
SectionCut ==
  /\ call.pc = "loop" /\ More
  /\ HasRoom(Begun, Len(call.rest)) => OnSectionStarted /\ ~IsReceiveAll(Work)
  /\ IF HasRoom(Begun, Len(call.rest))
     THEN /\ is_ignore_section' = FALSE
          /\ Ends(IF call.once THEN "COMPLETED" ELSE "RECEIVING", Marked(Work, "receiving"), call.ptr)
     ELSE /\ Ends("INVALID", Begun, call.ptr)
          /\ UNCHANGED is_ignore_section
  /\ UNCHANGED <<is_async_delete, sender, sync, history>>

SectionWhole ==
  /\ call.pc = "loop" /\ More /\ HasRoom(Begun, Len(call.rest))
  /\ OnSectionStarted /\ IsReceiveAll(Work)
  /\ is_ignore_section' = FALSE
  /\ LET j == Judged(Work) IN
     /\ IF j.r = "DOWN" THEN Ends("DOWN", j.m, call.ptr) ELSE GoesOn(j.r, j.m)
     /\ Noted(j.r, call.rest[1].s)
  /\ UNCHANGED <<is_async_delete, sender, sync, must>>

(* Mutant: the result is that of the last section.                          *)
LoopEndsLast ==
  /\ call.pc = "loop" /\ ~More
  /\ Ends(call.r, mem, call.ptr)
  /\ UNCHANGED <<is_ignore_section, is_async_delete, sender, sync, history>>

LoopEnds ==
  /\ call.pc = "loop" /\ ~More
  /\ Ends(IF call.once THEN "COMPLETED" ELSE call.r, mem, call.ptr)
  /\ UNCHANGED <<is_ignore_section, is_async_delete, sender, sync, history>>

(* A table's clear asks for the list to be emptied (async_delete) ...       *)
Clear ==
  /\ Idle /\ ~is_async_delete
  /\ is_async_delete' = TRUE
  /\ UNCHANGED <<mem, is_ignore_section, call, sender, sync, history>>

(* ... which the next notice does first, of whichever PID it is.            *)
CheckAsyncDelete ==
  /\ Idle /\ is_async_delete
  /\ is_async_delete' = FALSE
  /\ mem' = [list |-> <<>>, pool |-> <<>>, work |-> 0]
  /\ sync' = FALSE
  /\ UNCHANGED <<is_ignore_section, call, sender, history>>

-----------------------------------------------------------------------------
(* The broadcaster repeats sections in any order and packs them as it       *)
(* likes: the rest of a section, then sections one after the other, or      *)
(* stuffing.  Bound: at most two begin in a packet.                         *)
Part(s, from) == SubSeq(Whole(s), from + 1, Length[s])
Rest == IF sender.s = "none" THEN <<>> ELSE Part(sender.s, sender.sent)
Fill(u, n) == [i \in 1..n |-> IF i <= Len(u) THEN u[i] ELSE Stuffing]

Arrives(s) == IF s \in Started THEN {s} ELSE {}

SendFollow ==
  /\ Idle /\ sender.s # "none"
  /\ sender' = IF Len(Rest) <= Payload THEN NoSection ELSE [sender EXCEPT !.sent = @ + Payload]
  /\ \/ /\ ~is_async_delete
        /\ OnFollow(Fill(Rest, Payload))
        /\ must' = IF sync /\ Len(Rest) <= Payload THEN Arrives(sender.s) ELSE {}
        /\ UNCHANGED sync
     \/ sync' = FALSE /\ UNCHANGED <<memory, call, history>>     \* lost

(* Sections a, and b if it is not none, begin after the rest of the last.   *)
SendFirst ==
  /\ Idle
  /\ \E a \in Sections, b \in Sections \cup {"none"} :
       LET ptr == Len(Rest)
           room == Payload - 1
           before == ptr + IF b = "none" THEN 0 ELSE Length[a]
           last == IF b = "none" THEN a ELSE b
           all == Rest \o Whole(a) \o IF b = "none" THEN <<>> ELSE Whole(b)
           inSync == ptr = 0 \/ sync
           ended == IF Len(all) <= room THEN {a, b} \ {"none"} ELSE {a} \ {last}
       IN /\ before < room
          /\ sender' = IF Len(all) <= room THEN NoSection ELSE [s |-> last, sent |-> room - before]
          /\ \/ /\ ~is_async_delete
                /\ OnFirst(ptr, Fill(all, room))
                /\ must' = IF inSync
                           THEN (ended \cap Started) \cup IF ptr > 0 THEN Arrives(sender.s) ELSE {}
                           ELSE {}
                /\ sync' = (inSync /\ (Len(all) <= room \/ room - before >= LongHeader))
             \/ sync' = FALSE /\ UNCHANGED <<memory, call, history>>     \* lost

Init ==
  /\ mem = [list |-> <<>>, pool |-> <<>>, work |-> 0]
  /\ is_ignore_section = FALSE /\ is_async_delete = FALSE
  /\ call = [pc |-> "idle", rest |-> <<>>, r |-> "INVALID", once |-> FALSE, ptr |-> FALSE]
  /\ sender = NoSection /\ sync = TRUE
  /\ must = {} /\ known = {} /\ delivered = {}

Next ==
  \/ SendFollow \/ SendFirst
  \/ SectionIgnored \/ SectionCut \/ SectionWhole \/ LoopEnds
  \/ Clear \/ CheckAsyncDelete

Spec == Init /\ [][Next]_vars

-----------------------------------------------------------------------------
(* The list and the pool agree whatever has been given up, detached or cut: *)
(* the sections lie end to end from the front of the pool to pool_ind_, and *)
(* the one that is worked on is the last.  Everything that moves data       *)
(* relies on it, and nothing checks it.                                     *)
EndToEnd(m) ==
  LET n == Len(m.list) IN
  /\ \A i \in 1..n :
       /\ m.list[i].raw < m.list[i].tail
       /\ m.list[i].raw = IF i = 1 THEN 0 ELSE m.list[i - 1].tail
  /\ Len(m.pool) = IF n = 0 THEN 0 ELSE m.list[n].tail
  /\ m.work \in {0, n}

(* What is kept as complete is a section as it was sent, however often the  *)
(* pool has been compacted, and is kept once.                               *)
Intact(m) ==
  \A i \in DOMAIN m.list : m.list[i].state = "complete" =>
    /\ \E s \in Started : Bytes(m, i) = Whole(s)
    /\ \A j \in DOMAIN m.list : j # i => Bytes(m, j) # Bytes(m, i)

PoolIsSound == EndToEnd(mem) /\ Intact(mem)

(* A section all of whose packets have arrived is delivered or known by the *)
(* end of the call that has brought its last, if it began in step: in a     *)
(* packet without a pointer_field, or after a section that was in step, and *)
(* with a header that was not split.                                        *)
WholeIsDelivered == Idle => must \subseteq known

(* COMPLETED tells psisi_manager that a table has changed.  It is reported  *)
(* if and only if on_section_completed was called, unless the packet ended  *)
(* a section before others began: then either can be the case alone.        *)
ReportIsTrue == Idle /\ ~call.ptr => (call.r = "COMPLETED" <=> delivered # {})
=============================================================================
