------------------------------ MODULE RecTable ------------------------------
(***************************************************************************)
(* The tables of rec_manager: reserves_, an array of ReserveMax slots kept *)
(* in the order of start_time with its used slots in front, and results_,  *)
(* which keeps the last ResultMax results.  A slot that is not in use has  *)
(* been cleared, so its start_time is 0, before every other time.          *)
(***************************************************************************)
EXTENDS Naturals, Sequences, FiniteSets

CONSTANTS ReserveMax, ResultMax \* RESERVE_NUM_MAX, RESULT_NUM_MAX

ASSUME RecTableAssumption == ReserveMax \in Nat \ {0} /\ ResultMax \in Nat \ {0}

Slots == 1..ReserveMax

(* A cleared reserve.  key is what operator== compares, event is            *)
(* is_event_type, period the distance of a repeat (0: none, or auto),       *)
(* flags the bits of state that matter here.                                *)
NoKey == [service |-> 0, event |-> 0]
Blank == [used |-> FALSE, key |-> NoKey, start |-> 0, end |-> 0,
          event |-> FALSE, period |-> 0, flags |-> {}]

Least(S) == CHOOSE i \in S : \A j \in S : i <= j

(* The shifts of the array: one slot further back from i on, the last one   *)
(* falling out, and closing up over i.                                      *)
MakeRoom(t, i, r) ==
  [j \in Slots |-> IF j < i THEN t[j] ELSE IF j = i THEN r ELSE t[j - 1]]

CloseUp(t, i) ==
  [j \in Slots |-> IF j < i THEN t[j] ELSE IF j < ReserveMax THEN t[j + 1] ELSE Blank]

(* search_ascending_order_reserve: the first slot that starts later, used   *)
(* or not, otherwise the first that is not used.                            *)
Later(t, r) == {i \in Slots : t[i].start > r.start}
Unused(t)   == {i \in Slots : ~t[i].used}

(* Mutant: a new reserve goes into the first slot that is not used.         *)
InsertLast(t, r) == [t EXCEPT ![Least(Unused(t))] = r]

InsertAscending(t, r) ==
  IF Later(t, r) # {}
  THEN MakeRoom(t, Least(Later(t, r)), r)
  ELSE [t EXCEPT ![Least(Unused(t))] = r]

Listed(t, key)    == \E i \in Slots : t[i].used /\ t[i].key = key
Recorded(rs, key) == \E g \in DOMAIN rs : rs[g].used /\ rs[g].key = key

(* add_reserve: rs are the recordings.                                      *)
Accepted(t, rs, r) ==
  /\ r.start < r.end
  /\ Unused(t) # {}
  /\ ~Listed(t, r.key)
  /\ ~Recorded(rs, r.key)

AddTo(t, rs, r) == IF Accepted(t, rs, r) THEN InsertAscending(t, r) ELSE t

(* check_repeatability: the same reserve a day or a week later.             *)
RepeatOf(r) == [r EXCEPT !.start = @ + r.period, !.end = @ + r.period, !.flags = {}]
Repeated(t, rs, r) == IF r.period = 0 THEN t ELSE AddTo(t, rs, RepeatOf(r))

(* set_result, also for a reserve that is not in use: it takes no room, but *)
(* a full table drops its oldest entry for it all the same.  n is the       *)
(* number of results.                                                       *)
Dropped(n) == IF n < ResultMax THEN 0 ELSE 1
SetResult(n, r) == n - Dropped(n) + IF r.used THEN 1 ELSE 0

UsedIn(t) == Cardinality({i \in DOMAIN t : t[i].used})

(* What the code assumes of reserves_: its used slots are in front ("should *)
(* be packed from the front"), in the order in which they start, and none   *)
(* is there twice.                                                          *)
InFront(t)   == \A i, j \in Slots : i < j /\ t[j].used => t[i].used
InOrder(t)   == \A i, j \in Slots : i < j /\ t[j].used => t[i].start <= t[j].start
NoneTwice(t) == \A i, j \in Slots : i # j /\ t[i].used /\ t[j].used => t[i].key # t[j].key
=============================================================================
