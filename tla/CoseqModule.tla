---------------------------- MODULE CoseqModule -----------------------------
(***************************************************************************)
(* A whole coseq module with arbitrary sequences: the scheduler of Coseq   *)
(* together with fibers that make any call the API allows, the table of    *)
(* replies they wait for (pending_t) and the peers that answer them.       *)
(*                                                                         *)
(* The sequences keep the conventions every sequence of the program keeps: *)
(* the lock is taken before anything else and never in recv_notify, and a  *)
(* sequence collects the replies to its asynchronous requests before it    *)
(* returns.                                                                *)
(***************************************************************************)
EXTENDS Coseq, Naturals, FiniteSets

CONSTANTS Fibers,   \* fibers that can exist at once (bound)
          MaxReq    \* bound on the requests a behaviour issues

ASSUME FibersAssumption == NoFiber \notin Fibers /\ MaxReq \in Nat

VARIABLES
  fib,        \* [Fibers -> the fiber's record]
  current,    \* the fiber that runs, or NoFiber while the scheduler does
  pending,    \* requests whose reply is awaited: set of [rid, f]
  next_rid,   \* next request id
  open        \* requests a peer may still answer

vars == <<inbox, batch, due, deferred, locked_by, fib, current, pending, next_rid, open>>

Rid == 1..MaxReq

(* st says what the fiber waits for: nothing (run), its timer, the reply to *)
(* wait, either of them, or any asynchronous reply.                         *)
Waits == {"timer", "reply", "reply_or_timer", "any"}
FiberRec ==
  [st : {"free", "run", "done"} \cup Waits, wait : Rid \cup {0}, out : 0..MaxReq,
   rq : Nat, notify : BOOLEAN, fresh : BOOLEAN]

Free == [st |-> "free", wait |-> 0, out |-> 0, rq |-> 0, notify |-> FALSE, fresh |-> FALSE]
New(notify) == [Free EXCEPT !.st = "run", !.notify = notify, !.fresh = TRUE]

Init ==
  /\ CoseqInit
  /\ fib = [f \in Fibers |-> Free]
  /\ current = NoFiber
  /\ pending = {}
  /\ next_rid = 1
  /\ open = {}

(* pending_peek                                                             *)
Owner(e) ==
  IF e.type = "REPLY" /\ \E p \in pending : p.rid = e.rid
  THEN (CHOOSE p \in pending : p.rid = e.rid).f
  ELSE NoFiber

Live == {f \in Fibers : fib[f].st # "free"}
ToStart(q) == Cardinality({i \in DOMAIN q : q[i].type # "REPLY"})
Room == Cardinality(Live) + ToStart(inbox) + ToStart(batch) + ToStart(deferred)
          < Cardinality(Fibers)

HasTimer == {f \in Fibers : fib[f].st \in {"timer", "reply_or_timer"}}
Scheduling == current = NoFiber

-----------------------------------------------------------------------------
(* Other threads.                                                           *)
PostStart ==
  /\ Room
  /\ Post(<<[type |-> "START", rid |-> 0]>>)
  /\ UNCHANGED <<batch, due, deferred, locked_by, fib, current, pending, next_rid, open>>

PostNotify ==
  /\ Room
  /\ Post(<<[type |-> "NOTIFY", rid |-> 0]>>)
  /\ UNCHANGED <<batch, due, deferred, locked_by, fib, current, pending, next_rid, open>>

PeerReplies(r) ==
  /\ r \in open
  /\ open' = open \ {r}
  /\ Post(<<[type |-> "REPLY", rid |-> r]>>)
  /\ UNCHANGED <<batch, due, deferred, locked_by, fib, current, pending, next_rid>>

-----------------------------------------------------------------------------
(* The scheduler.  reap_done ends a turn, so a finished fiber that still    *)
(* had the lock gives it up only then.                                      *)
Turn(expired) ==
  /\ Scheduling
  /\ \A f \in Fibers : fib[f].st # "done"
  /\ BeginTurn(expired)
  /\ UNCHANGED <<fib, current, pending, next_rid, open>>

ReapDone(f) ==
  /\ Scheduling /\ batch = <<>> /\ due = {}
  /\ fib[f].st = "done"
  /\ fib' = [fib EXCEPT ![f] = Free]
  /\ locked_by' = Released(f)
  /\ UNCHANGED <<inbox, batch, due, deferred, current, pending, next_rid, open>>

Resumed(f) == [fib EXCEPT ![f].st = "run", ![f].wait = 0]

(* A request_timeout whose timer fires forgets its request (pending_take).  *)
TimerFires(f) ==
  /\ Scheduling
  /\ ResumeTimer(f)
  /\ fib' = Resumed(f)
  /\ current' = f
  /\ pending' = IF fib[f].st = "reply_or_timer"
                THEN {p \in pending : p.rid # fib[f].wait} ELSE pending
  /\ UNCHANGED <<inbox, locked_by, next_rid, open>>

TimerSkipped(f) ==
  /\ Scheduling
  /\ SkipTimer(f)
  /\ UNCHANGED <<fib, current, pending, next_rid, open>>

DeferEvent ==
  /\ Scheduling
  /\ \E e \in {batch[1]} : Defer(e, Owner(e))
  /\ UNCHANGED <<fib, current, pending, next_rid, open>>

(* START and NOTIFY make a fiber and run it.                                *)
StartFiber(e, f) ==
  /\ Scheduling
  /\ Take(e, NoFiber)
  /\ e.type # "REPLY"
  /\ fib[f].st = "free"
  /\ fib' = [fib EXCEPT ![f] = New(e.type = "NOTIFY")]
  /\ current' = f
  /\ UNCHANGED <<inbox, locked_by, pending, next_rid, open>>

(* handle_reply: drop a reply nobody waits for; wake the fiber if this is   *)
(* what it waits for; otherwise keep the reply for coseq_wait_reply.        *)
DropReply(e) ==
  /\ Scheduling
  /\ Take(e, NoFiber)
  /\ e.type = "REPLY" /\ Owner(e) = NoFiber
  /\ UNCHANGED <<inbox, locked_by, fib, current, pending, next_rid, open>>

Wakes(f, r) ==
  \/ fib[f].st \in {"reply", "reply_or_timer"} /\ fib[f].wait = r
  \/ fib[f].st = "any"

HandleReply(e, f) ==
  /\ Scheduling
  /\ Take(e, f)
  /\ e.type = "REPLY" /\ Owner(e) = f
  /\ pending' = {p \in pending : p.rid # e.rid}
  /\ IF Wakes(f, e.rid)
     THEN /\ fib' = [Resumed(f) EXCEPT
                       ![f].out = IF fib[f].st = "any" THEN @ - 1 ELSE @]
          /\ current' = f
     ELSE /\ fib' = [fib EXCEPT ![f].rq = @ + 1]
          /\ UNCHANGED current
  /\ UNCHANGED <<inbox, locked_by, next_rid, open>>

-----------------------------------------------------------------------------
(* The calls a running fiber makes.                                         *)
Issue(f) ==
  /\ next_rid <= MaxReq
  /\ next_rid' = next_rid + 1
  /\ pending' = pending \cup {[rid |-> next_rid, f |-> f]}
  /\ open' = open \cup {next_rid}
  /\ UNCHANGED <<inbox, batch, due, deferred, locked_by>>

Yield(f, wait, rid) ==
  /\ fib' = [fib EXCEPT ![f].st = wait, ![f].wait = rid, ![f].fresh = FALSE]
  /\ current' = NoFiber

Request(f, with_timeout) ==
  /\ current = f
  /\ Yield(f, IF with_timeout THEN "reply_or_timer" ELSE "reply", next_rid)
  /\ Issue(f)

RequestAsync(f) ==
  /\ current = f
  /\ Issue(f)
  /\ fib' = [fib EXCEPT ![f].out = @ + 1, ![f].fresh = FALSE]
  /\ UNCHANGED current

(* Mutant: a queued reply is handed out but not taken off the queue.        *)
WaitReplyAgain(f) ==
  /\ current = f
  /\ fib[f].out > 0
  /\ IF fib[f].rq > 0
     THEN fib' = [fib EXCEPT ![f].out = @ - 1] /\ UNCHANGED current
     ELSE Yield(f, "any", 0)
  /\ UNCHANGED <<inbox, batch, due, deferred, locked_by, pending, next_rid, open>>

WaitReply(f) ==
  /\ current = f
  /\ fib[f].out > 0 \/ fib[f].rq > 0
  /\ IF fib[f].rq > 0
     THEN /\ fib' = [fib EXCEPT ![f].rq = @ - 1, ![f].out = @ - 1]
          /\ UNCHANGED current
     ELSE Yield(f, "any", 0)
  /\ UNCHANGED <<inbox, batch, due, deferred, locked_by, pending, next_rid, open>>

WaitTimeout(f) ==
  /\ current = f
  /\ Yield(f, "timer", 0)
  /\ UNCHANGED <<inbox, batch, due, deferred, locked_by, pending, next_rid, open>>

Lock(f) ==
  /\ current = f
  /\ fib[f].fresh /\ ~fib[f].notify
  /\ LockFor(f)
  /\ fib' = [fib EXCEPT ![f].fresh = FALSE]
  /\ UNCHANGED <<inbox, batch, due, deferred, current, pending, next_rid, open>>

Unlock(f) ==
  /\ current = f
  /\ locked_by = f
  /\ locked_by' = Released(f)
  /\ UNCHANGED <<inbox, batch, due, deferred, fib, current, pending, next_rid, open>>

(* Mutant: the sequence returns without collecting its replies.             *)
ReturnEarly(f) ==
  /\ current = f
  /\ fib' = [fib EXCEPT ![f].st = "done", ![f].fresh = FALSE]
  /\ current' = NoFiber
  /\ UNCHANGED <<inbox, batch, due, deferred, locked_by, pending, next_rid, open>>

(* fiber_entry: the sequence returns.                                       *)
Return(f) ==
  /\ current = f
  /\ fib[f].out = 0 /\ fib[f].rq = 0
  /\ fib' = [fib EXCEPT ![f].st = "done", ![f].fresh = FALSE]
  /\ current' = NoFiber
  /\ UNCHANGED <<inbox, batch, due, deferred, locked_by, pending, next_rid, open>>

-----------------------------------------------------------------------------
Scheduler ==
  \/ \E expired \in SUBSET HasTimer : Turn(expired)
  \/ \E f \in Fibers : ReapDone(f) \/ TimerFires(f) \/ TimerSkipped(f)
  \/ batch # <<>> /\ DeferEvent
  \/ batch # <<>> /\ \E f \in Fibers : StartFiber(batch[1], f) \/ HandleReply(batch[1], f)
  \/ batch # <<>> /\ DropReply(batch[1])

Sequence(f) ==
  \/ \E with_timeout \in BOOLEAN : Request(f, with_timeout)
  \/ RequestAsync(f) \/ WaitReply(f) \/ WaitTimeout(f)
  \/ Lock(f) \/ Unlock(f) \/ Return(f)

Others == PostStart \/ PostNotify \/ \E r \in Rid : PeerReplies(r)

Next == Scheduler \/ (\E f \in Fibers : Sequence(f)) \/ Others

Spec == Init /\ [][Next]_vars

-----------------------------------------------------------------------------
Event == [type : {"START", "REPLY", "NOTIFY"}, rid : Rid \cup {0}]

TypeOK ==
  /\ inbox \in Seq(Event) /\ batch \in Seq(Event) /\ deferred \in Seq(Event)
  /\ due \subseteq Fibers
  /\ locked_by \in Fibers \cup {NoFiber}
  /\ fib \in [Fibers -> FiberRec]
  /\ current \in Fibers \cup {NoFiber}
  /\ pending \subseteq [rid : Rid, f : Fibers]
  /\ next_rid \in 1..(MaxReq + 1)
  /\ open \subseteq Rid

(* The lock excludes: while a fiber holds it, the only fibers the scheduler *)
(* gives the thread to are the holder and those of notifications, and no    *)
(* other fiber becomes the holder.                                          *)
LockExcludes ==
  [][locked_by # NoFiber =>
       /\ current = NoFiber /\ current' # NoFiber =>
            current' = locked_by \/ fib'[current'].notify
       /\ locked_by' \in {locked_by, NoFiber}]_vars

(* An entry of the table of awaited replies never points to a fiber that    *)
(* has ended: reap_done frees it, and handle_reply would use it.            *)
PendingOwnerLives == \A p \in pending : fib[p.f].st \in Waits \cup {"run"}

(* A fiber that waits for a reply is registered for it, and the count of    *)
(* outstanding asynchronous replies is exact: those not yet here and those  *)
(* queued.  A fiber in coseq_wait_reply therefore has a reply to come.      *)
AwaitedOf(f) ==
  {p \in pending : p.f = f /\ p.rid # fib[f].wait}
RepliesAccounted ==
  \A f \in Live :
    /\ fib[f].out = Cardinality(AwaitedOf(f)) + fib[f].rq
    /\ fib[f].st \in {"reply", "reply_or_timer"} =>
         [rid |-> fib[f].wait, f |-> f] \in pending
    /\ fib[f].st = "any" => fib[f].out > 0

(* Replies find their fiber, and fibers their replies.                      *)
PendingIsSound == PendingOwnerLives /\ RepliesAccounted

(* The module does not lock itself up: the reply the lock's holder waits    *)
(* for is never among the events set aside until the lock is free.          *)
HolderNotStuck ==
  \A i \in DOMAIN deferred : locked_by # NoFiber => Owner(deferred[i]) # locked_by

(* The lock excludes, and does not shut its holder out.                     *)
LockIsSound == []HolderNotStuck /\ LockExcludes
=============================================================================
