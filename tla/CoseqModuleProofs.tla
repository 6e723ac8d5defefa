------------------------- MODULE CoseqModuleProofs -------------------------
(***************************************************************************)
(* What coseq.c keeps for those who call through it.                       *)
(*                                                                         *)
(* Inside a module, for any number of fibers and requests: the state has   *)
(* its type, replies and fibers find each other (PendingIsSound), and the  *)
(* lock excludes without shutting its holder out (LockIsSound).            *)
(*                                                                         *)
(* Outside the modules: the mailbox is correct as long as one external     *)
(* thread at a time makes blocking calls, whatever else is posted and      *)
(* however often the thread is woken for nothing; the console of the       *)
(* command server is such a thread.  And what a session of it has obeyed   *)
(* is what its client has sent, however that was cut.                      *)
(***************************************************************************)
EXTENDS CoseqModule, CoseqProofs, Console, FiniteSetTheorems

(* An event that is on its way answers a request that has been issued.      *)
OldEvent == [type : {"START", "REPLY", "NOTIFY"}, rid : 0..(next_rid - 1)]

(* TypeOK, with the events narrowed to the old ones.                        *)
Shape ==
  /\ QueuesIn(OldEvent)
  /\ due \subseteq Fibers
  /\ locked_by \in Fibers \cup {NoFiber}
  /\ fib \in [Fibers -> FiberRec]
  /\ current \in Fibers \cup {NoFiber}
  /\ pending \subseteq [rid : Rid, f : Fibers]
  /\ next_rid \in 1..(MaxReq + 1)
  /\ open \subseteq Rid

(* Request ids are issued once: whatever carries one carries an old one,    *)
(* and one entry of the table is registered for it.                         *)
Numbered ==
  /\ \A p \in pending : p.rid < next_rid
  /\ \A r \in open : r < next_rid
  /\ \A p, q \in pending : p.rid = q.rid => p = q
  /\ IsFiniteSet(pending)

(* The thread is with current, or with the scheduler.                       *)
OneRuns ==
  /\ current # NoFiber => fib[current].st = "run"
  /\ due \subseteq HasTimer

(* What the record of a fiber says in each state: it names a request only   *)
(* while it waits for its reply, and a new fiber has called nothing and was *)
(* not started past a lock unless for a notification.                       *)
SteadyAt(f) ==
  /\ fib[f].out < next_rid
  /\ fib[f].wait # 0 => fib[f].st \in {"reply", "reply_or_timer"}
  /\ fib[f].fresh =>
       /\ current = f
       /\ fib[f].out = 0 /\ fib[f].rq = 0
       /\ fib[f].notify \/ locked_by = NoFiber
  /\ fib[f].st = "done" => fib[f].out = 0 /\ fib[f].rq = 0

(* One fiber's share of PendingOwnerLives and RepliesAccounted.             *)
AccountedAt(f) ==
  /\ \A p \in pending : p.f = f => fib[f].st \in Waits \cup {"run"}
  /\ f \in Live =>
       /\ fib[f].out = Cardinality(AwaitedOf(f)) + fib[f].rq
       /\ fib[f].st \in {"reply", "reply_or_timer"} =>
            [rid |-> fib[f].wait, f |-> f] \in pending
       /\ fib[f].st = "any" => fib[f].out > 0

IInv ==
  /\ Shape /\ Numbered /\ OneRuns /\ HolderNotStuck
  /\ \A f \in Fibers : SteadyAt(f) /\ AccountedAt(f)

LEMMA ShapeIsType == Shape => TypeOK
<1>1. SUFFICES ASSUME Shape PROVE TypeOK
  OBVIOUS
<1>2. OldEvent \subseteq Event
  BY <1>1, FibersAssumption DEF Shape, OldEvent, Event, Rid
<1>3. Seq(OldEvent) \subseteq Seq(Event)
  BY <1>2
<1>4. QED BY <1>1, <1>3 DEF Shape, TypeOK, QueuesIn

-----------------------------------------------------------------------------
(* Steps of the queues alone: posts, turns, and events set aside or dropped.*)
LEMMA QueueStep ==
  ASSUME IInv, UNCHANGED <<fib, current, pending, next_rid, locked_by>>,
         open' \subseteq open,
         QueuesIn(OldEvent)', due' \subseteq HasTimer,
         \A i \in DOMAIN deferred' : locked_by # NoFiber => Owner(deferred'[i]) # locked_by
  PROVE  IInv'
<1>1. Shape'
  <2>1. due' \subseteq Fibers
    BY DEF HasTimer
  <2>2. QED BY <2>1 DEF IInv, Shape
<1>2. Numbered' /\ OneRuns'
  BY DEF IInv, Numbered, OneRuns, HasTimer
<1>3. ASSUME NEW f \in Fibers PROVE SteadyAt(f)' /\ AccountedAt(f)'
  BY DEF IInv, SteadyAt, AccountedAt, Live, AwaitedOf
<1>4. HolderNotStuck'
  BY DEF HolderNotStuck, Owner
<1>5. QED BY <1>1, <1>2, <1>3, <1>4 DEF IInv

(* Posting an old event to the inbox.                                       *)
LEMMA PostStep ==
  ASSUME IInv, NEW e \in OldEvent, Post(<<e>>), open' \subseteq open,
         UNCHANGED <<batch, due, deferred, locked_by, fib, current, pending, next_rid>>
  PROVE  IInv'
<1>1. QueuesIn(OldEvent)'
  <2>1. OldEvent' = OldEvent
    BY DEF OldEvent
  <2>2. <<e>> \in Seq(OldEvent)
    OBVIOUS
  <2>3. inbox' \in Seq(OldEvent)
    BY <2>2, ConcatProperties DEF Post, IInv, Shape, QueuesIn
  <2>4. QED BY <2>1, <2>3 DEF IInv, Shape, QueuesIn
<1>2. \A i \in DOMAIN deferred' : locked_by # NoFiber => Owner(deferred'[i]) # locked_by
  BY DEF IInv, HolderNotStuck
<1>3. due' \subseteq HasTimer
  BY DEF IInv, OneRuns
<1>4. QED BY <1>1, <1>2, <1>3, QueueStep

LEMMA OthersStep ==
  ASSUME IInv, Others
  PROVE  IInv'
<1>0. next_rid \in Nat \ {0} /\ open \subseteq 0..(next_rid - 1)
  BY FibersAssumption DEF IInv, Shape, Numbered, Rid
<1>1. CASE PostStart
  <2>1. [type |-> "START", rid |-> 0] \in OldEvent
    BY <1>0 DEF OldEvent
  <2>2. QED BY <1>1, <2>1, PostStep DEF PostStart
<1>2. CASE PostNotify
  <2>1. [type |-> "NOTIFY", rid |-> 0] \in OldEvent
    BY <1>0 DEF OldEvent
  <2>2. QED BY <1>2, <2>1, PostStep DEF PostNotify
<1>3. ASSUME NEW r \in Rid, PeerReplies(r) PROVE IInv'
  <2>1. [type |-> "REPLY", rid |-> r] \in OldEvent
    BY <1>0, <1>3 DEF OldEvent, PeerReplies
  <2>2. QED BY <1>3, <2>1, PostStep DEF PeerReplies
<1>4. QED BY <1>1, <1>2, <1>3 DEF Others

(* The old owners of deferred events are kept, whoever they are.            *)
LEMMA TurnStep ==
  ASSUME IInv, NEW expired \in SUBSET HasTimer, Turn(expired)
  PROVE  IInv'
<1>1. QueuesIn(OldEvent)'
  <2>1. OldEvent' = OldEvent
    BY DEF OldEvent, Turn
  <2>2. deferred \o inbox \in Seq(OldEvent) /\ <<>> \in Seq(OldEvent)
    BY ConcatProperties, EmptySeq DEF IInv, Shape, QueuesIn
  <2>3. QED BY <2>1, <2>2 DEF Turn, BeginTurn, IInv, Shape, QueuesIn
<1>2. \A i \in DOMAIN deferred' : locked_by # NoFiber => Owner(deferred'[i]) # locked_by
  BY DEF IInv, HolderNotStuck, Turn, BeginTurn
<1>3. due' \subseteq HasTimer
  BY DEF Turn, BeginTurn
<1>4. QED BY <1>1, <1>2, <1>3, QueueStep DEF Turn, BeginTurn

LEMMA TimerSkippedStep ==
  ASSUME IInv, NEW f, TimerSkipped(f)
  PROVE  IInv'
<1>1. QueuesIn(OldEvent)'
  BY DEF IInv, Shape, QueuesIn, OldEvent, TimerSkipped, SkipTimer
<1>2. \A i \in DOMAIN deferred' : locked_by # NoFiber => Owner(deferred'[i]) # locked_by
  BY DEF IInv, HolderNotStuck, TimerSkipped, SkipTimer
<1>3. due' \subseteq HasTimer
  BY DEF IInv, OneRuns, TimerSkipped, SkipTimer
<1>4. QED BY <1>1, <1>2, <1>3, QueueStep DEF TimerSkipped, SkipTimer

(* What the head of the batch is, and what is left of it.                   *)
LEMMA BatchHead ==
  ASSUME Shape, batch # <<>>
  PROVE  /\ batch[1] = Head(batch) /\ batch[1] \in OldEvent
         /\ Tail(batch) \in Seq(OldEvent)
BY HeadTailProperties DEF Shape, QueuesIn

LEMMA DeferStep ==
  ASSUME IInv, batch # <<>>, DeferEvent
  PROVE  IInv'
<1> DEFINE e == batch[1]
<1>1. Defer(e, Owner(e)) /\ UNCHANGED <<fib, current, pending, next_rid, open>>
  BY DEF DeferEvent
<1>2. e \in OldEvent /\ Tail(batch) \in Seq(OldEvent)
  BY BatchHead DEF IInv
<1>3. /\ batch' = Tail(batch) /\ deferred' = Append(deferred, e)
      /\ UNCHANGED <<inbox, due, locked_by>>
      /\ Deferrable(e, Owner(e))
  BY <1>1 DEF Defer
<1>4. Owner(e) # locked_by
  BY <1>3 DEF Deferrable, Owner
<1>5. /\ deferred' \in Seq(OldEvent)
      /\ \A i \in DOMAIN deferred' : deferred'[i] = e \/ (i \in DOMAIN deferred /\ deferred'[i] = deferred[i])
  <2>1. deferred \in Seq(OldEvent)
    BY DEF IInv, Shape, QueuesIn
  <2>2. QED BY <1>2, <1>3, <2>1, AppendProperties
<1> HIDE DEF e
<1>6. QueuesIn(OldEvent)'
  BY <1>1, <1>2, <1>3, <1>5 DEF IInv, Shape, QueuesIn, OldEvent
<1>7. \A i \in DOMAIN deferred' : locked_by # NoFiber => Owner(deferred'[i]) # locked_by
  BY <1>4, <1>5 DEF IInv, HolderNotStuck
<1>8. due' \subseteq HasTimer
  BY <1>3 DEF IInv, OneRuns
<1>9. QED BY <1>1, <1>3, <1>6, <1>7, <1>8, QueueStep

LEMMA DropStep ==
  ASSUME IInv, batch # <<>>, DropReply(batch[1])
  PROVE  IInv'
<1>1. QueuesIn(OldEvent)'
  BY BatchHead DEF IInv, Shape, QueuesIn, OldEvent, DropReply, Take
<1>2. \A i \in DOMAIN deferred' : locked_by # NoFiber => Owner(deferred'[i]) # locked_by
  BY DEF IInv, HolderNotStuck, DropReply, Take
<1>3. due' \subseteq HasTimer
  BY DEF IInv, OneRuns, DropReply, Take
<1>4. QED BY <1>1, <1>2, <1>3, QueueStep DEF DropReply, Take

-----------------------------------------------------------------------------
(* Steps of one fiber, or of the scheduler for one: only f's record and f's *)
(* entries of the table change.                                             *)
LEMMA FiberStep ==
  ASSUME IInv, NEW f \in Fibers,
         fib' \in [Fibers -> FiberRec], \A g \in Fibers \ {f} : fib'[g] = fib[g],
         current \in {f, NoFiber}, current' \in {f, NoFiber},
         current' = f => fib'[f].st = "run",
         due' \subseteq due, f \notin due',
         QueuesIn(OldEvent)', deferred' = deferred,
         next_rid' \in 1..(MaxReq + 1), next_rid <= next_rid',
         open' \subseteq Rid, pending' \subseteq [rid : Rid, f : Fibers], Numbered',
         \A p \in pending : p.f # f => p \in pending',
         \A p \in pending' : p.f # f => p \in pending,
         \A p \in pending' : p \notin pending => p.rid >= next_rid,
         \/ locked_by' \in {locked_by, NoFiber}
         \/ locked_by' = f /\ \A p \in pending' : p.f # f,
         SteadyAt(f)', AccountedAt(f)'
  PROVE  IInv'
<1>1. Shape'
  BY DEF IInv, Shape
<1>2. OneRuns'
  BY DEF IInv, OneRuns, HasTimer
<1>3. ASSUME NEW g \in Fibers, g # f PROVE SteadyAt(g)' /\ AccountedAt(g)'
  <2>1. SteadyAt(g) /\ AccountedAt(g) /\ fib'[g] = fib[g]
    BY <1>3 DEF IInv
  <2>2. g # NoFiber /\ ~fib[g].fresh
    BY <1>3, <2>1, FibersAssumption DEF SteadyAt
  <2>3. fib[g] \in FiberRec /\ next_rid \in Nat /\ next_rid' \in Nat
    BY FibersAssumption DEF IInv, Shape
  <2>4. fib[g].out \in Nat
    BY <2>3, FibersAssumption DEF FiberRec
  <2>5. SteadyAt(g)'
    BY <2>1, <2>2, <2>3, <2>4 DEF SteadyAt
  <2>6. AwaitedOf(g)' = AwaitedOf(g)
    BY <1>3, <2>1 DEF AwaitedOf
  <2>7. [rid |-> fib[g].wait, f |-> g].f # f
    BY <1>3
  <2>8. AccountedAt(g)'
    BY <1>3, <2>1, <2>6, <2>7 DEF AccountedAt, Live
  <2>9. QED BY <2>5, <2>8
<1>4. ASSUME NEW i \in DOMAIN deferred', locked_by' # NoFiber, Owner(deferred[i])' = locked_by'
      PROVE  FALSE
  <2> DEFINE e == deferred[i]
  <2>1. e \in OldEvent /\ i \in DOMAIN deferred /\ deferred'[i] = e
    BY <1>4 DEF IInv, Shape, QueuesIn
  <2> HIDE DEF e
  <2>2. e.rid < next_rid /\ e.rid \in Nat /\ next_rid \in Nat
    BY <2>1, FibersAssumption DEF OldEvent, IInv, Shape
  <2>3. PICK p \in pending' : e.type = "REPLY" /\ p.rid = e.rid /\ p.f = locked_by'
    BY <1>4, <2>1 DEF Owner
  <2>4. p \in pending
    BY <2>2, <2>3
  <2>5. locked_by' = locked_by
    BY <1>4, <2>3
  <2>6. \A q \in pending : q.rid = e.rid => q = p
    BY <2>3, <2>4 DEF IInv, Numbered
  <2>7. Owner(e) = p.f
    BY <2>3, <2>4, <2>6 DEF Owner
  <2>8. QED BY <1>4, <2>1, <2>3, <2>5, <2>7 DEF IInv, HolderNotStuck, e
<1>5. HolderNotStuck'
  BY <1>4 DEF HolderNotStuck
<1>6. QED BY <1>1, <1>2, <1>3, <1>5 DEF IInv

(* Of a step that takes no part in the queues or the table.                 *)
LEMMA LocalStep ==
  ASSUME IInv, NEW f \in Fibers,
         UNCHANGED <<inbox, batch, due, deferred, pending, next_rid, open>>,
         fib' \in [Fibers -> FiberRec], \A g \in Fibers \ {f} : fib'[g] = fib[g],
         current \in {f, NoFiber}, current' \in {f, NoFiber},
         current' = f => fib'[f].st = "run", f \notin due,
         \/ locked_by' \in {locked_by, NoFiber}
         \/ locked_by' = f /\ \A p \in pending : p.f # f,
         SteadyAt(f)', AccountedAt(f)'
  PROVE  IInv'
<1>1. QueuesIn(OldEvent)' /\ Numbered'
  BY DEF IInv, Shape, QueuesIn, OldEvent, Numbered
<1>2. /\ next_rid' \in 1..(MaxReq + 1) /\ next_rid <= next_rid'
      /\ open' \subseteq Rid /\ pending' \subseteq [rid : Rid, f : Fibers]
  BY FibersAssumption DEF IInv, Shape
<1>3. QED BY <1>1, <1>2, FiberStep

(* The fiber that runs waits for nothing, and its outstanding replies are   *)
(* all its entries of the table and the replies queued for it.              *)
LEMMA Running ==
  ASSUME IInv, NEW f \in Fibers, current = f
  PROVE  /\ fib[f] \in FiberRec /\ fib[f].st = "run" /\ fib[f].wait = 0
         /\ f \notin due /\ f # NoFiber
         /\ AwaitedOf(f) = {p \in pending : p.f = f}
         /\ IsFiniteSet(AwaitedOf(f)) /\ Cardinality(AwaitedOf(f)) \in Nat
         /\ fib[f].rq \in Nat /\ fib[f].out \in 0..MaxReq
         /\ fib[f].out = Cardinality(AwaitedOf(f)) + fib[f].rq
         /\ fib[f].out < next_rid
         /\ fib[f].fresh \in BOOLEAN /\ fib[f].notify \in BOOLEAN
<1>1. f # NoFiber /\ fib[f].st = "run"
  BY FibersAssumption DEF IInv, OneRuns
<1>2. fib[f] \in FiberRec /\ f \notin due
  BY <1>1 DEF IInv, Shape, OneRuns, HasTimer
<1>3. SteadyAt(f) /\ AccountedAt(f)
  BY DEF IInv
<1>4. fib[f].wait = 0
  BY <1>1, <1>3 DEF SteadyAt
<1>5. AwaitedOf(f) = {p \in pending : p.f = f}
  <2>1. \A p \in pending : p.rid # 0
    BY FibersAssumption DEF IInv, Shape, Rid
  <2>2. QED BY <1>4, <2>1 DEF AwaitedOf
<1>6. IsFiniteSet(AwaitedOf(f)) /\ Cardinality(AwaitedOf(f)) \in Nat
  BY FS_Subset, FS_CardinalityType DEF IInv, Numbered, AwaitedOf
<1>7. f \in Live
  BY <1>1 DEF Live
<1>8. QED BY <1>1, <1>2, <1>3, <1>4, <1>5, <1>6, <1>7 DEF SteadyAt, AccountedAt, FiberRec

(* Yield writes a record of the same kind.                                  *)
LEMMA YieldTyped ==
  ASSUME IInv, NEW f \in Fibers, NEW wait \in Waits, NEW i \in Rid \cup {0}, Yield(f, wait, i)
  PROVE  /\ fib' \in [Fibers -> FiberRec] /\ \A g \in Fibers \ {f} : fib'[g] = fib[g]
         /\ fib'[f] = [fib[f] EXCEPT !.st = wait, !.wait = i, !.fresh = FALSE]
         /\ current' = NoFiber
<1> DEFINE r == [fib[f] EXCEPT !.st = wait, !.wait = i, !.fresh = FALSE]
<1>1. fib \in [Fibers -> FiberRec] /\ fib[f] \in FiberRec
  BY DEF IInv, Shape
<1>2. r \in FiberRec
  BY <1>1 DEF FiberRec
<1>3. fib' = [fib EXCEPT ![f] = r] /\ current' = NoFiber
  BY <1>1 DEF Yield
<1> HIDE DEF r
<1>4. QED BY <1>1, <1>2, <1>3 DEF r

LEMMA WaitTimeoutStep ==
  ASSUME IInv, NEW f \in Fibers, WaitTimeout(f)
  PROVE  IInv'
<1>1. /\ current = f /\ current' = NoFiber
      /\ Yield(f, "timer", 0)
      /\ UNCHANGED <<inbox, batch, due, deferred, locked_by, pending, next_rid, open>>
  BY DEF WaitTimeout, Yield
<1>2. fib \in [Fibers -> FiberRec]
  BY DEF IInv, Shape
<1>3. /\ fib' \in [Fibers -> FiberRec] /\ \A g \in Fibers \ {f} : fib'[g] = fib[g]
      /\ fib'[f] = [fib[f] EXCEPT !.st = "timer", !.wait = 0, !.fresh = FALSE]
  <2> DEFINE r == [fib[f] EXCEPT !.st = "timer", !.wait = 0, !.fresh = FALSE]
  <2>1. fib[f] \in FiberRec
    BY <1>2
  <2>2. r \in FiberRec
    BY <2>1 DEF FiberRec, Waits
  <2>3. fib' = [fib EXCEPT ![f] = r]
    BY <1>1, <1>2 DEF Yield
  <2> HIDE DEF r
  <2>4. QED BY <1>2, <2>2, <2>3 DEF r
<1>4. AwaitedOf(f)' = AwaitedOf(f)
  BY <1>1, <1>2, <1>3, Running DEF AwaitedOf, FiberRec
<1>5. SteadyAt(f)' /\ AccountedAt(f)'
  BY <1>1, <1>2, <1>3, <1>4, Running DEF SteadyAt, AccountedAt, Live, Waits, FiberRec
<1>6. QED BY <1>1, <1>3, <1>5, Running, LocalStep

LEMMA WaitReplyStep ==
  ASSUME IInv, NEW f \in Fibers, WaitReply(f)
  PROVE  IInv'
<1>0. /\ current = f
      /\ fib[f].out > 0 \/ fib[f].rq > 0
      /\ UNCHANGED <<inbox, batch, due, deferred, locked_by, pending, next_rid, open>>
  BY DEF WaitReply
<1>1. fib \in [Fibers -> FiberRec] /\ fib[f].st = "run" /\ f \notin due /\ f # NoFiber
  BY <1>0, Running DEF IInv, Shape
<1>2. CASE fib[f].rq > 0
  <2>1. /\ fib' = [fib EXCEPT ![f].rq = @ - 1, ![f].out = @ - 1]
        /\ current' = current
    BY <1>2 DEF WaitReply
  <2>2. fib[f].rq - 1 \in Nat /\ fib[f].out - 1 \in 0..MaxReq
    <3>1. /\ fib[f].rq \in Nat /\ fib[f].out \in 0..MaxReq
          /\ Cardinality(AwaitedOf(f)) \in Nat
          /\ fib[f].out = Cardinality(AwaitedOf(f)) + fib[f].rq
      BY <1>0, Running
    <3>2. QED BY <1>2, <3>1, FibersAssumption
  <2>3. /\ fib' \in [Fibers -> FiberRec] /\ \A g \in Fibers \ {f} : fib'[g] = fib[g]
        /\ fib'[f] = [fib[f] EXCEPT !.rq = @ - 1, !.out = @ - 1]
    BY <1>1, <2>1, <2>2 DEF FiberRec, Waits
  <2>4. AwaitedOf(f)' = AwaitedOf(f)
    BY <1>0, <1>1, <2>3, Running DEF AwaitedOf, FiberRec
  <2>5. ~fib[f].fresh
    BY <1>2 DEF IInv, SteadyAt
  <2>6. next_rid \in Nat
    BY FibersAssumption DEF IInv, Shape
  <2>7. SteadyAt(f)' /\ AccountedAt(f)'
    BY <1>0, <1>1, <2>1, <2>2, <2>3, <2>4, <2>5, <2>6, Running DEF SteadyAt, AccountedAt, Live, Waits, FiberRec
  <2>8. QED BY <1>0, <1>1, <2>1, <2>3, <2>7, LocalStep
<1>3. CASE ~(fib[f].rq > 0)
  <2>1. Yield(f, "any", 0) /\ current' = NoFiber
    BY <1>3 DEF WaitReply, Yield
  <2>2. /\ fib' \in [Fibers -> FiberRec] /\ \A g \in Fibers \ {f} : fib'[g] = fib[g]
        /\ fib'[f] = [fib[f] EXCEPT !.st = "any", !.wait = 0, !.fresh = FALSE]
    BY <2>1, YieldTyped, ZenonT(30) DEF Waits
  <2>3. AwaitedOf(f)' = AwaitedOf(f)
    BY <1>0, <1>1, <2>2, Running DEF AwaitedOf, FiberRec
  <2>4. SteadyAt(f)' /\ AccountedAt(f)'
    BY <1>0, <1>1, <1>3, <2>1, <2>2, <2>3, Running DEF SteadyAt, AccountedAt, Live, Waits, FiberRec
  <2>5. QED BY <1>0, <1>1, <2>1, <2>2, <2>4, LocalStep
<1>4. QED BY <1>2, <1>3

(* The lock is taken by a fiber nobody has seen yet: no event that was set  *)
(* aside can be a reply to it.                                              *)
LEMMA LockStep ==
  ASSUME IInv, NEW f \in Fibers, Lock(f)
  PROVE  IInv'
<1>1. /\ current = f /\ fib[f].fresh /\ ~fib[f].notify /\ locked_by' = f
      /\ fib' = [fib EXCEPT ![f].fresh = FALSE]
      /\ UNCHANGED <<inbox, batch, due, deferred, current, pending, next_rid, open>>
  BY DEF Lock, LockFor
<1>2. fib \in [Fibers -> FiberRec] /\ fib[f].out = 0 /\ fib[f].rq = 0
  BY <1>1 DEF IInv, Shape, SteadyAt
<1>3. \A p \in pending : p.f # f
  BY <1>1, <1>2, Running, FS_EmptySet
<1>4. /\ fib' \in [Fibers -> FiberRec] /\ \A g \in Fibers \ {f} : fib'[g] = fib[g]
      /\ fib'[f] = [fib[f] EXCEPT !.fresh = FALSE]
  BY <1>1, <1>2 DEF FiberRec
<1>5. AwaitedOf(f)' = AwaitedOf(f)
  BY <1>1, <1>2, <1>4 DEF AwaitedOf, FiberRec
<1>6. SteadyAt(f)' /\ AccountedAt(f)'
  BY <1>1, <1>2, <1>4, <1>5, Running DEF SteadyAt, AccountedAt, Live, FiberRec
<1>7. f \notin due /\ fib'[f].st = "run"
  BY <1>1, <1>2, <1>4, Running DEF FiberRec
<1>8. QED BY <1>1, <1>3, <1>4, <1>6, <1>7, LocalStep

LEMMA UnlockStep ==
  ASSUME IInv, NEW f \in Fibers, Unlock(f)
  PROVE  IInv'
<1>1. /\ current = f /\ locked_by' = NoFiber
      /\ UNCHANGED <<inbox, batch, due, deferred, fib, current, pending, next_rid, open>>
  BY DEF Unlock, Released
<1>2. fib \in [Fibers -> FiberRec] /\ SteadyAt(f) /\ AccountedAt(f)
  BY DEF IInv, Shape
<1>3. SteadyAt(f)' /\ AccountedAt(f)'
  BY <1>1, <1>2 DEF SteadyAt, AccountedAt, Live, AwaitedOf
<1>4. QED BY <1>1, <1>2, <1>3, Running, LocalStep

(* A sequence that has collected its replies leaves no entry behind.        *)
LEMMA ReturnStep ==
  ASSUME IInv, NEW f \in Fibers, Return(f)
  PROVE  IInv'
<1>1. /\ current = f /\ current' = NoFiber /\ fib[f].out = 0 /\ fib[f].rq = 0
      /\ fib' = [fib EXCEPT ![f].st = "done", ![f].fresh = FALSE]
      /\ UNCHANGED <<inbox, batch, due, deferred, locked_by, pending, next_rid, open>>
  BY DEF Return
<1>2. fib \in [Fibers -> FiberRec]
  BY DEF IInv, Shape
<1>3. /\ fib' \in [Fibers -> FiberRec] /\ \A g \in Fibers \ {f} : fib'[g] = fib[g]
      /\ fib'[f] = [fib[f] EXCEPT !.st = "done", !.fresh = FALSE]
  <2>1. fib[f] \in FiberRec
    BY <1>2
  <2>2. [fib[f] EXCEPT !.st = "done", !.fresh = FALSE] \in FiberRec
    BY <2>1 DEF FiberRec
  <2>3. fib' = [fib EXCEPT ![f] = [fib[f] EXCEPT !.st = "done", !.fresh = FALSE]]
    BY <1>1, <1>2
  <2>4. QED BY <1>2, <2>2, <2>3
<1>4. \A p \in pending : p.f # f
  BY <1>1, Running, FS_EmptySet
<1>5. AwaitedOf(f)' = AwaitedOf(f)
  BY <1>1, <1>2, <1>3 DEF AwaitedOf, FiberRec
<1>6. SteadyAt(f)' /\ AccountedAt(f)'
  BY <1>1, <1>2, <1>3, <1>4, <1>5, Running DEF SteadyAt, AccountedAt, Live, FiberRec
<1>7. QED BY <1>1, <1>3, <1>6, Running, LocalStep

LEMMA ReapStep ==
  ASSUME IInv, NEW f \in Fibers, ReapDone(f)
  PROVE  IInv'
<1>1. /\ current = NoFiber /\ due = {} /\ fib[f].st = "done" /\ fib' = [fib EXCEPT ![f] = Free]
      /\ locked_by' \in {locked_by, NoFiber}
      /\ UNCHANGED <<inbox, batch, due, deferred, current, pending, next_rid, open>>
  BY DEF ReapDone, Scheduling, Released
<1>2. fib \in [Fibers -> FiberRec] /\ Free \in FiberRec /\ next_rid \in Nat \ {0}
  BY FibersAssumption DEF IInv, Shape, FiberRec, Free
<1>3. /\ fib' \in [Fibers -> FiberRec] /\ \A g \in Fibers \ {f} : fib'[g] = fib[g]
      /\ fib'[f] = Free
  BY <1>1, <1>2
<1>4. \A p \in pending : p.f # f
  BY <1>1 DEF IInv, AccountedAt, Waits
<1>5. SteadyAt(f)' /\ AccountedAt(f)'
  BY <1>1, <1>2, <1>3, <1>4 DEF SteadyAt, AccountedAt, Live, Free
<1>6. f # NoFiber
  BY FibersAssumption
<1>7. QED BY <1>1, <1>3, <1>5, <1>6, LocalStep

-----------------------------------------------------------------------------
(* A request is registered under an id nothing else carries.                *)
LEMMA Issued ==
  ASSUME IInv, NEW f \in Fibers, Issue(f)
  PROVE  /\ QueuesIn(OldEvent)' /\ Numbered'
         /\ next_rid \in Rid /\ next_rid' \in 1..(MaxReq + 1) /\ next_rid' = next_rid + 1
         /\ open' \subseteq Rid /\ pending' \subseteq [rid : Rid, f : Fibers]
         /\ pending' = pending \cup {[rid |-> next_rid, f |-> f]}
         /\ \A p \in pending : p.rid # next_rid
         /\ [rid |-> next_rid, f |-> f] \notin pending
<1>1. /\ next_rid <= MaxReq /\ next_rid' = next_rid + 1
      /\ pending' = pending \cup {[rid |-> next_rid, f |-> f]}
      /\ open' = open \cup {next_rid}
      /\ UNCHANGED <<inbox, batch, deferred>>
  BY DEF Issue
<1>2. /\ next_rid \in 1..(MaxReq + 1) /\ open \subseteq Rid /\ pending \subseteq [rid : Rid, f : Fibers]
      /\ QueuesIn(OldEvent)
  BY DEF IInv, Shape
<1>3. next_rid \in Rid /\ next_rid' \in 1..(MaxReq + 1)
  BY <1>1, <1>2, FibersAssumption DEF Rid
<1>4. \A p \in pending : p.rid # next_rid /\ p.rid < next_rid /\ p.rid \in Nat
  BY <1>2, FibersAssumption DEF IInv, Numbered, Rid
<1>5. QueuesIn(OldEvent)'
  <2>1. OldEvent \subseteq OldEvent'
    BY <1>1, <1>2, FibersAssumption DEF OldEvent
  <2>2. Seq(OldEvent) \subseteq Seq(OldEvent')
    BY <2>1
  <2>3. QED BY <1>1, <1>2, <2>2 DEF QueuesIn
<1>6. Numbered'
  <2>1. IsFiniteSet(pending')
    BY <1>1, FS_AddElement DEF IInv, Numbered
  <2>2. \A p \in pending' : p.rid < next_rid'
    BY <1>1, <1>3, <1>4 DEF Rid
  <2>3. \A r \in open' : r < next_rid'
    BY <1>1, <1>2, <1>3, FibersAssumption DEF Rid, IInv, Numbered
  <2>4. \A p, q \in pending' : p.rid = q.rid => p = q
    BY <1>1, <1>4 DEF IInv, Numbered
  <2>5. QED BY <2>1, <2>2, <2>3, <2>4 DEF Numbered
<1>7. open' \subseteq Rid /\ pending' \subseteq [rid : Rid, f : Fibers]
  BY <1>1, <1>2, <1>3
<1>8. [rid |-> next_rid, f |-> f] \notin pending
  BY <1>4
<1>9. QED BY <1>1, <1>3, <1>4, <1>5, <1>6, <1>7, <1>8

LEMMA RequestStep ==
  ASSUME IInv, NEW f \in Fibers, NEW with_timeout \in BOOLEAN, Request(f, with_timeout)
  PROVE  IInv'
<1> DEFINE wait == IF with_timeout THEN "reply_or_timer" ELSE "reply"
<1>1. current = f /\ Yield(f, wait, next_rid) /\ Issue(f)
  BY DEF Request
<1>2. wait \in {"reply", "reply_or_timer"}
  OBVIOUS
<1> HIDE DEF wait
<1>3. /\ QueuesIn(OldEvent)' /\ Numbered'
      /\ next_rid \in Rid /\ next_rid' \in 1..(MaxReq + 1) /\ next_rid' = next_rid + 1
      /\ open' \subseteq Rid /\ pending' \subseteq [rid : Rid, f : Fibers]
      /\ pending' = pending \cup {[rid |-> next_rid, f |-> f]}
      /\ \A p \in pending : p.rid # next_rid
  BY <1>1, Issued
<1>4. UNCHANGED <<batch, due, deferred, locked_by>>
  BY <1>1 DEF Issue
<1>5. /\ fib' \in [Fibers -> FiberRec] /\ \A g \in Fibers \ {f} : fib'[g] = fib[g]
      /\ fib'[f] = [fib[f] EXCEPT !.st = wait, !.wait = next_rid, !.fresh = FALSE]
      /\ current' = NoFiber
  <2>1. wait \in Waits /\ next_rid \in Rid \cup {0}
    BY <1>2, <1>3 DEF Waits
  <2>2. QED BY <1>1, <2>1, YieldTyped
<1>6. /\ fib'[f].st = wait /\ fib'[f].wait = next_rid /\ fib'[f].fresh = FALSE
      /\ fib'[f].out = fib[f].out /\ fib'[f].rq = fib[f].rq
  BY <1>1, <1>5, Running DEF FiberRec
<1>7. /\ fib[f].out < next_rid /\ fib[f].out \in 0..MaxReq /\ f \notin due /\ f # NoFiber
      /\ AwaitedOf(f) = {p \in pending : p.f = f}
      /\ fib[f].out = Cardinality(AwaitedOf(f)) + fib[f].rq
  BY <1>1, Running
<1>8. AwaitedOf(f)' = AwaitedOf(f)
  BY <1>3, <1>6, <1>7 DEF AwaitedOf
<1>9. SteadyAt(f)'
  BY <1>2, <1>3, <1>6, <1>7, FibersAssumption DEF SteadyAt, Rid
<1>10. AccountedAt(f)'
  BY <1>2, <1>3, <1>6, <1>7, <1>8 DEF AccountedAt, Waits
<1>11. /\ \A p \in pending : p.f # f => p \in pending'
       /\ \A p \in pending' : p.f # f => p \in pending
       /\ \A p \in pending' : p \notin pending => p.rid >= next_rid
  BY <1>3, FibersAssumption DEF Rid
<1>12. next_rid <= next_rid'
  BY <1>3, FibersAssumption DEF Rid
<1>13. QED BY <1>1, <1>3, <1>4, <1>5, <1>7, <1>9, <1>10, <1>11, <1>12, FiberStep

LEMMA RequestAsyncStep ==
  ASSUME IInv, NEW f \in Fibers, RequestAsync(f)
  PROVE  IInv'
<1>1. /\ current = f /\ Issue(f) /\ current' = current
      /\ fib' = [fib EXCEPT ![f].out = @ + 1, ![f].fresh = FALSE]
  BY DEF RequestAsync
<1>2. /\ QueuesIn(OldEvent)' /\ Numbered'
      /\ next_rid \in Rid /\ next_rid' \in 1..(MaxReq + 1) /\ next_rid' = next_rid + 1
      /\ open' \subseteq Rid /\ pending' \subseteq [rid : Rid, f : Fibers]
      /\ pending' = pending \cup {[rid |-> next_rid, f |-> f]}
      /\ \A p \in pending : p.rid # next_rid
      /\ [rid |-> next_rid, f |-> f] \notin pending
  BY <1>1, Issued
<1>3. UNCHANGED <<batch, due, deferred, locked_by>>
  BY <1>1 DEF Issue
<1>4. /\ fib[f] \in FiberRec /\ fib[f].st = "run" /\ fib[f].wait = 0
      /\ fib[f].out < next_rid /\ fib[f].out \in 0..MaxReq /\ f \notin due /\ f # NoFiber
      /\ AwaitedOf(f) = {p \in pending : p.f = f} /\ IsFiniteSet(AwaitedOf(f))
      /\ Cardinality(AwaitedOf(f)) \in Nat /\ fib[f].rq \in Nat
      /\ fib[f].out = Cardinality(AwaitedOf(f)) + fib[f].rq
  BY <1>1, Running
<1>5. fib[f].out + 1 \in 0..MaxReq
  BY <1>2, <1>4, FibersAssumption DEF Rid
<1>6. /\ fib' \in [Fibers -> FiberRec] /\ \A g \in Fibers \ {f} : fib'[g] = fib[g]
      /\ fib'[f].st = "run" /\ fib'[f].wait = 0 /\ fib'[f].fresh = FALSE
      /\ fib'[f].out = fib[f].out + 1 /\ fib'[f].rq = fib[f].rq
  <2> DEFINE r == [fib[f] EXCEPT !.out = @ + 1, !.fresh = FALSE]
  <2>1. r \in FiberRec /\ r.st = "run" /\ r.wait = 0 /\ r.fresh = FALSE /\ r.out = fib[f].out + 1 /\ r.rq = fib[f].rq
    BY <1>4, <1>5 DEF FiberRec
  <2>2. fib \in [Fibers -> FiberRec]
    BY DEF IInv, Shape
  <2>3. fib' = [fib EXCEPT ![f] = r]
    BY <1>1, <2>2
  <2> HIDE DEF r
  <2>4. QED BY <2>1, <2>2, <2>3
<1>7. AwaitedOf(f)' = AwaitedOf(f) \cup {[rid |-> next_rid, f |-> f]}
  <2>1. next_rid # 0
    BY <1>2, FibersAssumption DEF Rid
  <2>2. \A p \in pending : p.rid # 0
    BY FibersAssumption DEF IInv, Shape, Rid
  <2>3. QED BY <1>2, <1>4, <1>6, <2>1, <2>2 DEF AwaitedOf
<1>8. Cardinality(AwaitedOf(f)') = Cardinality(AwaitedOf(f)) + 1
  <2>1. [rid |-> next_rid, f |-> f] \notin AwaitedOf(f)
    BY <1>2, <1>4
  <2>2. Cardinality(AwaitedOf(f) \cup {[rid |-> next_rid, f |-> f]}) = Cardinality(AwaitedOf(f)) + 1
    BY <1>4, <2>1, FS_AddElement
  <2>3. QED BY <1>7, <2>2
<1>9. SteadyAt(f)'
  BY <1>2, <1>4, <1>6, FibersAssumption DEF SteadyAt, Rid
<1>10. AccountedAt(f)'
  BY <1>4, <1>6, <1>8 DEF AccountedAt
<1>11. /\ \A p \in pending : p.f # f => p \in pending'
       /\ \A p \in pending' : p.f # f => p \in pending
       /\ \A p \in pending' : p \notin pending => p.rid >= next_rid
  BY <1>2, FibersAssumption DEF Rid
<1>12. next_rid <= next_rid'
  BY <1>2, FibersAssumption DEF Rid
<1>13. QED BY <1>1, <1>2, <1>3, <1>4, <1>6, <1>9, <1>10, <1>11, <1>12, FiberStep

-----------------------------------------------------------------------------
(* What taking the head of the batch leaves of the queues.                  *)
LEMMA TakeStep ==
  ASSUME IInv, batch # <<>>, NEW o, Take(batch[1], o), UNCHANGED <<inbox, next_rid>>
  PROVE  /\ QueuesIn(OldEvent)' /\ deferred' = deferred /\ due = {} /\ due' = {}
         /\ batch[1] \in OldEvent
<1>1. batch' = Tail(batch) /\ deferred' = deferred /\ due = {} /\ due' = due
  BY DEF Take, EventIs
<1>2. batch[1] \in OldEvent /\ Tail(batch) \in Seq(OldEvent)
  BY BatchHead DEF IInv
<1>3. QED BY <1>1, <1>2 DEF IInv, Shape, QueuesIn, OldEvent

LEMMA NewTyped ==
  ASSUME NEW n \in BOOLEAN
  PROVE  /\ New(n) \in FiberRec /\ New(n).st = "run" /\ New(n).wait = 0
         /\ New(n).out = 0 /\ New(n).rq = 0 /\ New(n).notify = n
<1>1. 0 \in Rid \cup {0} /\ 0 \in 0..MaxReq /\ 0 \in Nat
  BY FibersAssumption
<1>2. /\ Free \in FiberRec
      /\ Free.wait = 0 /\ Free.out = 0 /\ Free.rq = 0
  BY <1>1 DEF Free, FiberRec
<1>3. New(n) \in FiberRec
  BY <1>2 DEF New, FiberRec
<1>4. /\ New(n).st = "run" /\ New(n).wait = 0 /\ New(n).out = 0 /\ New(n).rq = 0
      /\ New(n).notify = n
  BY <1>2 DEF New, FiberRec
<1>5. QED BY <1>3, <1>4

(* A fiber that is started past a lock is one for a notification.           *)
LEMMA StartFiberStep ==
  ASSUME IInv, NEW f \in Fibers, batch # <<>>, StartFiber(batch[1], f)
  PROVE  IInv'
<1> DEFINE e == batch[1]
           notify == e.type = "NOTIFY"
<1>1. /\ current = NoFiber /\ Take(e, NoFiber) /\ e.type # "REPLY" /\ fib[f].st = "free"
      /\ fib' = [fib EXCEPT ![f] = New(notify)] /\ current' = f
      /\ UNCHANGED <<inbox, locked_by, pending, next_rid, open>>
  BY DEF StartFiber, Scheduling
<1>2. QueuesIn(OldEvent)' /\ deferred' = deferred /\ due = {} /\ due' = {}
  BY <1>1, TakeStep
<1>3. notify \/ locked_by = NoFiber
  BY <1>1 DEF Take, Deferrable
<1>4. notify \in BOOLEAN
  OBVIOUS
<1> HIDE DEF notify, e
<1>5. /\ New(notify) \in FiberRec /\ New(notify).st = "run" /\ New(notify).wait = 0
      /\ New(notify).out = 0 /\ New(notify).rq = 0 /\ New(notify).notify = notify
  BY <1>4, NewTyped
<1>6. /\ fib' \in [Fibers -> FiberRec] /\ \A g \in Fibers \ {f} : fib'[g] = fib[g]
      /\ fib'[f] = New(notify)
  BY <1>1, <1>5 DEF IInv, Shape
<1>7. \A p \in pending : p.f # f
  BY <1>1 DEF IInv, AccountedAt, Waits
<1>8. next_rid \in Nat \ {0}
  BY FibersAssumption DEF IInv, Shape
<1>9. SteadyAt(f)'
  BY <1>1, <1>3, <1>5, <1>6, <1>8 DEF SteadyAt
<1>10. AccountedAt(f)'
  <2>1. AwaitedOf(f)' = {}
    BY <1>1, <1>7 DEF AwaitedOf
  <2>2. Cardinality(AwaitedOf(f)') = 0
    BY <2>1, FS_EmptySet
  <2>3. QED BY <1>1, <1>5, <1>6, <1>7, <2>2 DEF AccountedAt
<1>11. /\ Numbered' /\ next_rid' \in 1..(MaxReq + 1) /\ next_rid <= next_rid'
       /\ open' \subseteq Rid /\ pending' \subseteq [rid : Rid, f : Fibers]
  BY <1>1, <1>8 DEF IInv, Shape, Numbered
<1>12. QED BY <1>1, <1>2, <1>5, <1>6, <1>9, <1>10, <1>11, FiberStep

(* An entry that leaves the table takes nobody else's with it.              *)
LEMMA Forgotten ==
  ASSUME IInv, NEW f, NEW r, [rid |-> r, f |-> f] \in pending,
         pending' = {p \in pending : p.rid # r}, UNCHANGED <<next_rid, open>>
  PROVE  /\ Numbered' /\ next_rid' \in 1..(MaxReq + 1) /\ next_rid <= next_rid'
         /\ open' \subseteq Rid /\ pending' \subseteq [rid : Rid, f : Fibers]
         /\ pending' = pending \ {[rid |-> r, f |-> f]}
<1>1. pending' = pending \ {[rid |-> r, f |-> f]}
  BY DEF IInv, Numbered
<1>2. IsFiniteSet(pending')
  BY FS_Subset DEF IInv, Numbered
<1>3. Numbered'
  BY <1>2 DEF IInv, Numbered
<1>4. QED BY <1>1, <1>3, FibersAssumption DEF IInv, Shape

LEMMA ResumedIs ==
  ASSUME IInv, NEW f \in Fibers
  PROVE  /\ Resumed(f) \in [Fibers -> FiberRec]
         /\ \A g \in Fibers \ {f} : Resumed(f)[g] = fib[g]
         /\ Resumed(f)[f] = [fib[f] EXCEPT !.st = "run", !.wait = 0]
         /\ Resumed(f)[f].st = "run" /\ Resumed(f)[f].wait = 0
         /\ Resumed(f)[f].out = fib[f].out /\ Resumed(f)[f].rq = fib[f].rq
         /\ Resumed(f)[f].fresh = fib[f].fresh
<1> DEFINE r == [fib[f] EXCEPT !.st = "run", !.wait = 0]
<1>1. fib \in [Fibers -> FiberRec] /\ fib[f] \in FiberRec
  BY DEF IInv, Shape
<1>2. /\ r \in FiberRec /\ r.st = "run" /\ r.wait = 0
      /\ r.out = fib[f].out /\ r.rq = fib[f].rq /\ r.fresh = fib[f].fresh
  BY <1>1 DEF FiberRec
<1>3. Resumed(f) = [fib EXCEPT ![f] = r]
  BY <1>1 DEF Resumed
<1> HIDE DEF r
<1>4. QED BY <1>1, <1>2, <1>3 DEF r

(* The facts about a fiber that waits.                                      *)
LEMMA Waiting ==
  ASSUME IInv, NEW f \in Fibers, fib[f].st # "free"
  PROVE  /\ fib[f] \in FiberRec /\ f # NoFiber /\ f \in Live
         /\ fib[f].out \in Nat /\ fib[f].rq \in Nat /\ next_rid \in Nat \ {0}
         /\ IsFiniteSet(AwaitedOf(f)) /\ Cardinality(AwaitedOf(f)) \in Nat
         /\ fib[f].out = Cardinality(AwaitedOf(f)) + fib[f].rq
         /\ fib[f].out < next_rid
         /\ current # f => ~fib[f].fresh
<1>1. fib[f] \in FiberRec /\ f \in Live /\ f # NoFiber /\ next_rid \in Nat \ {0}
  BY FibersAssumption DEF IInv, Shape, Live
<1>2. SteadyAt(f) /\ AccountedAt(f)
  BY DEF IInv
<1>3. IsFiniteSet(AwaitedOf(f)) /\ Cardinality(AwaitedOf(f)) \in Nat
  BY FS_Subset, FS_CardinalityType DEF IInv, Numbered, AwaitedOf
<1>4. QED BY <1>1, <1>2, <1>3, FibersAssumption DEF SteadyAt, AccountedAt, FiberRec

LEMMA TimerFiresStep ==
  ASSUME IInv, NEW f \in Fibers, TimerFires(f)
  PROVE  IInv'
<1>1. /\ current = NoFiber /\ f \in due /\ due' = due \ {f} /\ fib' = Resumed(f) /\ current' = f
      /\ UNCHANGED <<inbox, batch, deferred, locked_by, next_rid, open>>
      /\ pending' = IF fib[f].st = "reply_or_timer"
                    THEN {p \in pending : p.rid # fib[f].wait} ELSE pending
  BY DEF TimerFires, ResumeTimer, Scheduling
<1>2. fib[f].st \in {"timer", "reply_or_timer"}
  BY <1>1 DEF IInv, OneRuns, HasTimer
<1>3. /\ fib[f] \in FiberRec /\ f # NoFiber /\ f \in Live
      /\ fib[f].out \in Nat /\ next_rid \in Nat \ {0}
      /\ fib[f].out = Cardinality(AwaitedOf(f)) + fib[f].rq
      /\ fib[f].out < next_rid /\ ~fib[f].fresh
  BY <1>1, <1>2, Waiting
<1>4. /\ fib' \in [Fibers -> FiberRec] /\ \A g \in Fibers \ {f} : fib'[g] = fib[g]
      /\ fib'[f].st = "run" /\ fib'[f].wait = 0
      /\ fib'[f].out = fib[f].out /\ fib'[f].rq = fib[f].rq /\ fib'[f].fresh = fib[f].fresh
  BY <1>1, ResumedIs
<1>5. SteadyAt(f) /\ AccountedAt(f)
  BY DEF IInv
<1>6. \A p \in pending : p.rid # 0
  BY FibersAssumption DEF IInv, Shape, Rid
<1>7. /\ Numbered' /\ next_rid' \in 1..(MaxReq + 1) /\ next_rid <= next_rid'
      /\ open' \subseteq Rid /\ pending' \subseteq [rid : Rid, f : Fibers]
      /\ \A p \in pending : p.f # f => p \in pending'
      /\ pending' \subseteq pending
      /\ AwaitedOf(f)' = AwaitedOf(f)
  <2>1. CASE fib[f].st = "timer"
    <3>1. pending' = pending /\ fib[f].wait = 0
      BY <1>1, <1>5, <2>1 DEF SteadyAt
    <3>2. AwaitedOf(f)' = AwaitedOf(f)
      BY <1>4, <3>1 DEF AwaitedOf
    <3>3. QED BY <1>1, <1>3, <3>1, <3>2 DEF IInv, Shape, Numbered
  <2>2. CASE fib[f].st = "reply_or_timer"
    <3>1. pending' = {p \in pending : p.rid # fib[f].wait} /\ [rid |-> fib[f].wait, f |-> f] \in pending
      BY <1>1, <1>3, <1>5, <2>2 DEF AccountedAt
    <3>2. /\ Numbered' /\ next_rid' \in 1..(MaxReq + 1) /\ next_rid <= next_rid'
          /\ open' \subseteq Rid /\ pending' \subseteq [rid : Rid, f : Fibers]
          /\ pending' = pending \ {[rid |-> fib[f].wait, f |-> f]}
      BY <1>1, <3>1, Forgotten
    <3>3. AwaitedOf(f)' = AwaitedOf(f)
      BY <1>4, <1>6, <3>1 DEF AwaitedOf
    <3>4. QED BY <3>1, <3>2, <3>3
  <2>3. QED BY <1>2, <2>1, <2>2
<1>8. SteadyAt(f)' /\ AccountedAt(f)'
  BY <1>1, <1>3, <1>4, <1>7 DEF SteadyAt, AccountedAt
<1>9. QueuesIn(OldEvent)'
  BY <1>1 DEF IInv, Shape, QueuesIn, OldEvent
<1>10. QED BY <1>1, <1>4, <1>7, <1>8, <1>9, FiberStep

(* A reply belongs to the fiber the table names.                            *)
LEMMA OwnerListed ==
  ASSUME IInv, NEW f \in Fibers, NEW e, e.type = "REPLY", Owner(e) = f
  PROVE  [rid |-> e.rid, f |-> f] \in pending
<1>1. f # NoFiber
  BY FibersAssumption
<1>2. PICK p \in pending : p.rid = e.rid /\ p.f = f
  BY <1>1 DEF Owner
<1>3. p = [rid |-> p.rid, f |-> p.f]
  BY DEF IInv, Shape
<1>4. QED BY <1>2, <1>3

LEMMA HandleReplyStep ==
  ASSUME IInv, NEW f \in Fibers, batch # <<>>, HandleReply(batch[1], f)
  PROVE  IInv'
<1> DEFINE e == batch[1]
           x == [rid |-> e.rid, f |-> f]
<1>1. /\ current = NoFiber /\ Take(e, f) /\ e.type = "REPLY" /\ Owner(e) = f
      /\ pending' = {p \in pending : p.rid # e.rid}
      /\ UNCHANGED <<inbox, locked_by, next_rid, open>>
  BY DEF HandleReply, Scheduling
<1>2. QueuesIn(OldEvent)' /\ deferred' = deferred /\ due = {} /\ due' = {}
  BY <1>1, TakeStep
<1>3. x \in pending
  BY <1>1, OwnerListed
<1>4. /\ Numbered' /\ next_rid' \in 1..(MaxReq + 1) /\ next_rid <= next_rid'
      /\ open' \subseteq Rid /\ pending' \subseteq [rid : Rid, f : Fibers]
      /\ pending' = pending \ {x}
  BY <1>1, <1>3, Forgotten
<1>5. SteadyAt(f) /\ AccountedAt(f)
  BY DEF IInv
<1>6. fib[f].st \in Waits \cup {"run"} /\ fib[f].st # "free"
  BY <1>3, <1>5 DEF AccountedAt, Waits
<1>7. /\ fib[f] \in FiberRec /\ f # NoFiber /\ f \in Live
      /\ fib[f].out \in Nat /\ fib[f].rq \in Nat /\ next_rid \in Nat \ {0}
      /\ IsFiniteSet(AwaitedOf(f)) /\ Cardinality(AwaitedOf(f)) \in Nat
      /\ fib[f].out = Cardinality(AwaitedOf(f)) + fib[f].rq
      /\ fib[f].out < next_rid /\ ~fib[f].fresh
  BY <1>1, <1>6, Waiting
<1>8. e.rid # 0 /\ \A p \in pending : p.rid # 0
  BY <1>3, FibersAssumption DEF IInv, Shape, Rid
<1>9. fib[f].wait # e.rid => x \in AwaitedOf(f)
  BY <1>3 DEF AwaitedOf
<1>10. Cardinality(AwaitedOf(f) \ {x}) =
         IF x \in AwaitedOf(f) THEN Cardinality(AwaitedOf(f)) - 1 ELSE Cardinality(AwaitedOf(f))
  BY <1>7, FS_RemoveElement
<1> HIDE DEF e
<1>11. CASE Wakes(f, e.rid)
  <2> DEFINE out == IF fib[f].st = "any" THEN fib[f].out - 1 ELSE fib[f].out
  <2>1. fib' = [Resumed(f) EXCEPT ![f].out = IF fib[f].st = "any" THEN @ - 1 ELSE @] /\ current' = f
    BY <1>11 DEF HandleReply, e
  <2>2. /\ Resumed(f) \in [Fibers -> FiberRec] /\ \A g \in Fibers \ {f} : Resumed(f)[g] = fib[g]
        /\ Resumed(f)[f].st = "run" /\ Resumed(f)[f].wait = 0
        /\ Resumed(f)[f].out = fib[f].out /\ Resumed(f)[f].rq = fib[f].rq
        /\ Resumed(f)[f].fresh = fib[f].fresh
    BY ResumedIs
  <2>3. fib[f].st = "any" => fib[f].out > 0
    BY <1>5, <1>7 DEF AccountedAt
  <2>4. out \in 0..MaxReq /\ out \in Nat /\ out <= fib[f].out
    BY <1>7, <2>3, FibersAssumption DEF FiberRec
  <2>5. /\ fib' \in [Fibers -> FiberRec] /\ \A g \in Fibers \ {f} : fib'[g] = fib[g]
        /\ fib'[f].st = "run" /\ fib'[f].wait = 0 /\ fib'[f].fresh = FALSE
        /\ fib'[f].out = out /\ fib'[f].rq = fib[f].rq
    <3> DEFINE r == [Resumed(f)[f] EXCEPT !.out = out]
    <3>0. Resumed(f)[f] \in FiberRec
      BY <2>2
    <3>1. r \in FiberRec /\ r.st = "run" /\ r.wait = 0 /\ r.out = out /\ r.rq = fib[f].rq /\ r.fresh = FALSE
      BY <1>7, <2>2, <2>4, <3>0 DEF FiberRec
    <3>2. fib' = [Resumed(f) EXCEPT ![f] = r]
      BY <2>1, <2>2
    <3> HIDE DEF r, out
    <3>3. QED BY <2>2, <3>1, <3>2
  <2>6. AwaitedOf(f)' = AwaitedOf(f) \ {x}
    <3>1. fib[f].wait \in {0, e.rid}
      BY <1>5, <1>11, <1>6 DEF SteadyAt, Wakes
    <3>2. \A p \in pending : p.rid = e.rid => p = x
      BY <1>3 DEF IInv, Numbered
    <3>3. QED BY <1>4, <1>8, <2>5, <3>1, <3>2 DEF AwaitedOf
  <2>7. fib[f].st # "any" => x \notin AwaitedOf(f)
    BY <1>11 DEF Wakes, AwaitedOf
  <2>8. fib[f].st = "any" => x \in AwaitedOf(f)
    BY <1>5, <1>8, <1>9 DEF SteadyAt
  <2>9. out = Cardinality(AwaitedOf(f)') + fib[f].rq
    BY <1>7, <1>10, <2>6, <2>7, <2>8
  <2> HIDE DEF out
  <2>10. SteadyAt(f)'
    BY <1>1, <1>7, <2>4, <2>5 DEF SteadyAt
  <2>11. AccountedAt(f)'
    BY <2>5, <2>9 DEF AccountedAt
  <2>12. /\ \A p \in pending : p.f # f => p \in pending'
         /\ pending' \subseteq pending
    BY <1>4
  <2>13. QED BY <1>1, <1>2, <1>4, <2>1, <2>5, <2>10, <2>11, <2>12, FiberStep
<1>12. CASE ~Wakes(f, e.rid)
  <2>1. fib' = [fib EXCEPT ![f].rq = @ + 1] /\ current' = current
    BY <1>12 DEF HandleReply, e
  <2>2. /\ fib' \in [Fibers -> FiberRec] /\ \A g \in Fibers \ {f} : fib'[g] = fib[g]
        /\ fib'[f].st = fib[f].st /\ fib'[f].wait = fib[f].wait /\ fib'[f].fresh = FALSE
        /\ fib'[f].out = fib[f].out /\ fib'[f].rq = fib[f].rq + 1
    <3> DEFINE r == [fib[f] EXCEPT !.rq = @ + 1]
    <3>1. /\ r \in FiberRec /\ r.st = fib[f].st /\ r.wait = fib[f].wait /\ r.fresh = FALSE
          /\ r.out = fib[f].out /\ r.rq = fib[f].rq + 1
      BY <1>7 DEF FiberRec
    <3>2. fib \in [Fibers -> FiberRec]
      BY DEF IInv, Shape
    <3>3. fib' = [fib EXCEPT ![f] = r]
      BY <2>1, <3>2
    <3> HIDE DEF r
    <3>4. QED BY <3>1, <3>2, <3>3
  <2>3. fib[f].wait # e.rid
    BY <1>5, <1>8, <1>12 DEF SteadyAt, Wakes
  <2>4. AwaitedOf(f)' = AwaitedOf(f) \ {x}
    BY <1>4, <2>2 DEF AwaitedOf
  <2>5. fib'[f].out = Cardinality(AwaitedOf(f)') + fib'[f].rq
    BY <1>7, <1>9, <1>10, <2>2, <2>3, <2>4
  <2>6. SteadyAt(f)'
    BY <1>1, <1>5, <1>6, <1>7, <2>2 DEF SteadyAt, Waits
  <2>7. fib[f].st \in {"reply", "reply_or_timer"} => [rid |-> fib[f].wait, f |-> f] \in pending'
    BY <1>4, <1>5, <1>7, <2>3 DEF AccountedAt
  <2>8. AccountedAt(f)'
    BY <1>5, <1>6, <1>7, <2>2, <2>5, <2>7 DEF AccountedAt
  <2>9. /\ \A p \in pending : p.f # f => p \in pending'
        /\ pending' \subseteq pending
    BY <1>4
  <2>10. current' = NoFiber
    BY <1>1, <2>1
  <2>11. QED BY <1>1, <1>2, <1>4, <1>7, <2>2, <2>6, <2>8, <2>9, <2>10, FiberStep
<1>13. QED BY <1>11, <1>12

-----------------------------------------------------------------------------
LEMMA InitIInv == Init => IInv
<1>1. SUFFICES ASSUME Init PROVE IInv
  OBVIOUS
<1>2. Shape
  <2>1. <<>> \in Seq(OldEvent)
    BY EmptySeq
  <2>2. 0 \in Rid \cup {0} /\ 0 \in 0..MaxReq /\ 0 \in Nat /\ 1 \in 1..(MaxReq + 1)
    BY FibersAssumption
  <2>3. Free \in FiberRec
    BY <2>2 DEF Free, FiberRec
  <2>4. QED BY <1>1, <2>1, <2>2, <2>3 DEF Init, CoseqInit, Shape, QueuesIn
<1>3. Numbered
  BY <1>1, FS_EmptySet DEF Init, Numbered
<1>4. OneRuns /\ HolderNotStuck
  BY <1>1 DEF Init, CoseqInit, OneRuns, HolderNotStuck
<1>5. ASSUME NEW f \in Fibers PROVE SteadyAt(f) /\ AccountedAt(f)
  BY <1>1 DEF Init, Free, SteadyAt, AccountedAt, Live
<1>6. QED BY <1>2, <1>3, <1>4, <1>5 DEF IInv

LEMMA SchedulerStep == ASSUME IInv, Scheduler PROVE IInv'
<1>1. ASSUME NEW f \in Fibers, ReapDone(f) \/ TimerFires(f) \/ TimerSkipped(f) PROVE IInv'
  BY <1>1, ReapStep, TimerFiresStep, TimerSkippedStep
<1>2. ASSUME NEW f \in Fibers, batch # <<>>, StartFiber(batch[1], f) \/ HandleReply(batch[1], f)
      PROVE IInv'
  BY <1>2, StartFiberStep, HandleReplyStep
<1>3. ASSUME NEW expired \in SUBSET HasTimer, Turn(expired) PROVE IInv'
  BY <1>3, TurnStep
<1>4. QED BY <1>1, <1>2, <1>3, DeferStep, DropStep DEF Scheduler

LEMMA SequenceStep == ASSUME IInv, NEW f \in Fibers, Sequence(f) PROVE IInv'
<1>1. ASSUME NEW with_timeout \in BOOLEAN, Request(f, with_timeout) PROVE IInv'
  BY <1>1, RequestStep
<1>2. QED BY <1>1, RequestAsyncStep, WaitReplyStep, WaitTimeoutStep, LockStep, UnlockStep,
             ReturnStep DEF Sequence

LEMMA StutterStep == ASSUME IInv, UNCHANGED vars PROVE IInv'
<1>1. /\ QueuesIn(OldEvent)' /\ open' \subseteq open /\ due' \subseteq HasTimer
      /\ \A i \in DOMAIN deferred' : locked_by # NoFiber => Owner(deferred'[i]) # locked_by
  BY DEF vars, IInv, Shape, QueuesIn, OldEvent, OneRuns, HolderNotStuck
<1>2. QED BY <1>1, QueueStep DEF vars

LEMMA NextIInv == IInv /\ [Next]_vars => IInv'
BY SchedulerStep, SequenceStep, OthersStep, StutterStep DEF Next

(* The strengthening holds in every state a module can be in.               *)
THEOREM Inductive == Spec => []IInv
BY InitIInv, NextIInv, PTL DEF Spec

(* The state of a coseq module keeps its type: the counts of outstanding    *)
(* replies never leave their range.                                         *)
THEOREM TypeCorrect == Spec => []TypeOK
<1>1. IInv => TypeOK
  BY ShapeIsType DEF IInv
<1>2. QED BY <1>1, Inductive, PTL

(* pending_peek and reap_done: no entry of the table of awaited replies     *)
(* points to a fiber that has ended, a waiting fiber is registered, and the *)
(* count of replies a sequence has yet to collect is exact.                 *)
THEOREM RepliesFindTheirFibers == Spec => []PendingIsSound
<1>1. IInv => PendingIsSound
  <2>1. SUFFICES ASSUME IInv PROVE PendingIsSound
    OBVIOUS
  <2>2. ASSUME NEW p \in pending PROVE fib[p.f].st \in Waits \cup {"run"}
    <3>1. p.f \in Fibers
      BY <2>1 DEF IInv, Shape
    <3>2. QED BY <2>1, <3>1 DEF IInv, AccountedAt
  <2>3. ASSUME NEW f \in Live
        PROVE  /\ fib[f].out = Cardinality(AwaitedOf(f)) + fib[f].rq
               /\ fib[f].st \in {"reply", "reply_or_timer"} =>
                    [rid |-> fib[f].wait, f |-> f] \in pending
               /\ fib[f].st = "any" => fib[f].out > 0
    BY <2>1 DEF IInv, AccountedAt, Live
  <2>4. QED BY <2>2, <2>3 DEF PendingIsSound, PendingOwnerLives, RepliesAccounted
<1>2. QED BY <1>1, Inductive, PTL

-----------------------------------------------------------------------------
(* What one step may do while a fiber holds the lock.                       *)
Excludes ==
  locked_by # NoFiber =>
    /\ current = NoFiber /\ current' # NoFiber =>
         current' = locked_by \/ fib'[current'].notify
    /\ locked_by' \in {locked_by, NoFiber}

LEMMA SchedulerExcludes == ASSUME IInv, Scheduler PROVE Excludes
<1>1. ASSUME NEW expired \in SUBSET HasTimer, Turn(expired) PROVE Excludes
  BY <1>1 DEF Turn, BeginTurn, Excludes
<1>2. ASSUME NEW f \in Fibers, ReapDone(f) PROVE Excludes
  BY <1>2 DEF ReapDone, Released, Excludes
<1>3. ASSUME NEW f \in Fibers, TimerFires(f) PROVE Excludes
  BY <1>3 DEF TimerFires, ResumeTimer, MayResume, Excludes
<1>4. ASSUME NEW f \in Fibers, TimerSkipped(f) PROVE Excludes
  BY <1>4, FibersAssumption DEF TimerSkipped, SkipTimer, Scheduling, Excludes
<1>5. ASSUME DeferEvent PROVE Excludes
  BY <1>5 DEF DeferEvent, Defer, Excludes
<1>6. ASSUME NEW f \in Fibers, batch # <<>>, StartFiber(batch[1], f) PROVE Excludes
  <2>1. /\ Take(batch[1], NoFiber) /\ batch[1].type # "REPLY" /\ locked_by' = locked_by
        /\ fib' = [fib EXCEPT ![f] = New(batch[1].type = "NOTIFY")] /\ current' = f
    BY <1>6 DEF StartFiber
  <2>2. CASE locked_by = NoFiber
    BY <2>2 DEF Excludes
  <2>3. CASE locked_by # NoFiber
    <3>1. batch[1].type = "NOTIFY"
      BY <2>1, <2>3 DEF Take, Deferrable
    <3>2. New(TRUE).notify = TRUE
      BY NewTyped
    <3>3. fib'[f] = New(TRUE)
      BY <2>1, <3>1 DEF IInv, Shape
    <3>4. QED BY <2>1, <3>2, <3>3 DEF Excludes
  <2>4. QED BY <2>2, <2>3
<1>7. ASSUME NEW f \in Fibers, batch # <<>>, HandleReply(batch[1], f) PROVE Excludes
  <2>1. /\ Take(batch[1], f) /\ batch[1].type = "REPLY" /\ locked_by' = locked_by
        /\ current' \in {f, current}
    BY <1>7 DEF HandleReply
  <2>2. locked_by # NoFiber => f = locked_by
    BY <2>1 DEF Take, Deferrable
  <2>3. QED BY <2>1, <2>2 DEF Excludes
<1>8. ASSUME DropReply(batch[1]) PROVE Excludes
  BY <1>8 DEF DropReply, Excludes
<1>9. QED BY <1>1, <1>2, <1>3, <1>4, <1>5, <1>6, <1>7, <1>8 DEF Scheduler

LEMMA NextExcludes == ASSUME IInv, [Next]_vars PROVE Excludes
<1>1. ASSUME NEW f \in Fibers, Sequence(f) PROVE Excludes
  <2>1. current = f /\ f # NoFiber
    BY <1>1, FibersAssumption DEF Sequence, Request, RequestAsync, WaitReply, WaitTimeout, Lock, Unlock, Return
  <2>2. CASE Lock(f)
    <3>1. locked_by = NoFiber
      BY <2>2 DEF Lock, IInv, SteadyAt
    <3>2. QED BY <3>1 DEF Excludes
  <2>3. CASE Unlock(f)
    BY <2>1, <2>3 DEF Unlock, Released, Excludes
  <2>4. CASE ~Lock(f) /\ ~Unlock(f)
    <3>1. locked_by' = locked_by
      BY <1>1, <2>4 DEF Sequence, Request, RequestAsync, WaitReply, WaitTimeout, Return, Issue
    <3>2. QED BY <2>1, <3>1 DEF Excludes
  <2>5. QED BY <2>2, <2>3, <2>4
<1>2. ASSUME Others PROVE Excludes
  BY <1>2 DEF Others, PostStart, PostNotify, PeerReplies, Excludes
<1>3. ASSUME UNCHANGED vars PROVE Excludes
  BY <1>3 DEF vars, Excludes
<1>4. QED BY <1>1, <1>2, <1>3, SchedulerExcludes DEF Next

(* The lock of a module, in sched_loop: while a fiber holds it the thread   *)
(* goes only to that fiber and to those of notifications, nobody else takes *)
(* it, and the reply the holder waits for is never set aside.               *)
THEOREM LockHolds == Spec => LockIsSound
<1>1. IInv => HolderNotStuck
  BY DEF IInv
<1>2. Spec => []HolderNotStuck
  BY <1>1, Inductive, PTL
<1>3. IInv /\ [Next]_vars => Excludes
  BY NextExcludes
<1>4. Spec => [][Excludes]_vars
  BY <1>3, Inductive, PTL DEF Spec
<1>5. LockExcludes <=> [][Excludes]_vars
  BY PTL DEF LockExcludes, Excludes
<1>6. QED BY <1>2, <1>4, <1>5, PTL DEF LockIsSound

-----------------------------------------------------------------------------
(* The mailbox.                                                             *)
OneCaller == \A s, t \in Callers : s = t

(* Ids already handed out are below ext_id, so a new call's id is nobody    *)
(* else's.                                                                  *)
IdsUsed ==
  /\ \A r \in unanswered : r < ext_id
  /\ \A t \in Callers : rid[t] < ext_id

(* The mailbox accepts exactly the reply the caller is in a call for, and   *)
(* holds it, or some module still has to send it.                           *)
MailboxFollowsCall ==
  \A t \in Callers :
    /\ pc[t] = "idle" => ext_wait_rid = NoReq
    /\ pc[t] # "idle" => ext_wait_rid = rid[t] /\ rid[t] \in ReqId
    /\ pc[t] = "blocked" => ~ext_ready
    /\ pc[t] # "idle" /\ ~ext_ready => rid[t] \in unanswered
    /\ pc[t] = "woken" /\ ext_ready => ext_result = rid[t]

MailboxInv == MailboxTypeOK /\ IdsUsed /\ MailboxFollowsCall /\ ReplyIsOwn

LEMMA MailboxBegins == MailboxInit => MailboxInv
<1> SUFFICES ASSUME MailboxInit PROVE MailboxInv
  OBVIOUS
<1>1. MailboxTypeOK
  <2>1. ext_id \in 1..(MaxId + 1)
    BY MaxIdAssumption DEF MailboxInit
  <2>2. returned \in [Callers -> [req : Req, reply : Req]]
    BY DEF MailboxInit, Req
  <2>3. QED BY <2>1, <2>2 DEF MailboxTypeOK, MailboxInit, Req, ReqId
<1>2. IdsUsed /\ MailboxFollowsCall
  BY DEF MailboxInit, IdsUsed, MailboxFollowsCall, NoReq
<1>3. ReplyIsOwn
  <2> SUFFICES ASSUME NEW t \in Callers PROVE returned[t].req = returned[t].reply
    BY DEF ReplyIsOwn
  <2> QED BY DEF MailboxInit
<1>4. QED BY <1>1, <1>2, <1>3 DEF MailboxInv

LEMMA MailboxGoesOn ==
  ASSUME OneCaller, MailboxInv, [MailboxNext]_mailbox
  PROVE  MailboxInv'
<1> USE DEF MailboxInv, MailboxTypeOK, Req, ReqId, NoReq
<1>1. ASSUME NEW t \in Callers, RequestSync(t) PROVE MailboxInv'
  <2>1. ext_id \in ReqId /\ ext_id' = ext_id + 1
    BY <1>1, MaxIdAssumption DEF RequestSync
  <2>2. MailboxTypeOK'
    <3>1. ext_id' \in 1..(MaxId + 1)
      BY <1>1, <2>1, MaxIdAssumption DEF RequestSync
    <3>2. (rid \in [Callers -> Req] /\ ext_wait_rid \in Req /\ unanswered \subseteq ReqId)'
      BY <1>1, <2>1 DEF RequestSync
    <3>3. (pc \in [Callers -> {"idle", "blocked", "woken"}])'
      BY <1>1 DEF RequestSync
    <3>4. QED BY <1>1, <3>1, <3>2, <3>3 DEF RequestSync
  <2>3. IdsUsed'
    BY <1>1, <2>1 DEF RequestSync, IdsUsed
  <2>4. MailboxFollowsCall'
    BY <1>1, <2>1 DEF OneCaller, RequestSync, MailboxFollowsCall
  <2>5. QED BY <1>1, <2>2, <2>3, <2>4 DEF RequestSync, ReplyIsOwn
<1>2. CASE \E t \in Callers : SpuriousWakeup(t)
  BY <1>2 DEF OneCaller, SpuriousWakeup, IdsUsed, MailboxFollowsCall, ReplyIsOwn
<1>3. CASE \E t \in Callers : WaitAgain(t)
  BY <1>3 DEF OneCaller, WaitAgain, IdsUsed, MailboxFollowsCall, ReplyIsOwn
<1>4. CASE \E t \in Callers : Returns(t)
  BY <1>4 DEF OneCaller, Returns, IdsUsed, MailboxFollowsCall, ReplyIsOwn
<1>5. CASE ExtRequestAsync
  BY <1>5, MaxIdAssumption DEF ExtRequestAsync, IdsUsed, MailboxFollowsCall, ReplyIsOwn
<1>6. ASSUME NEW r \in ReqId, ExtDeliver(r) PROVE MailboxInv'
  <2>1. CASE r = ext_wait_rid
    BY <1>6, <2>1 DEF OneCaller, ExtDeliver, IdsUsed, MailboxFollowsCall, ReplyIsOwn
  <2>2. CASE r # ext_wait_rid
    BY <1>6, <2>2 DEF ExtDeliver, IdsUsed, MailboxFollowsCall, ReplyIsOwn
  <2>3. QED BY <2>1, <2>2
<1>7. CASE UNCHANGED mailbox
  BY <1>7 DEF mailbox, IdsUsed, MailboxFollowsCall, ReplyIsOwn
<1>8. QED BY <1>1, <1>2, <1>3, <1>4, <1>5, <1>6, <1>7 DEF MailboxNext

(* With one external caller, _request_sync returns the reply to the request *)
(* it posted (coseq.c labels the result with the caller's own req_id).      *)
THEOREM OneCallerGetsItsReply ==
  ASSUME OneCaller
  PROVE  MailboxSpec => []ReplyIsOwn
<1>1. MailboxInv /\ [MailboxNext]_mailbox => MailboxInv'
  BY MailboxGoesOn
<1>2. MailboxInv => ReplyIsOwn
  BY DEF MailboxInv
<1>3. QED BY MailboxBegins, <1>1, <1>2, PTL DEF MailboxSpec

(* With one external caller no wakeup of ext_cond is lost: while the thread *)
(* sleeps its request is the expected one and is still to be answered.      *)
THEOREM OneCallerIsExpected ==
  ASSUME OneCaller
  PROVE  MailboxSpec => []BlockedIsExpected
<1>1. MailboxInv /\ [MailboxNext]_mailbox => MailboxInv'
  BY MailboxGoesOn
<1>2. MailboxInv => BlockedIsExpected
  BY DEF MailboxInv, MailboxFollowsCall, BlockedIsExpected, MailboxTypeOK
<1>3. QED BY MailboxBegins, <1>1, <1>2, PTL DEF MailboxSpec

-----------------------------------------------------------------------------
(* The console.  What lies between two delimiters is a line; k lines of the *)
(* session have been obeyed, and rest is what is still to be cut.           *)
Text == Seq(Symbols \cup {"garbage"})

ConsoleType ==
  /\ at \in {"accept", "recv", "parse", "find", "call", "ended"}
  /\ unsent \in Seq(Symbols) /\ socket \in Seq(Symbols)
  /\ read \in Text /\ buf \in Text /\ save \in Text
  /\ gone \in BOOLEAN /\ carried \in BOOLEAN /\ fresh \in BOOLEAN /\ spoiled \in BOOLEAN

Place == [table |-> table, stack |-> stack, obeyed |-> obeyed]
Kept  == IF carried THEN buf ELSE <<>>

Lines(s)   == Cardinality(Delims(s))
End(s, k)  == IF k = 0 THEN 0 ELSE Nth(Delims(s), k) + 1
Unread(s, k) == SubSeq(s, End(s, k) + 1, Len(s))

Parsed(k, rest) ==
  Place = Obeyed(read)[k] /\ rest = Unread(read, k) /\ Len(rest) < BuffSize

Outside   == at \in {"accept", "ended"} =>
               read = <<>> /\ obeyed = <<>> /\ stack = <<>> /\ ~carried /\ ~spoiled
Receiving == at = "recv" => \E k \in 0..Lines(read) : Parsed(k, Kept) /\ Delims(Kept) = {}
Parsing   == /\ at \in {"parse", "call"} => \E k \in 0..Lines(read) : Parsed(k, save)
             /\ at = "parse" /\ fresh => buf = save
             /\ at \in {"find", "call"} => ~fresh
Finding   == at = "find" => \E k \in 1..Lines(read) :
               /\ Place = Obeyed(read)[k - 1] /\ words = Words(LineOf(read, k))
               /\ save = Unread(read, k) /\ Len(save) < BuffSize

Sound      == Outside /\ (~spoiled => Receiving /\ Parsing /\ Finding)
ConsoleInv == ConsoleType /\ Sound

-----------------------------------------------------------------------------
(* Numbers.                                                                 *)
LEMMA Least0 ==
  ASSUME NEW T \in SUBSET Nat, T # {}
  PROVE  \E n \in T : \A m \in T : n <= m
<1> DEFINE R == {ss \in Nat \X Nat : ss[1] < ss[2]}
<1>1. IsWellFoundedOn(R, Nat)
  BY NatLessThanWellFounded DEF OpToRel
<1>2. ASSUME NEW x \in Nat, NEW y \in Nat, y < x
      PROVE  <<y, x>> \in R
  BY <1>2
<1> HIDE DEF R
<1>3. PICK x \in T : \A y \in T : ~(<<y, x>> \in R)
  BY <1>1, WFMin
<1>4. ASSUME NEW y \in T PROVE x <= y
  <2>1. x \in Nat /\ y \in Nat /\ ~(y < x)
    BY <1>2, <1>3
  <2>2. QED BY <2>1
<1>5. QED BY <1>4

LEMMA Induct ==
  ASSUME NEW T \in SUBSET Nat, 0 \in T, \A n \in T : n + 1 \in T
  PROVE  T = Nat
<1>1. SUFFICES ASSUME Nat \ T # {} PROVE FALSE
  OBVIOUS
<1>2. PICK n \in Nat \ T : \A m \in Nat \ T : n <= m
  BY <1>1, Least0
<1>3. n # 0 /\ n - 1 \in Nat /\ n - 1 \in T
  BY <1>2
<1>4. QED BY <1>2, <1>3

-----------------------------------------------------------------------------
(* The n-th element of a set of positions: Rank is the n of an element.     *)
Rank(S, i)    == Cardinality({j \in S : j <= i})
Shifted(S, h) == {j + h : j \in S}

LEMMA PositionsAreFinite ==
  ASSUME NEW n \in Nat, NEW S \in SUBSET (1..n)
  PROVE  /\ IsFiniteSet(S) /\ Cardinality(S) \in Nat
         /\ \A i : IsFiniteSet({j \in S : j <= i}) /\ Rank(S, i) \in Nat /\ Rank(S, i) <= Cardinality(S)
<1>1. IsFiniteSet(1..n)
  BY FS_Interval
<1>2. IsFiniteSet(S)
  BY <1>1, FS_Subset
<1>3. Cardinality(S) \in Nat
  BY <1>2, FS_CardinalityType
<1>4. ASSUME NEW i
      PROVE  IsFiniteSet({j \in S : j <= i}) /\ Rank(S, i) \in Nat /\ Rank(S, i) <= Cardinality(S)
  <2> DEFINE T == {j \in S : j <= i}
  <2>1. T \in SUBSET S
    OBVIOUS
  <2> HIDE DEF T
  <2>2. IsFiniteSet(T) /\ Cardinality(T) <= Cardinality(S)
    BY <1>2, <2>1, FS_Subset
  <2>3. Cardinality(T) \in Nat
    BY <2>2, FS_CardinalityType
  <2>4. QED BY <2>2, <2>3 DEF T, Rank
<1>5. QED BY <1>2, <1>3, <1>4

LEMMA RanksDiffer ==
  ASSUME NEW n \in Nat, NEW S \in SUBSET (1..n), NEW i \in S, NEW k \in S, i < k
  PROVE  Rank(S, i) # Rank(S, k)
<1> DEFINE T == {j \in S : j <= i}
           U == {j \in S : j <= k}
<1>1. (\A j \in S : j \in Nat) /\ i \in Nat /\ k \in Nat
  OBVIOUS
<1>2. T \in SUBSET U
  <2>1. \A j \in S : j <= i => j <= k
    BY <1>1
  <2>2. QED BY <2>1
<1>3. k \in U /\ k \notin T
  BY <1>1
<1>4. IsFiniteSet(U)
  BY PositionsAreFinite
<1> HIDE DEF T, U
<1>5. Cardinality(U) = Cardinality(T) => U = T
  BY <1>2, <1>4, FS_Subset
<1>6. QED BY <1>3, <1>5 DEF T, U, Rank

LEMMA NthIs ==
  ASSUME NEW n \in Nat, NEW S \in SUBSET (1..n), NEW i \in S
  PROVE  Nth(S, Rank(S, i)) = i
<1>1. \A k \in S : Rank(S, k) = Rank(S, i) => k = i
  <2> SUFFICES ASSUME NEW k \in S, k # i PROVE Rank(S, k) # Rank(S, i)
    OBVIOUS
  <2>1. k < i \/ i < k
    OBVIOUS
  <2>2. QED BY <2>1, RanksDiffer
<1>2. QED BY <1>1 DEF Nth, Rank

(* There is one for each number up to how many there are.                   *)
LEMMA NthExists ==
  ASSUME NEW n \in Nat, NEW S \in SUBSET (1..n), NEW k \in 1..Cardinality(S)
  PROVE  \E i \in S : Rank(S, i) = k
<1> DEFINE T == {m \in Nat : Rank(S, m) >= k}
<1>1. Cardinality(S) \in Nat /\ k \in Nat /\ k >= 1
  BY PositionsAreFinite
<1>2. n \in T
  <2>0. \A j \in S : j <= n
    OBVIOUS
  <2>1. {j \in S : j <= n} = S
    BY <2>0
  <2>2. QED BY <2>1, <1>1 DEF Rank
<1>3. PICK i \in T : \A m \in T : i <= m
  BY <1>2, Least0
<1>4. i # 0
  <2>0. \A j \in S : ~(j <= 0)
    OBVIOUS
  <2>1. {j \in S : j <= 0} = {}
    BY <2>0
  <2>2. Rank(S, 0) = 0
    BY <2>1, FS_EmptySet DEF Rank
  <2>3. QED BY <2>2, <1>1
<1>5. i - 1 \in Nat /\ i - 1 \notin T
  BY <1>3, <1>4
<1> DEFINE U == {j \in S : j <= i - 1}
<1>6. IsFiniteSet(U) /\ Cardinality(U) \in Nat /\ Cardinality(U) < k
  <2>1. IsFiniteSet(U) /\ Rank(S, i - 1) \in Nat
    BY PositionsAreFinite
  <2>2. ~(Rank(S, i - 1) >= k)
    BY <1>5
  <2>3. QED BY <2>1, <2>2, <1>1 DEF Rank
<1>7. \A j \in S : j <= i <=> j <= i - 1 \/ j = i
  BY <1>5
<1>8. CASE i \in S
  <2>1. {j \in S : j <= i} = U \cup {i}
    BY <1>7, <1>8
  <2>2. i \notin U
    BY <1>5
  <2> HIDE DEF U
  <2>3. Rank(S, i) = Cardinality(U) + 1
    BY <2>1, <2>2, <1>6, FS_AddElement DEF Rank
  <2>4. Rank(S, i) >= k
    BY <1>3
  <2>5. QED BY <2>3, <2>4, <1>6, <1>1, <1>8
<1>9. CASE i \notin S
  <2>1. {j \in S : j <= i} = U
    BY <1>7, <1>9
  <2>2. Rank(S, i) = Cardinality(U) /\ Rank(S, i) >= k
    BY <2>1, <1>3 DEF Rank
  <2> HIDE DEF U
  <2>3. QED BY <2>2, <1>6, <1>1
<1>10. QED BY <1>8, <1>9

LEMMA NthOf ==
  ASSUME NEW n \in Nat, NEW S \in SUBSET (1..n), NEW k \in 1..Cardinality(S)
  PROVE  Nth(S, k) \in S /\ Rank(S, Nth(S, k)) = k
<1>1. \E i \in S : Cardinality({j \in S : j <= i}) = k
  BY NthExists DEF Rank
<1>2. QED BY <1>1 DEF Nth, Rank

LEMMA ShiftCounts ==
  ASSUME NEW n \in Nat, NEW S \in SUBSET (1..n), NEW h \in Int
  PROVE  Cardinality(Shifted(S, h)) = Cardinality(S)
<1> DEFINE T == Shifted(S, h)
           f == [j \in S |-> j + h]
<1>1. \A j \in S : j \in Nat
  OBVIOUS
<1>2. f \in [S -> T]
  BY DEF Shifted
<1>3. \A a \in S, b \in S : f[a] = f[b] => a = b
  BY <1>1
<1>4. \A t \in T : \E j \in S : f[j] = t
  BY DEF Shifted
<1>5. IsFiniteSet(S)
  BY PositionsAreFinite
<1> HIDE DEF f, T
<1>6. f \in Bijection(S, T)
  BY <1>2, <1>3, <1>4 DEF Bijection, Injection, Surjection, IsInjective
<1>7. ExistsBijection(S, T)
  BY <1>6 DEF ExistsBijection
<1>8. QED BY <1>5, <1>7, FS_Bijection DEF T

LEMMA ShiftRanks ==
  ASSUME NEW n \in Nat, NEW S \in SUBSET (1..n), NEW h \in Int, NEW i \in Int
  PROVE  Rank(Shifted(S, h), i + h) = Rank(S, i)
<1> DEFINE T == {j \in S : j <= i}
<1>1. \A j \in S : j \in Int /\ (j + h <= i + h <=> j <= i)
  OBVIOUS
<1>2. {j \in Shifted(S, h) : j <= i + h} = Shifted(T, h)
  BY <1>1 DEF Shifted
<1>3. T \in SUBSET (1..n)
  OBVIOUS
<1> HIDE DEF T
<1>4. Cardinality(Shifted(T, h)) = Cardinality(T)
  BY <1>3, ShiftCounts
<1>5. QED BY <1>2, <1>4 DEF Rank, T

LEMMA NthShifts ==
  ASSUME NEW n \in Nat, NEW S \in SUBSET (1..n), NEW h \in Int, NEW m \in Nat,
         Shifted(S, h) \subseteq 1..m, NEW k \in 1..Cardinality(S)
  PROVE  Nth(Shifted(S, h), k) = Nth(S, k) + h
<1> DEFINE i == Nth(S, k)
<1>1. i \in S /\ Rank(S, i) = k
  BY NthOf
<1> HIDE DEF i
<1>2. i + h \in Shifted(S, h) /\ i \in Int
  <2>1. i + h \in Shifted(S, h)
    BY <1>1 DEF Shifted
  <2>2. i \in Int
    BY <1>1
  <2>3. QED BY <2>1, <2>2
<1>3. Rank(Shifted(S, h), i + h) = k
  BY <1>1, <1>2, ShiftRanks
<1>4. Nth(Shifted(S, h), Rank(Shifted(S, h), i + h)) = i + h
  BY <1>2, NthIs
<1>5. QED BY <1>3, <1>4 DEF i

-----------------------------------------------------------------------------
(* Pieces of a text.                                                        *)
LEMMA PieceIs ==
  ASSUME NEW A, NEW s \in Seq(A), NEW a \in Int, NEW b \in Int, 1 <= a, b <= Len(s)
  PROVE  /\ SubSeq(s, a, b) \in Seq(A)
         /\ Len(SubSeq(s, a, b)) = IF a <= b THEN b - a + 1 ELSE 0
         /\ \A i \in 1..(b - a + 1) : SubSeq(s, a, b)[i] = s[a + i - 1]
<1>1. \A i \in a..b : i \in 1..Len(s)
  BY LenProperties
<1>2. \A i \in a..b : s[i] \in A
  BY <1>1, ElementOfSeq
<1>3. /\ SubSeq(s, a, b) \in Seq(A)
      /\ Len(SubSeq(s, a, b)) = IF a <= b THEN b - a + 1 ELSE 0
      /\ \A i \in 1..(b - a + 1) : SubSeq(s, a, b)[i] = s[a + i - 1]
  <2>1. \A i \in 1..(b - a + 1) : a + i - 1 = a + i - 1
    OBVIOUS
  <2>2. QED BY <1>2, SubSeqProperties
<1>4. QED BY <1>3

(* A piece of a piece is a piece.                                           *)
LEMMA PieceOfPiece ==
  ASSUME NEW A, NEW s \in Seq(A), NEW a \in Int, NEW b \in Int, 1 <= a, b <= Len(s),
         NEW i \in Int, NEW j \in Int, 1 <= i, j <= b - a + 1
  PROVE  SubSeq(SubSeq(s, a, b), i, j) = SubSeq(s, a + i - 1, a + j - 1)
<1> DEFINE u == SubSeq(s, a, b)
           v == SubSeq(u, i, j)
           w == SubSeq(s, a + i - 1, a + j - 1)
<1>1. u \in Seq(A) /\ Len(u) = (IF a <= b THEN b - a + 1 ELSE 0)
      /\ \A k \in 1..(b - a + 1) : u[k] = s[a + k - 1]
  BY PieceIs
<1>2. CASE i > j
  <2>1. v = <<>>
    BY <1>2, SubSeqEmpty
  <2>2. a + j - 1 < a + i - 1 /\ a + j - 1 \in Int /\ a + i - 1 \in Int
    BY <1>2
  <2>3. w = <<>>
    BY <2>2, SubSeqEmpty
  <2>4. QED BY <2>1, <2>3
<1>3. CASE i <= j
  <2>1. a <= b /\ j <= Len(u)
    BY <1>1, <1>3
  <2> HIDE DEF u
  <2>2. v \in Seq(A) /\ Len(v) = j - i + 1 /\ \A k \in 1..(j - i + 1) : v[k] = u[i + k - 1]
    <3>1. u \in Seq(A) /\ i \in Int /\ j \in Int /\ 1 <= i /\ j <= Len(u)
      BY <1>1, <2>1
    <3> HIDE DEF v, w
    <3>2. v = SubSeq(u, i, j)
      BY DEF v
    <3>3. /\ SubSeq(u, i, j) \in Seq(A)
          /\ Len(SubSeq(u, i, j)) = IF i <= j THEN j - i + 1 ELSE 0
          /\ \A k \in 1..(j - i + 1) : SubSeq(u, i, j)[k] = u[i + k - 1]
      BY ONLY <3>1, PieceIs
    <3>4. QED BY <1>3, <3>2, <3>3
  <2>3. a + i - 1 \in Int /\ a + j - 1 \in Int /\ 1 <= a + i - 1 /\ a + j - 1 <= Len(s)
    BY <2>1, <1>3, LenProperties
  <2> DEFINE c == a + i - 1
             d == a + j - 1
  <2>4. c <= d /\ d - c + 1 = j - i + 1
    BY <1>3
  <2> HIDE DEF c, d
  <2>5. SubSeq(s, c, d) \in Seq(A) /\ Len(SubSeq(s, c, d)) = j - i + 1
        /\ \A k \in 1..(j - i + 1) : SubSeq(s, c, d)[k] = s[c + k - 1]
    BY <2>3, <2>4, PieceIs DEF c, d
  <2>6. w \in Seq(A) /\ Len(w) = j - i + 1 /\ \A k \in 1..(j - i + 1) : w[k] = s[c + k - 1]
    BY <2>5 DEF c, d
  <2> HIDE DEF v, w
  <2>7. \A k \in 1..(j - i + 1) : i + k - 1 \in 1..(b - a + 1) /\ a + (i + k - 1) - 1 = c + k - 1
    BY <2>1 DEF c
  <2>8. \A k \in 1..(j - i + 1) : v[k] = w[k]
    BY <2>2, <2>6, <2>7, <1>1, ZenonT(30)
  <2>9. QED BY <2>2, <2>6, <2>8, SeqEqual DEF v, w
<1>4. QED BY <1>2, <1>3

LEMMA PieceOfLonger ==
  ASSUME NEW A, NEW s \in Seq(A), NEW t \in Seq(A), NEW a \in Int, NEW b \in Int, 1 <= a, b <= Len(s)
  PROVE  SubSeq(s \o t, a, b) = SubSeq(s, a, b)
<1>1. CASE a > b
  BY <1>1, SubSeqEmpty
<1>2. CASE a <= b
  <2>1. a \in 1..Len(s) /\ b \in 1..Len(s)
    BY <1>2, LenProperties
  <2>2. QED BY <2>1, SubSeqOfConcat1
<1>3. QED BY <1>1, <1>2

(* What is left of a longer text is longer by as much.                      *)
LEMMA RestOfLonger ==
  ASSUME NEW A, NEW s \in Seq(A), NEW t \in Seq(A), NEW a \in Int, 1 <= a, a <= Len(s) + 1
  PROVE  SubSeq(s \o t, a, Len(s \o t)) = SubSeq(s, a, Len(s)) \o t
<1> DEFINE u == SubSeq(s \o t, a, Len(s \o t))
           v == SubSeq(s, a, Len(s))
<1>1. /\ s \o t \in Seq(A) /\ Len(s \o t) = Len(s) + Len(t) /\ Len(s) \in Nat /\ Len(t) \in Nat
      /\ \A i \in 1..(Len(s) + Len(t)) : (s \o t)[i] = IF i <= Len(s) THEN s[i] ELSE t[i - Len(s)]
  BY ConcatProperties, LenProperties
<1>2. /\ u \in Seq(A) /\ Len(u) = Len(s) + Len(t) - a + 1
      /\ \A i \in 1..(Len(s) + Len(t) - a + 1) : u[i] = (s \o t)[a + i - 1]
  <2>1. Len(s \o t) \in Int /\ Len(s \o t) <= Len(s \o t)
    BY <1>1
  <2>2. /\ u \in Seq(A) /\ Len(u) = IF a <= Len(s \o t) THEN Len(s \o t) - a + 1 ELSE 0
        /\ \A i \in 1..(Len(s \o t) - a + 1) : u[i] = (s \o t)[a + i - 1]
    BY <1>1, <2>1, PieceIs
  <2> HIDE DEF u
  <2>3. Len(s \o t) - a + 1 = Len(s) + Len(t) - a + 1
    BY <1>1
  <2>4. Len(u) = Len(s) + Len(t) - a + 1
    BY <1>1, <2>2
  <2>5. QED BY <2>2, <2>3, <2>4
<1>3. /\ v \in Seq(A) /\ Len(v) = Len(s) - a + 1
      /\ \A i \in 1..(Len(s) - a + 1) : v[i] = s[a + i - 1]
  <2>1. Len(s) \in Int /\ Len(s) <= Len(s)
    BY <1>1
  <2>2. /\ v \in Seq(A) /\ Len(v) = IF a <= Len(s) THEN Len(s) - a + 1 ELSE 0
        /\ \A i \in 1..(Len(s) - a + 1) : v[i] = s[a + i - 1]
    BY <2>1, PieceIs
  <2> HIDE DEF v
  <2>3. QED BY <1>1, <2>2
<1> HIDE DEF u, v
<1>4. /\ v \o t \in Seq(A) /\ Len(v \o t) = Len(v) + Len(t)
      /\ \A i \in 1..(Len(v) + Len(t)) : (v \o t)[i] = IF i <= Len(v) THEN v[i] ELSE t[i - Len(v)]
  BY <1>3, ConcatProperties
<1>5. Len(v \o t) = Len(u)
  BY <1>1, <1>2, <1>3, <1>4
<1>6. ASSUME NEW i \in 1..Len(u) PROVE u[i] = (v \o t)[i]
  <2>1. u[i] = (s \o t)[a + i - 1] /\ a + i - 1 \in 1..(Len(s) + Len(t)) /\ i \in 1..(Len(v) + Len(t))
    BY <1>1, <1>2, <1>3
  <2>2. CASE i <= Len(v)
    <3>1. a + i - 1 <= Len(s) /\ i \in 1..(Len(s) - a + 1)
      BY <2>2, <1>1, <1>3
    <3>2. u[i] = s[a + i - 1]
      BY <2>1, <3>1, <1>1
    <3>3. (v \o t)[i] = s[a + i - 1]
      BY <2>1, <2>2, <3>1, <1>3, <1>4
    <3>4. QED BY <3>2, <3>3
  <2>3. CASE ~(i <= Len(v))
    <3>1. ~(a + i - 1 <= Len(s)) /\ a + i - 1 - Len(s) = i - Len(v)
      BY <2>3, <1>1, <1>3
    <3>2. u[i] = t[a + i - 1 - Len(s)]
      BY <2>1, <3>1, <1>1
    <3>3. (v \o t)[i] = t[i - Len(v)]
      BY <2>1, <2>3, <1>4
    <3>4. QED BY <3>1, <3>2, <3>3
  <2>4. QED BY <2>2, <2>3
<1>7. u = v \o t
  BY <1>2, <1>4, <1>5, <1>6, SeqEqual
<1>8. QED BY <1>7 DEF u, v

-----------------------------------------------------------------------------
(* The words of a line: where each begins, and how far it goes.             *)
Firsts(s)      == {i \in Letters(s) : i > 1 => s[i - 1] = SP}
WordFrom(s, i) == {j \in i..Len(s) : \A k \in i..j : s[k] # SP}

LEMMA WordsAre ==
  ASSUME NEW s
  PROVE  Words(s) = [n \in 1..Cardinality(Firsts(s)) |->
                       SubSeq(s, Nth(Firsts(s), n),
                              Nth(Firsts(s), n) + Cardinality(WordFrom(s, Nth(Firsts(s), n))) - 1)]
BY DEF Words, Firsts, WordFrom

LEMMA FirstsAre ==
  ASSUME NEW A, NEW s \in Seq(A)
  PROVE  Len(s) \in Nat /\ Letters(s) \subseteq 1..Len(s) /\ Firsts(s) \subseteq 1..Len(s)
BY LenProperties DEF Letters, Firsts

(* Spaces before and after a line are not in its words.                     *)
LEMMA WordsOfPiece ==
  ASSUME NEW A, NEW s \in Seq(A), NEW a \in 1..Len(s), NEW b \in a..Len(s),
         \A j \in 1..Len(s) : j < a \/ j > b => s[j] = SP
  PROVE  Words(SubSeq(s, a, b)) = Words(s)
<1> DEFINE u == SubSeq(s, a, b)
           h == a - 1
           S == Firsts(u)
<1>1. Len(s) \in Nat /\ a \in Int /\ b \in Int /\ 1 <= a /\ a <= b /\ b <= Len(s) /\ h \in Int
  BY LenProperties
<1>2. u \in Seq(A) /\ Len(u) = b - a + 1 /\ \A i \in 1..(b - a + 1) : u[i] = s[i + h]
  <2>1. u \in Seq(A) /\ Len(u) = (IF a <= b THEN b - a + 1 ELSE 0)
        /\ \A i \in 1..(b - a + 1) : u[i] = s[a + i - 1]
    BY <1>1, PieceIs
  <2>2. \A i \in 1..(b - a + 1) : a + i - 1 = i + h
    BY <1>1
  <2> HIDE DEF u, h
  <2>3. QED BY <2>1, <2>2, <1>1
<1>3. S \subseteq 1..Len(u) /\ Len(u) \in Nat /\ Firsts(s) \subseteq 1..Len(s)
  BY <1>2, FirstsAre
<1>4. DOMAIN u = 1..Len(u) /\ DOMAIN s = 1..Len(s)
  BY <1>2, LenProperties
<1> HIDE DEF u
<1>5. \A i \in 1..Len(u) : u[i] = s[i + h] /\ i + h \in 1..Len(s)
  BY <1>1, <1>2
<1>6. \A j \in 1..Len(s) : s[j] # SP => j - h \in 1..Len(u) /\ u[j - h] = s[j] /\ (j - h) + h = j
  <2> SUFFICES ASSUME NEW j \in 1..Len(s), s[j] # SP
               PROVE  j - h \in 1..Len(u) /\ u[j - h] = s[j] /\ (j - h) + h = j
    OBVIOUS
  <2>1. ~(j < a) /\ ~(j > b)
    OBVIOUS
  <2>2. j - h \in 1..Len(u) /\ (j - h) + h = j
    BY <2>1, <1>1, <1>2
  <2>3. QED BY <2>2, <1>5
<1>7. \A i \in 1..Len(u) : i \in S <=> i + h \in Firsts(s)
  <2> SUFFICES ASSUME NEW i \in 1..Len(u) PROVE i \in S <=> i + h \in Firsts(s)
    OBVIOUS
  <2>1. i \in Letters(u) <=> i + h \in Letters(s)
    BY <1>4, <1>5 DEF Letters
  <2>2. (i > 1 => u[i - 1] = SP) <=> (i + h > 1 => s[i + h - 1] = SP)
    <3>1. CASE i > 1
      <4>1. i - 1 \in 1..Len(u) /\ (i - 1) + h = i + h - 1 /\ i + h > 1
        BY <3>1, <1>1, <1>3
      <4>2. u[i - 1] = s[i + h - 1]
        BY <4>1, <1>5
      <4>3. QED BY <4>1, <4>2, <3>1
    <3>2. CASE ~(i > 1) /\ i + h > 1
      <4>1. i + h - 1 < a /\ i + h - 1 \in 1..Len(s)
        BY <3>2, <1>1, <1>3
      <4>2. s[i + h - 1] = SP
        BY <4>1
      <4>3. QED BY <4>2, <3>2
    <3>3. QED BY <3>1, <3>2
  <2>3. QED BY <2>1, <2>2 DEF Firsts
<1>8. Firsts(s) = Shifted(S, h)
  <2>1. ASSUME NEW j \in Firsts(s) PROVE j \in Shifted(S, h)
    <3>1. j \in 1..Len(s) /\ s[j] # SP
      BY <1>3 DEF Firsts, Letters
    <3>2. j - h \in 1..Len(u) /\ (j - h) + h = j
      BY <3>1, <1>6
    <3>3. j - h \in S
      BY <3>2, <1>7
    <3> HIDE DEF S
    <3>4. QED BY <3>2, <3>3 DEF Shifted
  <2>2. ASSUME NEW i \in S PROVE i + h \in Firsts(s)
    BY <1>3, <1>7
  <2> HIDE DEF S, h
  <2>3. QED BY <2>1, <2>2 DEF Shifted
<1>9. Cardinality(Firsts(s)) = Cardinality(S) /\ Cardinality(S) \in Nat
  BY <1>1, <1>3, <1>8, ShiftCounts, PositionsAreFinite
<1>10. ASSUME NEW i \in S
       PROVE  WordFrom(s, i + h) = Shifted(WordFrom(u, i), h)
  <2>1. i \in 1..Len(u) /\ i + h \in 1..Len(s)
    BY <1>3, <1>5
  <2>2. ASSUME NEW j \in WordFrom(s, i + h) PROVE j \in Shifted(WordFrom(u, i), h)
    <3>1. j \in (i + h)..Len(s) /\ \A k \in (i + h)..j : s[k] # SP
      BY DEF WordFrom
    <3>2. j \in 1..Len(s) /\ s[j] # SP
      BY <2>1, <3>1, <1>1
    <3>3. j - h \in i..Len(u) /\ (j - h) + h = j
      BY <3>1, <3>2, <1>6, <1>1, <2>1
    <3>4. ASSUME NEW k \in i..(j - h) PROVE u[k] # SP
      <4>1. k \in 1..Len(u) /\ k + h \in (i + h)..j
        BY <3>3, <2>1, <1>1, <1>3, <3>2
      <4>2. QED BY <4>1, <3>1, <1>5
    <3>5. j - h \in WordFrom(u, i)
      BY <3>3, <3>4 DEF WordFrom
    <3> HIDE DEF h
    <3>6. QED BY <3>3, <3>5 DEF Shifted
  <2>3. ASSUME NEW j \in WordFrom(u, i) PROVE j + h \in WordFrom(s, i + h)
    <3>1. j \in i..Len(u) /\ \A k \in i..j : u[k] # SP
      BY DEF WordFrom
    <3>2. j \in 1..Len(u) /\ j + h \in (i + h)..Len(s)
      BY <3>1, <2>1, <1>1, <1>3, <1>5
    <3>3. ASSUME NEW k \in (i + h)..(j + h) PROVE s[k] # SP
      <4>1. k - h \in i..j /\ k - h \in 1..Len(u) /\ (k - h) + h = k
        BY <3>2, <2>1, <1>1, <1>3
      <4>2. QED BY <4>1, <3>1, <1>5
    <3>4. QED BY <3>2, <3>3 DEF WordFrom
  <2> HIDE DEF h
  <2>4. QED BY <2>2, <2>3 DEF Shifted
<1>11. ASSUME NEW n \in 1..Cardinality(S)
       PROVE  LET i == Nth(S, n)
                  j == Nth(Firsts(s), n)
              IN  SubSeq(s, j, j + Cardinality(WordFrom(s, j)) - 1)
                    = SubSeq(u, i, i + Cardinality(WordFrom(u, i)) - 1)
  <2> DEFINE i == Nth(S, n)
             c == Cardinality(WordFrom(u, i))
  <2>1. i \in S
    BY <1>3, NthOf
  <2>2. Nth(Firsts(s), n) = i + h
    <3>1. Shifted(S, h) \subseteq 1..Len(s)
      BY <1>3, <1>8
    <3> HIDE DEF S, h
    <3>2. QED BY <3>1, <1>1, <1>3, <1>8, NthShifts, ZenonT(30)
  <2>3. i \in 1..Len(u) /\ i \in Int
    BY <2>1, <1>3
  <2> HIDE DEF i
  <2>4. WordFrom(u, i) \subseteq i..Len(u)
    BY DEF WordFrom
  <2>5. WordFrom(u, i) \subseteq 1..Len(u)
    BY <2>3, <2>4
  <2>6. c \in Nat /\ c <= Len(u) - i + 1
    <3>1. IsFiniteSet(i..Len(u)) /\ Cardinality(i..Len(u)) = IF i > Len(u) THEN 0 ELSE Len(u) - i + 1
      BY <2>3, <1>3, FS_Interval
    <3>2. IsFiniteSet(WordFrom(u, i)) /\ c <= Cardinality(i..Len(u))
      BY <3>1, <2>4, FS_Subset
    <3>3. c \in Nat
      BY <3>2, FS_CardinalityType
    <3> HIDE DEF c
    <3>4. QED BY <3>1, <3>2, <3>3, <2>3
  <2>7. Cardinality(WordFrom(s, i + h)) = c
    BY <2>1, <2>5, <1>1, <1>3, <1>10, ShiftCounts
  <2> HIDE DEF c
  <2>8. SubSeq(u, i, i + c - 1) = SubSeq(s, a + i - 1, a + (i + c - 1) - 1)
    <3>1. i + c - 1 \in Int /\ 1 <= i /\ i + c - 1 <= b - a + 1
      BY <2>3, <2>6, <1>2
    <3>2. QED BY <3>1, <2>3, <1>1, PieceOfPiece, SMTT(30) DEF u
  <2>9. a + i - 1 = i + h /\ a + (i + c - 1) - 1 = i + h + c - 1
    BY <2>3, <2>6, <1>1
  <2>10. SubSeq(s, i + h, i + h + c - 1) = SubSeq(u, i, i + c - 1)
    BY <2>8, <2>9
  <2>11. QED BY <2>2, <2>7, <2>10 DEF i, c
<1> HIDE DEF S
<1>12. /\ Words(s) = [n \in 1..Cardinality(Firsts(s)) |->
                        SubSeq(s, Nth(Firsts(s), n),
                               Nth(Firsts(s), n) + Cardinality(WordFrom(s, Nth(Firsts(s), n))) - 1)]
       /\ Words(u) = [n \in 1..Cardinality(Firsts(u)) |->
                        SubSeq(u, Nth(Firsts(u), n),
                               Nth(Firsts(u), n) + Cardinality(WordFrom(u, Nth(Firsts(u), n))) - 1)]
  BY WordsAre
<1>13. Words(u) = Words(s)
  BY <1>9, <1>11, <1>12 DEF S
<1>14. QED BY <1>13 DEF u

LEMMA Ends ==
  ASSUME NEW n \in Nat, NEW S \in SUBSET (1..n), S # {}
  PROVE  /\ \E i \in S : \A j \in S : i <= j
         /\ \E i \in S : \A j \in S : j <= i
<1>1. S \in SUBSET Nat
  OBVIOUS
<1>2. \E i \in S : \A j \in S : i <= j
  BY <1>1, Least0
<1> DEFINE T == {n - j : j \in S}
<1>3. T \in SUBSET Nat /\ T # {}
  <2>1. \A j \in S : n - j \in Nat
    OBVIOUS
  <2>2. QED BY <2>1
<1>4. PICK d \in T : \A e \in T : d <= e
  BY <1>3, Least0
<1>5. PICK i \in S : d = n - i
  BY <1>4
<1>6. ASSUME NEW j \in S PROVE j <= i
  <2>1. n - i <= n - j
    BY <1>4, <1>5
  <2>2. QED BY <2>1, <1>1
<1>7. QED BY <1>2, <1>6

(* parse_delimiter's trimming changes nothing for parse_command.            *)
LEMMA Trimmed ==
  ASSUME NEW A, NEW s \in Seq(A)
  PROVE  Words(WithoutTailSp(WithoutHeadSp(s))) = Words(s)
<1>1. Len(s) \in Nat /\ Letters(s) \in SUBSET (1..Len(s)) /\ DOMAIN s = 1..Len(s)
  BY FirstsAre, LenProperties
<1>2. CASE Letters(s) = {}
  <2>1. WithoutHeadSp(s) = <<>>
    BY <1>2 DEF WithoutHeadSp
  <2>2. Letters(<<>>) = {}
    BY DEF Letters
  <2>3. WithoutTailSp(WithoutHeadSp(s)) = <<>>
    BY <2>1, <2>2 DEF WithoutTailSp
  <2>4. Firsts(<<>>) = {} /\ Firsts(s) = {}
    BY <2>2, <1>2 DEF Firsts
  <2>5. ASSUME NEW u, Firsts(u) = {} PROVE Words(u) = [n \in {} |-> 0]
    <3> DEFINE word(n) == SubSeq(u, Nth(Firsts(u), n),
                                 Nth(Firsts(u), n) + Cardinality(WordFrom(u, Nth(Firsts(u), n))) - 1)
    <3>1. 1..Cardinality(Firsts(u)) = {}
      BY <2>5, FS_EmptySet
    <3>2. Words(u) = [n \in 1..Cardinality(Firsts(u)) |-> word(n)]
      BY WordsAre
    <3> HIDE DEF word
    <3>3. QED BY <3>1, <3>2
  <2>6. QED BY <2>3, <2>4, <2>5
<1>3. CASE Letters(s) # {}
  <2> DEFINE a == CHOOSE i \in Letters(s) : \A j \in Letters(s) : i <= j
             u == SubSeq(s, a, Len(s))
             b == CHOOSE i \in Letters(u) : \A j \in Letters(u) : j <= i
             v == SubSeq(u, 1, b)
  <2>1. a \in Letters(s) /\ \A j \in Letters(s) : a <= j
    BY <1>1, <1>3, Ends
  <2>2. WithoutHeadSp(s) = u
    BY <1>3 DEF WithoutHeadSp
  <2>3. a \in 1..Len(s) /\ Len(s) \in a..Len(s) /\ s[a] # SP
    BY <1>1, <2>1 DEF Letters
  <2>4. \A j \in 1..Len(s) : j < a \/ j > Len(s) => s[j] = SP
    <3> SUFFICES ASSUME NEW j \in 1..Len(s), j < a, s[j] # SP PROVE FALSE
      BY <1>1
    <3>1. j \in Letters(s)
      BY <1>1 DEF Letters
    <3>2. a <= j /\ a \in Nat /\ j \in Nat
      BY <3>1, <2>1, <2>3
    <3>3. QED BY <3>2
  <2> HIDE DEF a
  <2>5. Words(u) = Words(s)
    BY <2>3, <2>4, WordsOfPiece
  <2>6. u \in Seq(A) /\ Len(u) = Len(s) - a + 1 /\ u[1] = s[a]
    <3>1. a \in Int /\ Len(s) \in Int /\ 1 <= a /\ Len(s) <= Len(s) /\ a <= Len(s)
      BY <2>3, <1>1
    <3>2. u \in Seq(A) /\ Len(u) = (IF a <= Len(s) THEN Len(s) - a + 1 ELSE 0)
          /\ \A i \in 1..(Len(s) - a + 1) : u[i] = s[a + i - 1]
      BY <3>1, PieceIs
    <3> HIDE DEF u
    <3>3. 1 \in 1..(Len(s) - a + 1) /\ a + 1 - 1 = a
      BY <3>1
    <3>4. QED BY <3>1, <3>2, <3>3
  <2> HIDE DEF u
  <2>7. Len(u) \in Nat /\ Letters(u) \in SUBSET (1..Len(u)) /\ DOMAIN u = 1..Len(u)
    BY <2>6, FirstsAre, LenProperties
  <2>8. 1 \in Letters(u)
    BY <2>3, <2>6, <2>7, <1>1 DEF Letters
  <2>9. b \in Letters(u) /\ \A j \in Letters(u) : j <= b
    BY <2>7, <2>8, Ends
  <2>10. WithoutTailSp(u) = v
    BY <2>8 DEF WithoutTailSp
  <2>11. 1 \in 1..Len(u) /\ b \in 1..Len(u)
    BY <2>7, <2>8, <2>9
  <2>12. \A j \in 1..Len(u) : j < 1 \/ j > b => u[j] = SP
    <3> SUFFICES ASSUME NEW j \in 1..Len(u), j > b, u[j] # SP PROVE FALSE
      BY <2>7
    <3>1. j \in Letters(u)
      BY <2>7 DEF Letters
    <3>2. j <= b /\ b \in Nat /\ j \in Nat
      BY <3>1, <2>9, <2>11
    <3>3. QED BY <3>2
  <2> HIDE DEF b
  <2>13. Words(v) = Words(u)
    BY <2>6, <2>11, <2>12, WordsOfPiece
  <2>14. QED BY <2>2, <2>5, <2>10, <2>13
<1>4. QED BY <1>2, <1>3

-----------------------------------------------------------------------------
(* Delimiters and lines.                                                    *)
LEMMA DelimsAre ==
  ASSUME NEW A, NEW s \in Seq(A)
  PROVE  /\ Len(s) \in Nat /\ Delims(s) \in SUBSET (1..Len(s)) /\ Lines(s) \in Nat
         /\ \A i \in Delims(s) : i \in Nat /\ 1 <= i /\ i <= Len(s) - 1
<1>1. Len(s) \in Nat
  BY LenProperties
<1>2. \A i \in Delims(s) : i \in 1..Len(s) /\ i \in Nat /\ 1 <= i /\ i <= Len(s) - 1
  BY <1>1 DEF Delims
<1>3. Delims(s) \in SUBSET (1..Len(s))
  BY <1>2
<1>4. QED BY <1>1, <1>2, <1>3, PositionsAreFinite DEF Lines

LEMMA LineEnds ==
  ASSUME NEW A, NEW s \in Seq(A), NEW k \in 0..Lines(s)
  PROVE  /\ End(s, k) \in Nat /\ End(s, k) <= Len(s)
         /\ k # 0 => Nth(Delims(s), k) \in Delims(s) /\ Rank(Delims(s), Nth(Delims(s), k)) = k
<1>1. Len(s) \in Nat /\ Delims(s) \in SUBSET (1..Len(s)) /\ Lines(s) \in Nat
      /\ \A i \in Delims(s) : i \in Nat /\ 1 <= i /\ i <= Len(s) - 1
  BY DelimsAre
<1>2. CASE k = 0
  BY <1>1, <1>2 DEF End
<1>3. CASE k # 0
  <2>1. k \in 1..Cardinality(Delims(s))
    BY <1>1, <1>3 DEF Lines
  <2>2. Nth(Delims(s), k) \in Delims(s) /\ Rank(Delims(s), Nth(Delims(s), k)) = k
    BY <1>1, <2>1, NthOf
  <2>3. End(s, k) = Nth(Delims(s), k) + 1
    BY <1>3 DEF End
  <2>4. QED BY <1>1, <2>2, <2>3
<1>4. QED BY <1>2, <1>3

LEMMA LineIs ==
  ASSUME NEW A, NEW s \in Seq(A), NEW k \in 1..Lines(s)
  PROVE  LineOf(s, k) = SubSeq(s, End(s, k - 1) + 1, Nth(Delims(s), k) - 1)
<1>1. Lines(s) \in Nat
  BY DelimsAre
<1>2. CASE k = 1
  BY <1>2 DEF LineOf, End
<1>3. CASE k # 1
  <2>1. k - 1 \in 0..Lines(s) /\ k - 1 # 0
    BY <1>1, <1>3
  <2>2. Nth(Delims(s), k - 1) \in Delims(s) /\ End(s, k - 1) = Nth(Delims(s), k - 1) + 1
    BY <2>1, LineEnds DEF End
  <2>3. Nth(Delims(s), k - 1) \in Nat
    BY <2>2, DelimsAre
  <2> DEFINE x == Nth(Delims(s), k - 1)
  <2>4. (x + 1) + 1 = x + 2
    BY <2>3
  <2>5. QED BY <2>2, <2>4, <1>3 DEF LineOf
<1>4. QED BY <1>2, <1>3

LEMMA DelimIs ==
  ASSUME NEW A, NEW s \in Seq(A)
  PROVE  /\ Delim(s) = 0 <=> Delims(s) = {}
         /\ Delim(s) # 0 => Delim(s) \in Delims(s) /\ \A j \in Delims(s) : Delim(s) <= j
<1>1. Len(s) \in Nat /\ Delims(s) \in SUBSET (1..Len(s)) /\ 0 \notin Delims(s)
  BY DelimsAre
<1>2. ASSUME Delims(s) # {} PROVE Delim(s) \in Delims(s) /\ \A j \in Delims(s) : Delim(s) <= j
  <2>1. \E i \in Delims(s) : \A j \in Delims(s) : i <= j
    BY <1>1, <1>2, Ends
  <2>2. QED BY <2>1, <1>2 DEF Delim
<1>3. Delims(s) = {} => Delim(s) = 0
  BY DEF Delim
<1>4. QED BY <1>1, <1>2, <1>3

(* What comes later changes nothing of the lines that are there.            *)
LEMMA LongerDelims ==
  ASSUME NEW A, NEW s \in Seq(A), NEW t \in Seq(A)
  PROVE  /\ Delims(s) \subseteq Delims(s \o t)
         /\ \A i \in Delims(s \o t) : i <= Len(s) - 1 => i \in Delims(s)
         /\ Lines(s) <= Lines(s \o t)
<1>1. /\ s \o t \in Seq(A) /\ Len(s \o t) = Len(s) + Len(t) /\ Len(s) \in Nat /\ Len(t) \in Nat
      /\ \A i \in 1..(Len(s) + Len(t)) : (s \o t)[i] = IF i <= Len(s) THEN s[i] ELSE t[i - Len(s)]
  BY ConcatProperties, LenProperties
<1>2. \A i \in 1..Len(s) : (s \o t)[i] = s[i]
  <2> SUFFICES ASSUME NEW i \in 1..Len(s) PROVE (s \o t)[i] = s[i]
    OBVIOUS
  <2>1. i \in 1..(Len(s) + Len(t)) /\ i <= Len(s)
    BY <1>1
  <2>2. QED BY <2>1, <1>1
<1>3. ASSUME NEW i \in Int, i <= Len(s) - 1 PROVE i \in Delims(s) <=> i \in Delims(s \o t)
  <2>1. i \in 1..(Len(s) - 1) <=> i \in 1..(Len(s \o t) - 1)
    BY <1>1, <1>3
  <2>2. i \in 1..(Len(s) - 1) => i \in 1..Len(s) /\ i + 1 \in 1..Len(s)
    BY <1>1
  <2>3. QED BY <2>1, <2>2, <1>2 DEF Delims
<1>4. Delims(s) \subseteq Delims(s \o t)
  <2>1. \A i \in Delims(s) : i \in Int /\ i <= Len(s) - 1
    BY DelimsAre
  <2>2. QED BY <2>1, <1>3
<1>5. \A i \in Delims(s \o t) : i <= Len(s) - 1 => i \in Delims(s)
  <2>1. \A i \in Delims(s \o t) : i \in Int
    <3> DEFINE u == s \o t
    <3>1. u \in Seq(A)
      BY <1>1
    <3> HIDE DEF u
    <3>2. \A i \in Delims(u) : i \in Nat
      BY <3>1, DelimsAre
    <3>3. QED BY <3>2 DEF u
  <2>2. QED BY <2>1, <1>3
<1>6. Lines(s) <= Lines(s \o t)
  <2>1. IsFiniteSet(Delims(s \o t))
    BY <1>1, DelimsAre, PositionsAreFinite
  <2>2. QED BY <2>1, <1>4, FS_Subset DEF Lines
<1>7. QED BY <1>4, <1>5, <1>6

LEMMA LongerEnds ==
  ASSUME NEW A, NEW s \in Seq(A), NEW t \in Seq(A), NEW k \in 0..Lines(s)
  PROVE  /\ End(s \o t, k) = End(s, k)
         /\ k # 0 => Nth(Delims(s \o t), k) = Nth(Delims(s), k)
<1>1. s \o t \in Seq(A) /\ Len(s) \in Nat
  BY ConcatProperties, LenProperties
<1>2. ASSUME k # 0 PROVE Nth(Delims(s \o t), k) = Nth(Delims(s), k)
  <2> DEFINE i == Nth(Delims(s), k)
  <2>1. i \in Delims(s) /\ Rank(Delims(s), i) = k
    BY <1>2, LineEnds
  <2> HIDE DEF i
  <2>2. i \in Nat /\ i <= Len(s) - 1
    BY <2>1, DelimsAre
  <2>3. \A j \in Delims(s \o t) : j <= i => j \in Delims(s)
    <3>1. \A j \in Delims(s \o t) : j \in Nat
      BY <1>1, DelimsAre
    <3>2. \A j \in Delims(s \o t) : j <= Len(s) - 1 => j \in Delims(s)
      BY LongerDelims
    <3> SUFFICES ASSUME NEW j \in Delims(s \o t), j <= i PROVE j \in Delims(s)
      OBVIOUS
    <3>3. j <= Len(s) - 1
      BY <3>1, <2>2, <1>1
    <3>4. QED BY <3>2, <3>3
  <2>4. {j \in Delims(s \o t) : j <= i} = {j \in Delims(s) : j <= i}
    BY <2>3, LongerDelims
  <2>5. Rank(Delims(s \o t), i) = k /\ i \in Delims(s \o t)
    BY <2>1, <2>4, LongerDelims DEF Rank
  <2>6. Delims(s \o t) \in SUBSET (1..Len(s \o t)) /\ Len(s \o t) \in Nat
    BY <1>1, DelimsAre
  <2>7. Nth(Delims(s \o t), Rank(Delims(s \o t), i)) = i
    BY <2>5, <2>6, NthIs
  <2>8. QED BY <2>5, <2>7 DEF i
<1>3. QED BY <1>2 DEF End

LEMMA LongerUnread ==
  ASSUME NEW A, NEW s \in Seq(A), NEW t \in Seq(A), NEW k \in 0..Lines(s)
  PROVE  Unread(s \o t, k) = Unread(s, k) \o t
<1>1. End(s, k) \in Nat /\ End(s, k) <= Len(s) /\ Len(s) \in Nat
  BY LineEnds, LenProperties
<1>2. End(s, k) + 1 \in Int /\ 1 <= End(s, k) + 1 /\ End(s, k) + 1 <= Len(s) + 1
  BY <1>1
<1>3. SubSeq(s \o t, End(s, k) + 1, Len(s \o t)) = SubSeq(s, End(s, k) + 1, Len(s)) \o t
  BY <1>2, RestOfLonger
<1>4. QED BY <1>3, LongerEnds DEF Unread

LEMMA LongerLine ==
  ASSUME NEW A, NEW s \in Seq(A), NEW t \in Seq(A), NEW k \in 1..Lines(s)
  PROVE  LineOf(s \o t, k) = LineOf(s, k)
<1>1. Lines(s) \in Nat /\ Len(s) \in Nat /\ s \o t \in Seq(A)
  BY DelimsAre, ConcatProperties
<1>2. k - 1 \in 0..Lines(s) /\ k \in 0..Lines(s) /\ k # 0
  BY <1>1
<1> DEFINE a == End(s, k - 1) + 1
           b == Nth(Delims(s), k) - 1
<1>3. a \in Int /\ 1 <= a
  <2>1. End(s, k - 1) \in Nat
    BY <1>2, LineEnds
  <2>2. QED BY <2>1
<1>4. b \in Int /\ b <= Len(s)
  <2>1. Nth(Delims(s), k) \in Delims(s)
    BY <1>2, LineEnds
  <2>2. Nth(Delims(s), k) \in Nat /\ Nth(Delims(s), k) <= Len(s) - 1
    BY <2>1, DelimsAre
  <2>3. QED BY <2>2, <1>1
<1>5. LineOf(s, k) = SubSeq(s, a, b)
  BY LineIs
<1>6. LineOf(s \o t, k) = SubSeq(s \o t, a, b)
  <2>1. Lines(s) <= Lines(s \o t) /\ Lines(s \o t) \in Nat
    BY <1>1, LongerDelims, DelimsAre
  <2>2. k \in 1..Lines(s \o t)
    BY <2>1, <1>1
  <2>3. End(s \o t, k - 1) = End(s, k - 1) /\ Nth(Delims(s \o t), k) = Nth(Delims(s), k)
    BY <1>2, LongerEnds
  <2>4. LineOf(s \o t, k) = SubSeq(s \o t, End(s \o t, k - 1) + 1, Nth(Delims(s \o t), k) - 1)
    BY <1>1, <2>2, LineIs
  <2>5. QED BY <2>3, <2>4
<1> HIDE DEF a, b
<1>7. SubSeq(s \o t, a, b) = SubSeq(s, a, b)
  BY <1>3, <1>4, PieceOfLonger
<1>8. QED BY <1>5, <1>6, <1>7

(* Where a line ends there are as many delimiters behind as there are lines,*)
(* and what is left has the other ones.                                     *)
LEMMA EndRanks ==
  ASSUME NEW A, NEW s \in Seq(A), NEW k \in 0..Lines(s)
  PROVE  Rank(Delims(s), End(s, k)) = k /\ End(s, k) \notin Delims(s)
<1>1. Len(s) \in Nat /\ \A i \in Delims(s) : i \in Nat /\ 1 <= i /\ i <= Len(s) - 1
  BY DelimsAre
<1>2. CASE k = 0
  <2>1. {j \in Delims(s) : j <= 0} = {}
    BY <1>1
  <2>2. Rank(Delims(s), 0) = 0
    BY <2>1, FS_EmptySet DEF Rank
  <2>3. 0 \notin Delims(s)
    BY <1>1
  <2>4. QED BY <2>2, <2>3, <1>2 DEF End
<1>3. CASE k # 0
  <2> DEFINE i == Nth(Delims(s), k)
  <2>1. i \in Delims(s) /\ Rank(Delims(s), i) = k /\ End(s, k) = i + 1
    BY <1>3, LineEnds DEF End
  <2> HIDE DEF i
  <2>2. i + 1 \notin Delims(s)
    BY <2>1 DEF Delims, CR, LF
  <2>3. \A j \in Delims(s) : j <= i + 1 <=> j <= i
    <3> SUFFICES ASSUME NEW j \in Delims(s) PROVE j <= i + 1 <=> j <= i
      OBVIOUS
    <3>1. j # i + 1 /\ j \in Nat /\ i \in Nat
      BY <2>1, <2>2, <1>1
    <3>2. QED BY <3>1
  <2>4. {j \in Delims(s) : j <= i + 1} = {j \in Delims(s) : j <= i}
    BY <2>3
  <2>5. QED BY <2>1, <2>2, <2>4 DEF Rank
<1>4. QED BY <1>2, <1>3

LEMMA RestIs ==
  ASSUME NEW A, NEW s \in Seq(A), NEW k \in 0..Lines(s)
  PROVE  /\ Unread(s, k) \in Seq(A) /\ Len(Unread(s, k)) = Len(s) - End(s, k)
         /\ \A i \in Int : i \in Delims(Unread(s, k)) <=> i >= 1 /\ End(s, k) + i \in Delims(s)
<1> DEFINE e == End(s, k)
           r == Unread(s, k)
<1>1. e \in Nat /\ e <= Len(s) /\ Len(s) \in Nat
  BY LineEnds, LenProperties
<1>2. r = SubSeq(s, e + 1, Len(s))
  BY DEF Unread
<1> HIDE DEF e, r
<1>3. e + 1 \in Int /\ Len(s) \in Int /\ 1 <= e + 1 /\ Len(s) <= Len(s)
  BY <1>1
<1> DEFINE u == SubSeq(s, e + 1, Len(s))
<1>4. /\ u \in Seq(A) /\ Len(u) = IF e + 1 <= Len(s) THEN Len(s) - (e + 1) + 1 ELSE 0
      /\ \A i \in 1..(Len(s) - (e + 1) + 1) : u[i] = s[e + 1 + i - 1]
  BY <1>3, PieceIs
<1> HIDE DEF u
<1>5. u = r
  BY <1>2 DEF u
<1>6. r \in Seq(A) /\ Len(r) = Len(s) - e
  BY <1>1, <1>4, <1>5
<1>7. \A i \in 1..(Len(s) - e) : r[i] = s[e + i]
  <2> SUFFICES ASSUME NEW i \in 1..(Len(s) - e) PROVE r[i] = s[e + i]
    OBVIOUS
  <2>1. i \in 1..(Len(s) - (e + 1) + 1) /\ e + 1 + i - 1 = e + i
    BY <1>1
  <2>2. QED BY <2>1, <1>4, <1>5
<1>8. ASSUME NEW i \in Int PROVE i \in Delims(r) <=> i >= 1 /\ e + i \in Delims(s)
  <2>1. CASE ~(i >= 1) \/ i > Len(s) - e - 1
    <3>1. i \notin 1..(Len(r) - 1)
      BY <2>1, <1>1, <1>6
    <3>2. i >= 1 => e + i \notin 1..(Len(s) - 1)
      BY <2>1, <1>1
    <3>3. QED BY <3>1, <3>2 DEF Delims
  <2>2. CASE i >= 1 /\ i <= Len(s) - e - 1
    <3>1. i \in 1..(Len(r) - 1) /\ e + i \in 1..(Len(s) - 1)
      BY <2>2, <1>1, <1>6
    <3>2. i \in 1..(Len(s) - e) /\ i + 1 \in 1..(Len(s) - e) /\ e + (i + 1) = (e + i) + 1
      BY <2>2, <1>1
    <3>3. r[i] = s[e + i] /\ r[i + 1] = s[(e + i) + 1]
      BY <3>2, <1>7
    <3>4. QED BY <3>1, <3>3, <2>2 DEF Delims
  <2>3. QED BY <2>1, <2>2, <1>1
<1>9. QED BY <1>6, <1>8 DEF e, r

(* parse_delimiter finds the lines one after the other.                     *)
LEMMA NextLine ==
  ASSUME NEW A, NEW s \in Seq(A), NEW k \in 0..Lines(s), Delim(Unread(s, k)) # 0
  PROVE  /\ k + 1 \in 1..Lines(s)
         /\ LineOf(s, k + 1) = SubSeq(Unread(s, k), 1, Delim(Unread(s, k)) - 1)
         /\ Unread(s, k + 1) = SubSeq(Unread(s, k), Delim(Unread(s, k)) + 2, Len(Unread(s, k)))
<1> DEFINE e == End(s, k)
           r == Unread(s, k)
           d == Delim(r)
           x == e + d
           D == Delims(s)
<1>1. e \in Nat /\ e <= Len(s) /\ Len(s) \in Nat /\ D \in SUBSET (1..Len(s)) /\ Lines(s) \in Nat
      /\ (\A j \in D : j \in Nat) /\ IsFiniteSet(D)
  BY LineEnds, DelimsAre, PositionsAreFinite
<1>2. /\ r \in Seq(A) /\ Len(r) = Len(s) - e
      /\ \A i \in Int : i \in Delims(r) <=> i >= 1 /\ e + i \in D
  BY RestIs
<1>3. d \in Delims(r) /\ \A j \in Delims(r) : d <= j
  BY <1>2, DelimIs
<1>4. d \in Nat /\ 1 <= d /\ d <= Len(r) - 1
  BY <1>2, <1>3, DelimsAre
<1>5. Rank(D, e) = k
  BY EndRanks
<1> HIDE DEF e, d, D
<1>6. x \in D /\ x \in Nat /\ x > e
  BY <1>1, <1>2, <1>3, <1>4
<1>7. \A j \in D : j <= x => j <= e \/ j = x
  <2> SUFFICES ASSUME NEW j \in D, j <= x, ~(j <= e) PROVE j = x
    OBVIOUS
  <2>1. j \in Nat /\ j - e \in Int /\ j - e >= 1 /\ e + (j - e) = j
    BY <1>1
  <2>2. j - e \in Delims(r)
    BY <2>1, <1>2
  <2>3. d <= j - e
    BY <2>2, <1>3
  <2>4. QED BY <2>1, <2>3, <1>1, <1>4
<1> DEFINE U == {j \in D : j <= e}
<1>8. {j \in D : j <= x} = U \cup {x} /\ x \notin U
  <2>1. \A j \in D : j <= e => j <= x
    BY <1>1, <1>6
  <2>2. x \notin U /\ x <= x
    BY <1>1, <1>6
  <2>3. QED BY <2>1, <2>2, <1>6, <1>7
<1>9. IsFiniteSet(U) /\ Cardinality(U) = k
  <2>1. IsFiniteSet(U)
    BY <1>1, FS_Subset
  <2>2. QED BY <2>1, <1>5 DEF Rank
<1>10. Rank(D, x) = k + 1
  <2> HIDE DEF U, x
  <2>1. Cardinality(U \cup {x}) = Cardinality(U) + 1
    BY <1>8, <1>9, FS_AddElement
  <2>2. QED BY <2>1, <1>8, <1>9 DEF Rank
<1>11. k + 1 \in 1..Lines(s)
  <2>1. Rank(D, x) <= Lines(s)
    BY <1>1, PositionsAreFinite DEF Lines, D
  <2>2. QED BY <2>1, <1>10, <1>1
<1>12. Nth(D, k + 1) = x
  <2> HIDE DEF x
  <2>1. Nth(D, Rank(D, x)) = x
    BY <1>1, <1>6, NthIs
  <2>2. QED BY <2>1, <1>10
<1>13. LineOf(s, k + 1) = SubSeq(r, 1, d - 1)
  <2>1. (k + 1) - 1 = k
    OBVIOUS
  <2>2. LineOf(s, k + 1) = SubSeq(s, End(s, (k + 1) - 1) + 1, Nth(Delims(s), k + 1) - 1)
    BY <1>11, LineIs
  <2>3. LineOf(s, k + 1) = SubSeq(s, e + 1, x - 1)
    BY <2>1, <2>2, <1>12 DEF e, D
  <2>4. e + 1 \in Int /\ Len(s) \in Int /\ 1 <= e + 1 /\ Len(s) <= Len(s) /\ 1 \in Int /\ d - 1 \in Int
        /\ 1 <= 1 /\ d - 1 <= Len(s) - (e + 1) + 1
    BY <1>1, <1>2, <1>4
  <2>5. SubSeq(SubSeq(s, e + 1, Len(s)), 1, d - 1) = SubSeq(s, e + 1 + 1 - 1, e + 1 + (d - 1) - 1)
    <3> DEFINE a == e + 1
               b == Len(s)
               i == 1
               j == d - 1
    <3>1. a \in Int /\ b \in Int /\ 1 <= a /\ b <= Len(s) /\ i \in Int /\ j \in Int /\ 1 <= i /\ j <= b - a + 1
      BY <2>4
    <3> HIDE DEF a, b, i, j
    <3>2. SubSeq(SubSeq(s, a, b), i, j) = SubSeq(s, a + i - 1, a + j - 1)
      BY <3>1, PieceOfPiece
    <3>3. QED BY ONLY <3>2 DEF a, b, i, j
  <2>6. e + 1 + 1 - 1 = e + 1 /\ e + 1 + (d - 1) - 1 = x - 1
    BY <1>1, <1>4
  <2>7. QED BY <2>3, <2>5, <2>6 DEF Unread, e
<1>14. Unread(s, k + 1) = SubSeq(r, d + 2, Len(r))
  <2>1. k + 1 # 0
    OBVIOUS
  <2>2. Unread(s, k + 1) = SubSeq(s, x + 1 + 1, Len(s))
    BY <2>1, <1>12 DEF Unread, End, D
  <2>3. e + 1 \in Int /\ Len(s) \in Int /\ 1 <= e + 1 /\ Len(s) <= Len(s) /\ d + 2 \in Int
        /\ 1 <= d + 2 /\ Len(s) - e \in Int /\ Len(s) - e <= Len(s) - (e + 1) + 1
    BY <1>1, <1>4
  <2>4. SubSeq(SubSeq(s, e + 1, Len(s)), d + 2, Len(s) - e)
          = SubSeq(s, e + 1 + (d + 2) - 1, e + 1 + (Len(s) - e) - 1)
    <3> DEFINE a == e + 1
               b == Len(s)
               i == d + 2
               j == Len(s) - e
    <3>1. a \in Int /\ b \in Int /\ 1 <= a /\ b <= Len(s) /\ i \in Int /\ j \in Int /\ 1 <= i /\ j <= b - a + 1
      BY <2>3
    <3> HIDE DEF a, b, i, j
    <3>2. SubSeq(SubSeq(s, a, b), i, j) = SubSeq(s, a + i - 1, a + j - 1)
      BY <3>1, PieceOfPiece
    <3>3. QED BY ONLY <3>2 DEF a, b, i, j
  <2>5. e + 1 + (d + 2) - 1 = x + 1 + 1 /\ e + 1 + (Len(s) - e) - 1 = Len(s)
    BY <1>1, <1>4
  <2>6. r = SubSeq(s, e + 1, Len(s))
    BY DEF Unread, e
  <2> HIDE DEF r, x
  <2>7. SubSeq(r, d + 2, Len(r)) = SubSeq(s, x + 1 + 1, Len(s))
    BY <2>4, <2>5, <2>6, <1>2
  <2>8. QED BY <2>2, <2>7
<1>15. QED BY <1>11, <1>13, <1>14 DEF d

(* Without a delimiter in what is left all lines have been found.           *)
LEMMA LastLine ==
  ASSUME NEW A, NEW s \in Seq(A), NEW k \in 0..Lines(s), Delims(Unread(s, k)) = {}
  PROVE  Lines(s) = k /\ AfterLast(s) = Unread(s, k)
<1> DEFINE e == End(s, k)
           D == Delims(s)
<1>1. e \in Nat /\ e <= Len(s) /\ Len(s) \in Nat /\ (\A j \in D : j \in Nat)
  BY LineEnds, DelimsAre
<1>2. Rank(D, e) = k /\ e \notin D
  BY EndRanks
<1>3. \A i \in Int : ~(i >= 1 /\ e + i \in D)
  BY RestIs
<1> HIDE DEF e, D
<1>4. \A j \in D : j <= e - 1
  <2> SUFFICES ASSUME NEW j \in D, ~(j <= e - 1) PROVE FALSE
    OBVIOUS
  <2>1. j \in Nat /\ j # e
    BY <1>1, <1>2
  <2>2. j - e \in Int /\ j - e >= 1 /\ e + (j - e) = j
    BY <2>1, <1>1
  <2>3. QED BY <2>2, <1>3
<1>5. Lines(s) = k
  <2>1. \A j \in D : j <= e
    BY <1>1, <1>4
  <2>2. {j \in D : j <= e} = D
    BY <2>1
  <2>3. QED BY <2>2, <1>2 DEF Rank, Lines, D
<1>6. CASE k = 0
  <2>1. D = {}
    <3>1. IsFiniteSet(D)
      BY DelimsAre, PositionsAreFinite DEF D
    <3>2. Cardinality(D) = 0
      BY <1>5, <1>6 DEF Lines, D
    <3>3. QED BY <3>1, <3>2, FS_EmptySet
  <2>2. AfterLast(s) = s
    BY <2>1 DEF AfterLast, D
  <2>3. Unread(s, k) = SubSeq(s, 0 + 1, Len(s))
    BY <1>6 DEF Unread, End
  <2>4. SubSeq(s, 1, Len(s)) = s
    BY SubSeqFull
  <2>5. QED BY <1>5, <2>2, <2>3, <2>4
<1>7. CASE k # 0
  <2> DEFINE i == Nth(D, k)
             m == CHOOSE l \in D : \A j \in D : j <= l
  <2>1. i \in D /\ e = i + 1
    BY <1>7, LineEnds DEF e, D, End
  <2> HIDE DEF i
  <2>2. i \in Nat /\ \A j \in D : j <= i
    <3>1. i \in Nat /\ e - 1 = i
      BY <2>1, <1>1
    <3>2. QED BY <3>1, <1>4
  <2>3. m \in D /\ \A j \in D : j <= m
    BY <2>1, <2>2
  <2> HIDE DEF m
  <2>4. m = i
    <3>1. m <= i /\ i <= m /\ m \in Nat
      BY <2>1, <2>2, <2>3, <1>1
    <3>2. QED BY <3>1, <2>2
  <2>5. AfterLast(s) = SubSeq(s, 2 + m, Len(s))
    BY <2>1 DEF AfterLast, m, D
  <2>6. Unread(s, k) = SubSeq(s, e + 1, Len(s)) /\ e + 1 = 2 + m
    BY <2>1, <2>2, <2>4 DEF Unread, e
  <2>7. QED BY <1>5, <2>5, <2>6
<1>8. QED BY <1>6, <1>7

-----------------------------------------------------------------------------
(* What the lines of a text ask for, one after the other.                   *)
IsObeyed(after, s, n) ==
  after = [k \in 0..n |-> IF k = 0 THEN Start ELSE Obey(after[k - 1], Words(LineOf(s, k)))]

LEMMA ObeyedExists ==
  ASSUME NEW s, NEW l \in Nat
  PROVE  \E after : IsObeyed(after, s, l)
<1> DEFINE next(m, k) == Obey(m, Words(LineOf(s, k)))
           Some(n) == \E after : IsObeyed(after, s, n)
           T == {n \in Nat : Some(n)}
<1>1. Some(0)
  <2> DEFINE a == [k \in 0..0 |-> Start]
  <2>1. a = [k \in 0..0 |-> IF k = 0 THEN Start ELSE Obey(a[k - 1], Words(LineOf(s, k)))]
    OBVIOUS
  <2>2. QED BY <2>1 DEF IsObeyed
<1>2. ASSUME NEW n \in T PROVE Some(n + 1)
  <2>1. PICK a : a = [k \in 0..n |-> IF k = 0 THEN Start ELSE next(a[k - 1], k)]
    BY DEF T, IsObeyed
  <2> DEFINE b == [k \in 0..(n + 1) |-> IF k = n + 1 THEN next(a[n], n + 1) ELSE a[k]]
  <2> HIDE DEF next
  <2>2. n \in Nat
    OBVIOUS
  <2>3. ASSUME NEW k \in 0..(n + 1)
        PROVE  b[k] = IF k = 0 THEN Start ELSE next(b[k - 1], k)
    <3>1. CASE k = 0
      BY <3>1, <2>1, <2>2
    <3>2. CASE k # 0 /\ k <= n
      <4>1. b[k] = a[k] /\ b[k - 1] = a[k - 1]
        BY <3>2, <2>2
      <4>2. a[k] = next(a[k - 1], k)
        BY <3>2, <2>1, <2>2
      <4>3. QED BY <4>1, <4>2, <3>2
    <3>3. CASE k = n + 1
      <4>1. b[k - 1] = a[n] /\ b[k] = next(a[n], n + 1) /\ k # 0
        BY <3>3, <2>2
      <4>2. QED BY <4>1, <3>3
    <3>4. QED BY <3>1, <3>2, <3>3, <2>2
  <2>4. b = [k \in 0..(n + 1) |-> b[k]]
    OBVIOUS
  <2> HIDE DEF b
  <2>5. b = [k \in 0..(n + 1) |-> IF k = 0 THEN Start ELSE next(b[k - 1], k)]
    BY <2>3, <2>4
  <2>6. QED BY <2>5 DEF IsObeyed, next
<1> HIDE DEF Some
<1>3. 0 \in T /\ \A n \in T : n + 1 \in T
  BY <1>1, <1>2
<1>4. T = Nat
  BY <1>3, Induct
<1>5. Some(l)
  BY <1>4
<1>6. QED BY <1>5 DEF Some

LEMMA ObeyedIs ==
  ASSUME NEW A, NEW s \in Seq(A)
  PROVE  /\ Obeyed(s)[0] = Start
         /\ \A k \in 1..Lines(s) : Obeyed(s)[k] = Obey(Obeyed(s)[k - 1], Words(LineOf(s, k)))
<1> DEFINE next(m, k) == Obey(m, Words(LineOf(s, k)))
           after == CHOOSE f : IsObeyed(f, s, Lines(s))
<1>1. Lines(s) \in Nat
  BY DelimsAre
<1>2. Obeyed(s) = after
  BY DEF Obeyed, IsObeyed, Lines
<1>3. IsObeyed(after, s, Lines(s))
  <2>1. \E f : IsObeyed(f, s, Lines(s))
    BY <1>1, ObeyedExists
  <2>2. QED BY <2>1
<1> HIDE DEF after
<1>4. after = [k \in 0..Lines(s) |-> IF k = 0 THEN Start ELSE next(after[k - 1], k)]
  BY <1>3 DEF IsObeyed
<1> HIDE DEF next
<1>5. 0 \in 0..Lines(s) /\ \A k \in 1..Lines(s) : k \in 0..Lines(s) /\ k # 0
  BY <1>1
<1>6. after[0] = Start /\ \A k \in 1..Lines(s) : after[k] = next(after[k - 1], k)
  BY <1>4, <1>5
<1>7. QED BY <1>2, <1>6 DEF next

LEMMA LongerObeyed ==
  ASSUME NEW A, NEW s \in Seq(A), NEW t \in Seq(A), NEW l \in 0..Lines(s)
  PROVE  Obeyed(s \o t)[l] = Obeyed(s)[l]
<1> DEFINE Same(k) == k > Lines(s) \/ Obeyed(s \o t)[k] = Obeyed(s)[k]
           T == {k \in Nat : Same(k)}
<1>1. s \o t \in Seq(A) /\ Lines(s) \in Nat /\ Lines(s \o t) \in Nat /\ Lines(s) <= Lines(s \o t)
  <2>1. s \o t \in Seq(A)
    BY ConcatProperties
  <2>2. Lines(s) \in Nat /\ Lines(s) <= Lines(s \o t)
    BY DelimsAre, LongerDelims
  <2> DEFINE u == s \o t
  <2>3. u \in Seq(A)
    BY <2>1
  <2> HIDE DEF u
  <2>4. Lines(u) \in Nat
    BY <2>3, DelimsAre
  <2>5. QED BY <2>1, <2>2, <2>4 DEF u
<1>2. Obeyed(s \o t)[0] = Obeyed(s)[0]
  BY <1>1, ObeyedIs
<1>3. ASSUME NEW k \in T, k + 1 <= Lines(s)
      PROVE  Obeyed(s \o t)[k + 1] = Obeyed(s)[k + 1]
  <2>1. k \in Nat /\ k + 1 \in 1..Lines(s) /\ k + 1 \in 1..Lines(s \o t) /\ (k + 1) - 1 = k
    BY <1>1, <1>3
  <2>2. Obeyed(s \o t)[k] = Obeyed(s)[k]
    BY <1>1, <1>3, <2>1
  <2>3. Obeyed(s)[k + 1] = Obey(Obeyed(s)[k], Words(LineOf(s, k + 1)))
    <3>1. Obeyed(s)[k + 1] = Obey(Obeyed(s)[(k + 1) - 1], Words(LineOf(s, k + 1)))
      BY <2>1, ObeyedIs
    <3>2. QED BY <3>1, <2>1
  <2>4. Obeyed(s \o t)[k + 1] = Obey(Obeyed(s \o t)[k], Words(LineOf(s \o t, k + 1)))
    <3>1. Obeyed(s \o t)[k + 1] = Obey(Obeyed(s \o t)[(k + 1) - 1], Words(LineOf(s \o t, k + 1)))
      BY <1>1, <2>1, ObeyedIs
    <3>2. QED BY <3>1, <2>1
  <2>5. LineOf(s \o t, k + 1) = LineOf(s, k + 1)
    BY <2>1, LongerLine
  <2>6. QED BY <2>2, <2>3, <2>4, <2>5
<1>4. 0 \in T /\ \A k \in T : k + 1 \in T
  <2>1. ASSUME NEW k \in T PROVE k + 1 \in T
    <3>1. k \in Nat /\ k + 1 \in Nat
      OBVIOUS
    <3>2. k + 1 <= Lines(s) \/ k + 1 > Lines(s)
      BY <3>1, <1>1
    <3>3. QED BY <3>1, <3>2, <1>3
  <2>2. QED BY <1>2, <2>1
<1> HIDE DEF Same
<1>5. T = Nat
  BY <1>4, Induct
<1>6. Same(l)
  BY <1>1, <1>5
<1>7. QED BY <1>1, <1>6 DEF Same

-----------------------------------------------------------------------------
(* The console's steps.                                                     *)
LEMMA EmptyText ==
  /\ <<>> \in Text /\ Len(<<>>) = 0 /\ Delims(<<>>) = {} /\ Lines(<<>>) = 0
  /\ Unread(<<>>, 0) = <<>> /\ Obeyed(<<>>)[0] = Start
<1>1. <<>> \in Text /\ Len(<<>>) = 0
  BY EmptySeq DEF Text
<1>2. Delims(<<>>) = {}
  <2> DEFINE e == <<>>
  <2>1. e \in Seq(Symbols \cup {"garbage"}) /\ Len(e) = 0
    BY <1>1 DEF Text
  <2> HIDE DEF e
  <2>2. Delims(e) \in SUBSET (1..Len(e))
    BY <2>1, DelimsAre
  <2>3. QED BY <2>1, <2>2 DEF e
<1>3. Lines(<<>>) = 0
  BY <1>2, FS_EmptySet DEF Lines
<1>4. Unread(<<>>, 0) = <<>>
  BY <1>1, SubSeqFull DEF Unread, End, Text
<1>5. Obeyed(<<>>)[0] = Start
  BY <1>1, ObeyedIs DEF Text
<1>6. QED BY <1>1, <1>2, <1>3, <1>4, <1>5

LEMMA TextIs ==
  ASSUME NEW s \in Text
  PROVE  /\ Len(s) \in Nat
         /\ \A t \in Text : s \o t \in Text /\ Len(s \o t) = Len(s) + Len(t)
         /\ \A a \in Nat : a >= 1 => SubSeq(s, a, Len(s)) \in Text
         /\ \A b \in Nat : b <= Len(s) => SubSeq(s, 1, b) \in Text
         /\ Delim(s) \in Nat
<1>1. s \in Seq(Symbols \cup {"garbage"}) /\ Len(s) \in Nat
  BY LenProperties DEF Text
<1>2. \A t \in Text : s \o t \in Text /\ Len(s \o t) = Len(s) + Len(t)
  BY ConcatProperties DEF Text
<1>3. ASSUME NEW a \in Nat, a >= 1 PROVE SubSeq(s, a, Len(s)) \in Text
  <2>1. a \in Int /\ Len(s) \in Int /\ 1 <= a /\ Len(s) <= Len(s)
    BY <1>1, <1>3
  <2>2. QED BY <1>1, <2>1, PieceIs DEF Text
<1>4. ASSUME NEW b \in Nat, b <= Len(s) PROVE SubSeq(s, 1, b) \in Text
  <2>1. 1 \in Int /\ b \in Int /\ 1 <= 1 /\ b <= Len(s)
    BY <1>4
  <2>2. QED BY <1>1, <2>1, PieceIs DEF Text
<1>5. Delim(s) \in Nat
  <2>1. Delim(s) # 0 => Delim(s) \in Delims(s)
    BY <1>1, DelimIs
  <2>2. \A i \in Delims(s) : i \in Nat
    BY <1>1, DelimsAre
  <2>3. QED BY <2>1, <2>2
<1>6. QED BY <1>1, <1>2, <1>3, <1>4, <1>5

LEMMA SentIsText == Seq(Symbols) \subseteq Text
<1>1. ASSUME NEW s \in Seq(Symbols) PROVE s \in Text
  <2>1. Symbols \subseteq Symbols \cup {"garbage"}
    OBVIOUS
  <2>2. QED BY <2>1, SeqMonotonic DEF Text
<1>2. QED BY <1>1

(* The steps of the shutdown outside the console's thread.                  *)
Winding == Signal \/ HttpDown \/ Served \/ MainStops \/ ModulesStop \/ StreamEnds \/ MainEnds

LEMMA TypeGoesOn ==
  ASSUME ConsoleType, ConsoleNext
  PROVE  ConsoleType'
<1> USE DEF ConsoleType
<1>e. <<>> \in Seq(Symbols) /\ <<>> \in Text
  BY EmptySeq, EmptyText
<1>1. CASE Connect
  BY <1>1, ConsoleAssumption DEF Connect, parser, session
<1>2. CASE Send
  <2>1. Append(socket, Head(unsent)) \in Seq(Symbols) /\ Tail(unsent) \in Seq(Symbols)
    <3>1. unsent # <<>>
      BY <1>2 DEF Send
    <3>2. Head(unsent) \in Symbols /\ Tail(unsent) \in Seq(Symbols)
      BY <3>1, HeadTailProperties
    <3>3. QED BY <3>2, AppendProperties
  <2>2. QED BY <1>2, <2>1 DEF Send, parser, session
<1>3. CASE Leave
  BY <1>3 DEF Leave, parser, session
<1>4. ASSUME EndSession PROVE ConsoleType'
  BY <1>4, <1>e DEF EndSession
<1>5. CASE Recv
  <2>1. Offset \in Nat /\ Offset <= Len(buf)
    BY TextIs DEF Offset
  <2>2. SubSeq(buf, 1, Offset) \in Text
    BY <2>1, TextIs
  <2>3. PICK g \in {<<>>, <<"garbage">>} : buf' = SubSeq(buf, 1, Offset) \o socket \o g
    BY <1>5 DEF Recv, Beyond
  <2>4. g \in Text
    <3>1. <<"garbage">> \in Text
      BY DEF Text
    <3>2. QED BY <3>1, <1>e
  <2>5. socket \in Text
    BY SentIsText
  <2>6. SubSeq(buf, 1, Offset) \o socket \in Text
    BY <2>2, <2>5, TextIs
  <2>7. buf' \in Text
    BY <2>3, <2>4, <2>6, TextIs
  <2>8. read' \in Text
    BY <1>5, <2>5, TextIs DEF Recv
  <2>9. spoiled' \in BOOLEAN
    BY <1>5 DEF Recv
  <2>10. QED BY <1>5, <1>e, <2>7, <2>8, <2>9 DEF Recv
<1>6. ASSUME NEW rest \in Text, Carries(rest) PROVE ConsoleType'
  BY <1>6, <1>e DEF Carries, client, session
<1>7. CASE NoToken
  BY <1>7, <1>6, <1>e DEF NoToken
<1>8. CASE CarryOver
  <2>1. SubSeq(save, 1, IF Len(save) < BuffSize THEN Len(save) ELSE BuffSize) \in Text
    <3>1. Len(save) \in Nat /\ BuffSize \in Nat
      BY TextIs, ConsoleAssumption
    <3>2. CASE Len(save) < BuffSize
      BY <3>1, <3>2, TextIs
    <3>3. CASE ~(Len(save) < BuffSize)
      <4>1. BuffSize <= Len(save)
        BY <3>1, <3>3
      <4>2. QED BY <3>1, <3>3, <4>1, TextIs
    <3>4. QED BY <3>2, <3>3
  <2>2. QED BY <1>8, <1>6, <2>1 DEF CarryOver
<1>9. CASE Cut
  <2>1. save' = SubSeq(save, Delim(save) + 2, Len(save))
    BY <1>9 DEF Cut
  <2>2. Delim(save) + 2 \in Nat /\ Delim(save) + 2 >= 1
    <3>1. Delim(save) \in Nat
      BY TextIs
    <3>2. QED BY <3>1
  <2>3. save' \in Text
    BY <2>1, <2>2, TextIs
  <2>4. QED BY <1>9, <2>3 DEF Cut, client, session
<1>10. CASE Move
  BY <1>10 DEF Move, client, parser, session
<1>11. CASE Run
  BY <1>11 DEF Run, client, parser
<1>12. CASE CallReturned
  BY <1>12 DEF CallReturned, client, parser, session
<1>13. CASE Idle
  <2>1. CASE is_connection_close_ \/ ~got
    BY <1>13, <2>1, <1>4 DEF Idle
  <2>2. CASE ~(is_connection_close_ \/ ~got)
    BY <1>13, <2>2, <1>e DEF Idle, client
  <2>3. QED BY <2>1, <2>2
<1>14. CASE IdleAccept
  BY <1>14 DEF IdleAccept, client, parser, session
<1>15. CASE Deliver \/ Spurious \/ Again
  BY <1>15 DEF Deliver, Spurious, Again, Besides, client, parser, session
<1>16. CASE Winding
  BY <1>16 DEF Winding, Signal, HttpDown, Served, MainStops, ModulesStop, StreamEnds, MainEnds, OfShutdown,
               client, parser, session
<1>17. CASE RecvFails \/ RecvEnd
  BY <1>17, <1>4 DEF RecvFails, RecvEnd
<1>18. CASE Finishes
  <2>1. <<CR, LF>> \in Seq(Symbols)
    BY DEF Symbols
  <2>2. QED BY <1>18, <2>1 DEF Finishes, parser, session
<1>19. CASE Chatter \/ Calls \/ Relents
  BY <1>19 DEF Chatter, Calls, Relents, client, parser, session
<1>20. QED
  BY <1>1, <1>2, <1>3, <1>5, <1>7, <1>8, <1>9, <1>10, <1>11, <1>12, <1>13, <1>14, <1>15, <1>16, <1>17,
     <1>18, <1>19
     DEF ConsoleNext, Winding

LEMMA RecvGoesOn ==
  ASSUME ConsoleInv, Recv
  PROVE  Sound'
<1>1. ConsoleType /\ at = "recv" /\ at' = "parse"
  BY DEF ConsoleInv, Recv
<1>2. ASSUME ~spoiled' PROVE Parsing'
  <2>1. ~spoiled /\ Len(socket) # RoomLeft
    BY <1>2 DEF Recv
  <2>2. PICK k \in 0..Lines(read) : Place = Obeyed(read)[k] /\ Kept = Unread(read, k)
    BY <1>1, <2>1 DEF ConsoleInv, Sound, Receiving, Parsed
  <2>3. socket \in Text /\ read \in Text /\ buf \in Text
    BY <1>1, SentIsText DEF ConsoleType
  <2>4. SubSeq(buf, 1, Offset) = Kept /\ Len(Kept) = Offset /\ Kept \in Text
    <3>1. CASE carried
      <4>1. SubSeq(buf, 1, Len(buf)) = buf
        BY <2>3, SubSeqFull DEF Text
      <4>2. QED BY <3>1, <4>1, <2>3 DEF Offset, Kept
    <3>2. CASE ~carried
      <4>1. SubSeq(buf, 1, 0) = <<>>
        BY <2>3, SubSeqEmpty DEF Text
      <4>2. QED BY <3>2, <4>1, EmptyText DEF Offset, Kept
    <3>3. QED BY <3>1, <3>2
  <2>5. buf' = Kept \o socket
    <3>1. buf' = SubSeq(buf, 1, Offset) \o socket \o <<>>
      BY <2>1 DEF Recv
    <3>2. Kept \o socket \in Text
      BY <2>3, <2>4, TextIs
    <3>3. (Kept \o socket) \o <<>> = Kept \o socket
      BY <3>2, ConcatEmptySeq DEF Text
    <3>4. QED BY <3>1, <3>3, <2>4
  <2>6. read' = read \o socket /\ save' = buf' /\ fresh' = TRUE
    BY DEF Recv
  <2>7. k \in 0..Lines(read') /\ Obeyed(read')[k] = Obeyed(read)[k] /\ Unread(read', k) = Unread(read, k) \o socket
    <3>1. Lines(read) \in Nat /\ Lines(read) <= Lines(read \o socket)
      BY <2>3, DelimsAre, LongerDelims DEF Text
    <3>2. Lines(read \o socket) \in Nat
      <4>1. read \o socket \in Text
        BY <2>3, TextIs
      <4> DEFINE u == read \o socket
      <4> HIDE DEF u
      <4>2. u \in Text => Lines(u) \in Nat
        BY DelimsAre DEF Text
      <4>3. QED BY <4>1, <4>2 DEF u
    <3>3. k \in 0..Lines(read \o socket)
      BY <3>1, <3>2
    <3>4. Obeyed(read \o socket)[k] = Obeyed(read)[k]
      BY <2>3, LongerObeyed DEF Text
    <3>5. Unread(read \o socket, k) = Unread(read, k) \o socket
      BY <2>3, LongerUnread DEF Text
    <3>6. QED BY <3>3, <3>4, <3>5, <2>6
  <2>8. Place' = Place
    BY DEF Recv, menu, Place
  <2>9. Len(buf') < BuffSize
    <3>1. Len(Kept) \in Nat /\ Len(socket) \in Nat /\ Len(Kept \o socket) = Len(Kept) + Len(socket)
      BY <2>3, <2>4, TextIs
    <3>2. Len(socket) < BuffSize - Offset
      BY <2>1 DEF Recv, RoomLeft
    <3>3. QED BY <3>1, <3>2, <2>4, <2>5, ConsoleAssumption
  <2>10. Place' = Obeyed(read')[k] /\ save' = Unread(read', k) /\ Len(save') < BuffSize
    BY <2>2, <2>5, <2>6, <2>7, <2>8, <2>9
  <2>11. Parsed(k, save)'
    BY <2>10 DEF Parsed
  <2>12. QED BY <2>6, <2>7, <2>11, <1>1 DEF Parsing
<1>3. QED BY <1>1, <1>2 DEF Sound, Outside, Receiving, Finding

(* What is carried over is what is left of the session.                     *)
LEMMA CarriesGoesOn ==
  ASSUME ConsoleInv, NEW rest \in Text, Carries(rest),
         at = "parse", ~spoiled => rest = save /\ Delims(rest) = {}
  PROVE  Sound'
<1>1. /\ at' = "recv" /\ buf' = rest /\ carried' = (rest # <<>>)
      /\ read' = read /\ spoiled' = spoiled /\ obeyed' = obeyed /\ table' = table /\ stack' = stack
  BY DEF Carries, menu, session
<1>2. ASSUME ~spoiled PROVE Receiving'
  <2>1. PICK k \in 0..Lines(read) : Parsed(k, save)
    BY <1>2 DEF ConsoleInv, Sound, Parsing
  <2>2. Kept' = rest
    BY <1>1 DEF Kept
  <2>3. Parsed(k, Kept)'
    BY <2>1, <2>2, <1>1, <1>2 DEF Parsed, Place
  <2>4. QED BY <2>2, <2>3, <1>1, <1>2 DEF Receiving
<1>3. QED BY <1>1, <1>2 DEF Sound, Outside, Parsing, Finding

LEMMA CutGoesOn ==
  ASSUME ConsoleInv, Cut
  PROVE  Sound'
<1>1. /\ at = "parse" /\ at' = "find" /\ fresh' = FALSE
      /\ read' = read /\ spoiled' = spoiled /\ obeyed' = obeyed /\ table' = table /\ stack' = stack
  BY DEF Cut, menu, session
<1>2. ASSUME ~spoiled PROVE Finding'
  <2>1. PICK k \in 0..Lines(read) : Parsed(k, save)
    BY <1>1, <1>2 DEF ConsoleInv, Sound, Parsing
  <2>2. read \in Text /\ save \in Text /\ save = Unread(read, k) /\ Len(save) < BuffSize /\ Place = Obeyed(read)[k]
    BY <2>1 DEF Parsed, ConsoleInv, ConsoleType
  <2> DEFINE d == Delim(save)
             line == SubSeq(save, 1, d - 1)
  <2>3. d # 0 /\ words' = Words(WithoutTailSp(WithoutHeadSp(line))) /\ save' = SubSeq(save, d + 2, Len(save))
    BY DEF Cut
  <2>4. k + 1 \in 1..Lines(read) /\ LineOf(read, k + 1) = line /\ Unread(read, k + 1) = save'
    BY <2>2, <2>3, NextLine DEF Text
  <2>5. d \in Delims(save) /\ Len(save) \in Nat /\ d \in Nat /\ d <= Len(save) - 1 /\ 1 <= d
    BY <2>2, <2>3, DelimIs, DelimsAre DEF Text
  <2> HIDE DEF d
  <2>6. line \in Text
    <3>1. d - 1 \in Nat /\ d - 1 <= Len(save)
      BY <2>5
    <3>2. QED BY <3>1, <2>2, TextIs
  <2>7. words' = Words(LineOf(read, k + 1))
    BY <2>3, <2>4, <2>6, Trimmed DEF Text
  <2>8. Len(save') < BuffSize
    <3>1. Len(save') = IF d + 2 <= Len(save) THEN Len(save) - (d + 2) + 1 ELSE 0
      <4>1. d + 2 \in Int /\ Len(save) \in Int /\ 1 <= d + 2 /\ Len(save) <= Len(save)
        BY <2>5
      <4>2. QED BY <4>1, <2>2, <2>3, PieceIs DEF Text
    <3>2. QED BY <3>1, <2>2, <2>5, ConsoleAssumption
  <2>9. (k + 1) - 1 = k
    OBVIOUS
  <2>10. /\ Place' = Obeyed(read')[(k + 1) - 1] /\ words' = Words(LineOf(read', k + 1))
         /\ save' = Unread(read', k + 1) /\ Len(save') < BuffSize /\ k + 1 \in 1..Lines(read')
    BY <2>2, <2>4, <2>7, <2>8, <2>9, <1>1 DEF Place
  <2>11. QED BY <2>10 DEF Finding
<1>3. QED BY <1>1, <1>2 DEF Sound, Outside, Receiving, Parsing

(* find_command is one Obey.                                                *)
LEMMA FindGoesOn ==
  ASSUME ConsoleInv, Move \/ Run
  PROVE  Sound'
<1>1. /\ at = "find" /\ at' \in {"parse", "call"}
      /\ read' = read /\ spoiled' = spoiled /\ save' = save /\ fresh' = fresh
  BY DEF Move, Run, parser, session
<1>2. Place' = Obey(Place, words)
  <2>1. CASE Move
    <3>1. PICK m : /\ m = Moved([table |-> table, stack |-> stack], words)
                   /\ table' = m.table /\ stack' = m.stack /\ obeyed' = obeyed /\ ~Runs(table, words)
      BY <2>1 DEF Move, session
    <3>2. QED BY <3>1 DEF Obey, Place
  <2>2. CASE Run
    <3>1. Runs(table, words) /\ obeyed' = Append(obeyed, Command(table, words)) /\ table' = table /\ stack' = stack
      BY <2>2 DEF Run, menu
    <3>2. QED BY <3>1 DEF Obey, Place
  <2>3. QED BY <2>1, <2>2
<1>3. ASSUME ~spoiled PROVE Parsing'
  <2>1. PICK k \in 1..Lines(read) :
          /\ Place = Obeyed(read)[k - 1] /\ words = Words(LineOf(read, k))
          /\ save = Unread(read, k) /\ Len(save) < BuffSize
    BY <1>1, <1>3 DEF ConsoleInv, Sound, Finding
  <2>2. read \in Text
    BY DEF ConsoleInv, ConsoleType
  <2>3. Obeyed(read)[k] = Obey(Obeyed(read)[k - 1], Words(LineOf(read, k)))
    BY <2>2, ObeyedIs DEF Text
  <2>4. Place' = Obeyed(read)[k]
    BY <1>2, <2>1, <2>3
  <2>5. k \in 0..Lines(read)
    BY <2>2, DelimsAre DEF Text
  <2>6. ~fresh
    BY <1>1, <1>3 DEF ConsoleInv, Sound, Parsing
  <2>7. Parsed(k, save)'
    BY <2>1, <2>4, <1>1 DEF Parsed
  <2>8. QED BY <2>5, <2>6, <2>7, <1>1 DEF Parsing
<1>4. QED BY <1>1, <1>3 DEF Sound, Outside, Receiving, Finding

LEMMA ConsoleBegins == ConsoleInit => ConsoleInv
<1> SUFFICES ASSUME ConsoleInit PROVE ConsoleInv
  OBVIOUS
<1>1. ConsoleType
  BY EmptySeq, EmptyText DEF ConsoleInit, ConsoleType
<1>2. QED BY <1>1 DEF ConsoleInit, ConsoleInv, Sound, Outside, Receiving, Parsing, Finding

LEMMA ConsoleGoesOn ==
  ASSUME ConsoleInv, [ConsoleNext]_allVars
  PROVE  ConsoleInv'
<1>1. ConsoleType'
  <2>1. CASE ConsoleNext
    BY <2>1, TypeGoesOn DEF ConsoleInv
  <2>2. CASE UNCHANGED allVars
    BY <2>2 DEF ConsoleInv, ConsoleType, allVars, client, parser, session
  <2>3. QED BY <2>1, <2>2
<1> SUFFICES Sound'
  BY <1>1 DEF ConsoleInv
<1>2. CASE Connect
  <2>1. /\ at = "accept" /\ at' = "recv" /\ table' = Root /\ stack' = stack /\ obeyed' = obeyed
        /\ read' = read /\ carried' = carried /\ spoiled' = spoiled
    BY <1>2 DEF Connect, parser, session
  <2>2. read' = <<>> /\ Kept' = <<>> /\ Place' = Start
    BY <2>1 DEF ConsoleInv, Sound, Outside, Kept, Place, Start
  <2>3. Parsed(0, Kept)'
    BY <2>2, EmptyText, ConsoleAssumption DEF Parsed
  <2>4. Receiving'
    <3>1. 0 \in 0..Lines(read') /\ Delims(Kept') = {}
      BY <2>2, EmptyText
    <3>2. QED BY <3>1, <2>3 DEF Receiving
  <2>5. QED BY <2>1, <2>4 DEF Sound, Outside, Parsing, Finding
<1>3. ASSUME EndSession PROVE Sound'
  BY <1>3 DEF EndSession, Sound, Outside, Receiving, Parsing, Finding
<1>4. ASSUME UNCHANGED <<at, parser, menu, session>> PROVE Sound'
  BY <1>4 DEF parser, menu, session, ConsoleInv, Sound, Outside, Receiving, Parsing, Finding, Parsed, Place, Kept
<1>5. CASE Send \/ Leave
  BY <1>4, <1>5 DEF Send, Leave
<1>6. CASE RecvFails \/ RecvEnd
  BY <1>3, <1>6 DEF RecvFails, RecvEnd
<1>7. CASE Recv
  BY <1>7, RecvGoesOn
<1>8. CASE NoToken
  <2> DEFINE rest == IF fresh THEN buf ELSE <<>>
  <2>1. at = "parse" /\ Carries(rest)
    BY <1>8 DEF NoToken
  <2>2. rest \in Text
    BY EmptyText DEF ConsoleInv, ConsoleType
  <2>3. ASSUME ~spoiled PROVE rest = save /\ Delims(rest) = {}
    <3>1. CASE fresh
      <4>1. buf = save
        BY <2>1, <2>3, <3>1 DEF ConsoleInv, Sound, Parsing
      <4>2. Delim(save) = 0 /\ save \in Text
        BY <1>8, <3>1 DEF NoToken, ConsoleInv, ConsoleType
      <4>3. Delims(save) = {}
        BY <4>2, DelimIs DEF Text
      <4>4. QED BY <4>1, <4>3, <3>1
    <3>2. CASE ~fresh
      <4>1. save = <<>>
        BY <1>8, <3>2 DEF NoToken
      <4>2. QED BY <4>1, <3>2, EmptyText
    <3>3. QED BY <3>1, <3>2
  <2> HIDE DEF rest
  <2>4. QED BY <2>1, <2>2, <2>3, CarriesGoesOn
<1>9. CASE CarryOver
  <2> DEFINE rest == SubSeq(save, 1, IF Len(save) < BuffSize THEN Len(save) ELSE BuffSize)
  <2>1. at = "parse" /\ Carries(rest) /\ Delim(save) = 0 /\ save \in Text
    BY <1>9 DEF CarryOver, ConsoleInv, ConsoleType
  <2>2. rest \in Text
    <3>1. Len(save) \in Nat /\ BuffSize \in Nat
      BY <2>1, TextIs, ConsoleAssumption
    <3> DEFINE b == IF Len(save) < BuffSize THEN Len(save) ELSE BuffSize
    <3>2. b \in Nat /\ b <= Len(save)
      BY <3>1
    <3> HIDE DEF b
    <3>3. SubSeq(save, 1, b) \in Text
      BY <2>1, <3>2, TextIs
    <3>4. QED BY <3>3 DEF b
  <2>3. ASSUME ~spoiled PROVE rest = save /\ Delims(rest) = {}
    <3>1. PICK k \in 0..Lines(read) : Parsed(k, save)
      BY <2>1, <2>3 DEF ConsoleInv, Sound, Parsing
    <3>2. Len(save) < BuffSize
      BY <3>1 DEF Parsed
    <3>3. rest = save
      BY <2>1, <3>2, SubSeqFull DEF Text
    <3>4. Delims(save) = {}
      BY <2>1, DelimIs DEF Text
    <3>5. QED BY <3>3, <3>4
  <2> HIDE DEF rest
  <2>4. QED BY <2>1, <2>2, <2>3, CarriesGoesOn
<1>10. CASE Cut
  BY <1>10, CutGoesOn
<1>11. CASE Move \/ Run
  BY <1>11, FindGoesOn
<1>12. CASE CallReturned
  <2>1. at = "call" /\ at' = "parse" /\ UNCHANGED <<parser, menu, session>>
    BY <1>12 DEF CallReturned
  <2>2. QED BY <2>1 DEF parser, menu, session, ConsoleInv, Sound, Outside, Receiving, Parsing, Finding, Parsed, Place
<1>13. CASE Idle
  <2>1. CASE is_connection_close_ \/ ~got
    BY <1>13, <2>1, <1>3 DEF Idle
  <2>2. CASE ~(is_connection_close_ \/ ~got)
    BY <1>13, <2>2 DEF Idle, ConsoleInv, Sound, Outside, Receiving, Parsing, Finding
  <2>3. QED BY <2>1, <2>2
<1>14. CASE IdleAccept
  BY <1>14 DEF IdleAccept, parser, menu, session, ConsoleInv, Sound, Outside, Receiving, Parsing, Finding
<1>15. CASE Deliver \/ Spurious \/ Again
  BY <1>4, <1>15 DEF Deliver, Spurious, Again, Besides
<1>16. CASE Winding
  BY <1>4, <1>16 DEF Winding, Signal, HttpDown, Served, MainStops, ModulesStop, StreamEnds, MainEnds, OfShutdown
<1>17. CASE UNCHANGED allVars
  BY <1>4, <1>17 DEF allVars
<1>18. CASE Chatter
  BY <1>18 DEF Chatter, menu, session, ConsoleInv, Sound, Outside, Receiving, Parsing, Finding, Parsed,
               Place, Kept
<1>19. CASE Finishes \/ Relents
  BY <1>4, <1>19 DEF Finishes, Relents
<1>20. CASE Calls
  BY <1>20 DEF Calls, parser, session, ConsoleInv, Sound, Outside, Receiving, Parsing, Finding
<1>21. QED
  BY <1>2, <1>5, <1>6, <1>7, <1>8, <1>9, <1>10, <1>11, <1>12, <1>13, <1>14, <1>15, <1>16, <1>17, <1>18,
     <1>19, <1>20
     DEF ConsoleNext, Winding

(* However the bytes of a session are cut by recv and by the buffer, what   *)
(* was run, the position in the tables and what is kept for the next read   *)
(* are those of the whole text so far (recv_parse_delimiter,                *)
(* parse_delimiter, find_command), until a read fills the buffer.           *)
THEOREM SessionIsItsText == ConsoleSpec => []LinesAreObeyed
<1>1. ConsoleInv => LinesAreObeyed
  <2> SUFFICES ASSUME ConsoleInv, at = "recv", ~spoiled PROVE LinesAreObeyed
    BY DEF LinesAreObeyed
  <2>1. PICK k \in 0..Lines(read) : Parsed(k, Kept) /\ Delims(Kept) = {}
    BY DEF ConsoleInv, Sound, Receiving
  <2>2. Lines(read) = k /\ AfterLast(read) = Kept
    BY <2>1, LastLine DEF Parsed, ConsoleInv, ConsoleType, Text
  <2>3. Place = Asked(read)
    BY <2>1, <2>2 DEF Parsed, Asked, Lines
  <2>4. QED BY <2>2, <2>3 DEF LinesAreObeyed, Place, Kept
<1>2. ConsoleInv /\ [ConsoleNext]_allVars => ConsoleInv'
  BY ConsoleGoesOn
<1>3. QED BY ConsoleBegins, <1>1, <1>2, PTL DEF ConsoleSpec

-----------------------------------------------------------------------------
(* The console is the mailbox's one caller.                                 *)
LEMMA ConsoleCalls ==
  /\ OneCaller
  /\ ConsoleInit => MailboxInit
  /\ [ConsoleNext]_allVars => [MailboxNext]_mailbox
<1>1. OneCaller
  BY ConsoleAssumption DEF OneCaller
<1>2. ConsoleInit => MailboxInit
  BY DEF ConsoleInit
<1>3. ASSUME [ConsoleNext]_allVars PROVE [MailboxNext]_mailbox
  <2>c. console \in Callers
    BY ConsoleAssumption
  <2>1. CASE Run
    <3>1. RequestSync(console) \/ ExtRequestAsync \/ UNCHANGED mailbox
      BY <2>1 DEF Run, mailbox
    <3>2. QED BY <3>1, <2>c DEF MailboxNext
  <2>2. CASE CallReturned \/ Deliver \/ Spurious \/ Again
    BY <2>2, <2>c DEF CallReturned, Deliver, Spurious, Again, MailboxNext
  <2>3. CASE Connect \/ Send \/ Leave \/ RecvFails \/ Recv \/ RecvEnd \/ NoToken \/ CarryOver \/ Cut
             \/ Move \/ Idle \/ IdleAccept \/ Chatter \/ Finishes \/ Calls \/ Relents
    BY <2>3 DEF Connect, Send, Leave, RecvFails, Recv, RecvEnd, NoToken, CarryOver, Carries, Cut,
                Move, Idle, IdleAccept, Chatter, Finishes, Calls, Relents, mailbox
  <2>4. CASE Winding \/ UNCHANGED allVars
    BY <2>4 DEF Winding, Signal, HttpDown, Served, MainStops, ModulesStop, StreamEnds, MainEnds, OfShutdown,
                allVars, mailbox
  <2>5. QED BY <1>3, <2>1, <2>2, <2>3, <2>4 DEF ConsoleNext, Winding
<1>4. QED BY <1>1, <1>2, <1>3

(* A command of the console is handed the reply to its own request, and     *)
(* while the console waits that reply is still to come, in whatever order   *)
(* modules answer, also those that were asked without waiting.              *)
THEOREM ConsoleGetsItsReply == ConsoleSpec => [](ReplyIsOwn /\ BlockedIsExpected)
<1>1. MailboxInv /\ [ConsoleNext]_allVars => MailboxInv'
  BY ConsoleCalls, MailboxGoesOn
<1>2. ConsoleInit => MailboxInv
  BY ConsoleCalls, MailboxBegins
<1>3. MailboxInv => ReplyIsOwn /\ BlockedIsExpected
  BY DEF MailboxInv, MailboxFollowsCall, BlockedIsExpected, MailboxTypeOK
<1>4. QED BY <1>1, <1>2, <1>3, PTL DEF ConsoleSpec
=============================================================================
