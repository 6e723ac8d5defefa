------------------------- MODULE TunerServiceProofs -------------------------
(***************************************************************************)
(* For any clients, modules and number of tuners: tuner_service's state    *)
(* has its type, a tuner has at most one claim on it (ExclusiveUse), the   *)
(* entry of a held tuner names the holder's module (HolderIsOwner), what   *)
(* the table says of a tuner that is used or free is what the tuner does   *)
(* (TableIsTrue), and the service is a pool of tuners (PoolSpec).          *)
(*                                                                         *)
(* The state of the queues enters only through the events in flight        *)
(* (CoseqProofs): a step takes one event out, appends one, or leaves them  *)
(* as they are.                                                            *)
(***************************************************************************)
EXTENDS TunerService, CoseqProofs

(* While the lock's fiber runs it runs for a client.                        *)
OpHasClient == op.pc # "none" => op.c \in Clients

(* Its timer is all that may have expired, and only between two polls.      *)
DueIsPolling == due # {} => op.pc = "poll_timer"

Typed == TypeOK /\ OpHasClient /\ DueIsPolling

OpType == [pc : OpPcs, c : Clients \cup {Nobody}, t : Tuners \cup {NoTuner},
           from : {"none", "request", "send", "retry"}, polls : 0..Polls]
ClType == [pc : ClientPcs, t : Tuners \cup {NoTuner}]

LocalsTyped ==
  /\ owner \in [Tuners -> Modules \cup {Nobody}]
  /\ tuned \in [Tuners -> BOOLEAN]
  /\ next_tuner \in Tuners
  /\ op \in OpType /\ OpHasClient
  /\ retry \in [Clients -> 0..NoRetry]
  /\ peer \in {"none", "tune", "get_state", "tune_stop"}
  /\ streaming \in [Tuners -> {"on", "off", "stuck"}]
  /\ cl \in [Clients -> ClType]

QueuesTyped == QueuesIn(Event) /\ due \subseteq {"op"} /\ locked_by \in {"op", NoFiber}

LEMMA TypedParts == Typed <=> LocalsTyped /\ QueuesTyped /\ DueIsPolling
BY DEF Typed, TypeOK, LocalsTyped, QueuesTyped, QueuesIn, OpType, ClType

LEMMA StartTyped ==
  ASSUME NEW seq \in {"open", "close", "tune", "tune_stop", "tune_with_retry"},
         NEW c \in Clients, NEW t \in Tuners \cup {NoTuner},
         NEW from \in {"request", "send", "retry"}
  PROVE  /\ Start(seq, c, t, from) \in Event
         /\ \A u : seq # "close" => ~Closes(Start(seq, c, t, from), u)
BY DEF Start, Event, StartEvent, Closes

LEMMA ReplyTyped ==
  ASSUME NEW f \in Clients \cup {"op"}, NEW ok \in BOOLEAN
  PROVE  /\ Reply(f, ok) \in Event
         /\ \A u : ~Closes(Reply(f, ok), u)
BY DEF Reply, Event, ReplyEvent, Closes

-----------------------------------------------------------------------------
(* The typing of the queues: what a step does to them is to begin a turn,   *)
(* to defer, to take an event and post at most one, or to post one.         *)
LEMMA ClTyped ==
  ASSUME LocalsTyped, NEW c, NEW pc \in ClientPcs, NEW t \in Tuners \cup {NoTuner},
         Goes(c, pc, t)
  PROVE  cl' \in [Clients -> ClType]
BY DEF LocalsTyped, Goes, ClType

(* What Answer posts, and that it leaves the tuner a client has alone.      *)
LEMMA AnswerDoes ==
  ASSUME LocalsTyped, NEW e, NEW ok \in BOOLEAN,
         e.c \in Clients, Answer(e, ok)
  PROVE  /\ cl' \in [Clients -> ClType]
         /\ \A c \in Clients : cl'[c].t = cl[c].t
         /\ inbox' = inbox \/ \E n \in Event : Post(<<n>>) /\ \A u : ~Closes(n, u)
<1>1. CASE e.from = "retry"
  <2>1. Post(<<Reply(e.c, ok)>>) /\ UNCHANGED cl
    BY <1>1 DEF Answer
  <2>2. Reply(e.c, ok) \in Event /\ \A u : ~Closes(Reply(e.c, ok), u)
    BY ReplyTyped
  <2>3. cl' \in [Clients -> ClType]
    BY <2>1 DEF LocalsTyped
  <2>4. QED BY <2>1, <2>2, <2>3
<1>2. CASE e.from = "request"
  <2>1. PICK pc \in ClientPcs : Goes(e.c, pc, cl[e.c].t) /\ inbox' = inbox
    BY <1>2 DEF Answer, ClientPcs
  <2>2. cl[e.c].t \in Tuners \cup {NoTuner}
    BY DEF LocalsTyped, ClType
  <2>3. \A c \in Clients : cl'[c].t = cl[c].t
    BY <2>1 DEF LocalsTyped, Goes, ClType
  <2>4. cl' \in [Clients -> ClType]
    BY <2>1, <2>2, ClTyped
  <2>5. QED BY <2>1, <2>3, <2>4
<1>3. CASE e.from \notin {"retry", "request"}
  BY <1>3 DEF Answer, LocalsTyped
<1>4. QED BY <1>1, <1>2, <1>3

-----------------------------------------------------------------------------
(* The close events in flight for tuner t.                                  *)
NoClose(q, t)  == \A i \in 1..Len(q) : ~Closes(q[i], t)
OneClose(q, t) == \A i, j \in 1..Len(q) : Closes(q[i], t) /\ Closes(q[j], t) => i = j

LEMMA RemovedCloses ==
  ASSUME NEW q \in Seq(Event), NEW r \in Seq(Event), NEW k, Removed(q, k, r), NEW t
  PROVE  /\ NoClose(q, t) => NoClose(r, t)
         /\ OneClose(q, t) => OneClose(r, t)
         /\ OneClose(q, t) /\ Closes(q[k], t) => NoClose(r, t)
<1>1. Len(q) \in Nat /\ Len(r) = Len(q) - 1 /\ k \in 1..Len(q)
  BY DEF Removed
<1> DEFINE at(i) == IF i < k THEN i ELSE i + 1
<1>2. \A i \in 1..Len(r) : at(i) \in 1..Len(q) /\ at(i) # k /\ r[i] = q[at(i)]
  BY <1>1 DEF Removed
<1>3. \A i, j \in 1..Len(r) : at(i) = at(j) => i = j
  BY <1>1
<1> HIDE DEF at
<1>4. QED BY <1>1, <1>2, <1>3 DEF NoClose, OneClose

LEMMA AppendCloses ==
  ASSUME NEW q \in Seq(Event), NEW n \in Event, NEW t
  PROVE  /\ ~Closes(n, t) => /\ NoClose(q, t) => NoClose(Append(q, n), t)
                             /\ OneClose(q, t) => OneClose(Append(q, n), t)
         /\ NoClose(q, t) => OneClose(Append(q, n), t)
<1> DEFINE p == Append(q, n)
<1>1. Len(q) \in Nat /\ Len(p) = Len(q) + 1
  BY AppendProperties
<1>2. \A i \in 1..Len(q) : p[i] = q[i]
  BY AppendProperties
<1>3. p[Len(q) + 1] = n
  BY AppendProperties
<1> HIDE DEF p
<1>4. \A i \in 1..Len(p) : i = Len(q) + 1 \/ (i \in 1..Len(q) /\ p[i] = q[i])
  <2>1. \A i \in 1..Len(p) : i = Len(q) + 1 \/ i \in 1..Len(q)
    BY <1>1
  <2>2. QED BY <1>2, <2>1
<1>5. Len(q) + 1 \in 1..Len(p) /\ p[Len(q) + 1] = n
  BY <1>1, <1>3
<1>6. NoClose(q, t) /\ ~Closes(n, t) => NoClose(p, t)
  BY <1>3, <1>4 DEF NoClose
<1>7. OneClose(q, t) /\ ~Closes(n, t) => OneClose(p, t)
  BY <1>3, <1>4 DEF OneClose
<1>8. NoClose(q, t) => OneClose(p, t)
  BY <1>3, <1>4 DEF NoClose, OneClose
<1>9. QED BY <1>6, <1>7, <1>8 DEF p

(* A step that sends no close, changes no entry's owner and gives no client *)
(* a tuner disturbs no claim.                                               *)
KeepsClosers ==
  \A t : /\ NoClose(flight, t) => NoClose(flight', t)
         /\ OneClose(flight, t) => OneClose(flight', t)
NoNewHold == \A c \in Clients : cl'[c].t \in {cl[c].t, NoTuner}
Quiet == owner' = owner /\ NoNewHold /\ KeepsClosers

QuietPost == inbox' = inbox \/ \E n \in Event : Post(<<n>>) /\ \A u : ~Closes(n, u)

LEMMA PostQuiet ==
  ASSUME QueuesIn(Event), QuietPost, batch' = batch, deferred' = deferred
  PROVE  QueuesIn(Event)' /\ KeepsClosers
<1>1. CASE inbox' = inbox
  <2>1. flight' = flight
    BY <1>1 DEF flight
  <2>2. QED BY <1>1, <2>1 DEF QueuesIn, KeepsClosers
<1>2. CASE \E n \in Event : Post(<<n>>) /\ \A u : ~Closes(n, u)
  <2>1. PICK n \in Event : Post(<<n>>) /\ \A u : ~Closes(n, u)
    BY <1>2
  <2>2. flight' = Append(flight, n) /\ QueuesIn(Event)'
    BY <2>1, PostExtends
  <2>3. flight \in Seq(Event)
    BY FlightTyped
  <2>4. ASSUME NEW t
        PROVE  /\ NoClose(flight, t) => NoClose(flight', t)
               /\ OneClose(flight, t) => OneClose(flight', t)
    BY <2>1, <2>2, <2>3, AppendCloses
  <2>5. QED BY <2>2, <2>4 DEF KeepsClosers
<1>3. QED BY <1>1, <1>2 DEF QuietPost

LEMMA TakeQuiet ==
  ASSUME QueuesIn(Event), NEW e, NEW o, Take(e, o), QuietPost
  PROVE  /\ QueuesIn(Event)' /\ KeepsClosers
         /\ e \in Event /\ \E k \in 1..Len(flight) : flight[k] = e
<1>1. /\ e \in Event /\ Rest \in Seq(Event)
      /\ \E k \in 1..Len(flight) : flight[k] = e /\ Removed(flight, k, Rest)
  BY TakeRemoves
<1>2. flight \in Seq(Event)
  BY FlightTyped
<1>3. ASSUME NEW t
      PROVE  /\ NoClose(flight, t) => NoClose(Rest, t)
             /\ OneClose(flight, t) => OneClose(Rest, t)
  BY <1>1, <1>2, RemovedCloses
<1>4. CASE inbox' = inbox
  <2>1. flight' = Rest /\ QueuesIn(Event)'
    BY <1>4, TakeOnly
  <2>2. QED BY <1>1, <1>3, <2>1 DEF KeepsClosers
<1>5. CASE \E n \in Event : Post(<<n>>) /\ \A u : ~Closes(n, u)
  <2>1. PICK n \in Event : Post(<<n>>) /\ \A u : ~Closes(n, u)
    BY <1>5
  <2>2. flight' = Append(Rest, n) /\ QueuesIn(Event)'
    BY <2>1, TakeAndPost
  <2>3. ASSUME NEW t
        PROVE  /\ NoClose(flight, t) => NoClose(flight', t)
               /\ OneClose(flight, t) => OneClose(flight', t)
    BY <1>1, <1>3, <2>1, <2>2, AppendCloses
  <2>4. QED BY <1>1, <2>2, <2>3 DEF KeepsClosers
<1>6. QED BY <1>4, <1>5 DEF QuietPost

LEMMA EventFields ==
  ASSUME NEW e \in Event
  PROVE  /\ e.type = "START" => /\ e.c \in Clients /\ e.t \in Tuners \cup {NoTuner}
                                /\ e.from \in {"request", "send", "retry"}
         /\ e.type = "REPLY" => e.to \in Clients \cup {"op"} /\ e.ok \in BOOLEAN
BY DEF Event, StartEvent, ReplyEvent

(* What the two kinds of quiet step have to show: a handler, and a step     *)
(* outside the event pass.                                                  *)
QuietLocals ==
  /\ LocalsTyped'
  /\ locked_by' \in {"op", NoFiber}
  /\ owner' = owner
  /\ NoNewHold

LEMMA HandlerQuiet ==
  ASSUME Typed, NEW e, NEW o, Take(e, o), QuietPost, QuietLocals
  PROVE  Typed' /\ Quiet
<1>1. QueuesIn(Event)' /\ KeepsClosers
  BY TakeQuiet, TypedParts DEF QueuesTyped
<1>2. due' = {} /\ DueIsPolling'
  BY DEF Take, EventIs, DueIsPolling
<1>3. Typed'
  BY <1>1, <1>2
     DEF QuietLocals, Typed, TypeOK, LocalsTyped, QueuesIn, OpType, ClType
<1>4. QED BY <1>1, <1>3 DEF Quiet, QuietLocals

LEMMA PosterQuiet ==
  ASSUME Typed, batch' = batch, deferred' = deferred, due' \subseteq {"op"}, DueIsPolling',
         QuietPost, QuietLocals
  PROVE  Typed' /\ Quiet
<1>1. QueuesIn(Event)' /\ KeepsClosers
  BY PostQuiet, TypedParts DEF QueuesTyped
<1>2. Typed'
  BY <1>1, TypedParts DEF QuietLocals, Typed, TypeOK, LocalsTyped, QueuesIn, OpType, ClType
<1>3. QED BY <1>1, <1>2 DEF Quiet, QuietLocals

(* The four steps of a client that ask for something other than close.      *)
QuietClient(c) == ClientOpen(c) \/ ClientTune(c) \/ ScanStop(c) \/ SendStop(c)

LEMMA ClientIsQuiet ==
  ASSUME Typed, NEW c \in Clients, QuietClient(c)
  PROVE  Typed' /\ Quiet
<1>1. /\ LocalsTyped /\ locked_by \in {"op", NoFiber} /\ due \subseteq {"op"}
      /\ cl[c].t \in Tuners \cup {NoTuner}
  BY TypedParts DEF QueuesTyped, LocalsTyped, ClType
<1>2. Unscheduled
  BY DEF QuietClient, ClientOpen, ClientTune, ScanStop, SendStop
<1>3. \E pc \in ClientPcs, t \in {cl[c].t, NoTuner} : Goes(c, pc, t)
  BY DEF QuietClient, ClientOpen, ClientTune, ScanStop, SendStop, ClientPcs
<1>4. cl' \in [Clients -> ClType] /\ NoNewHold
  BY <1>1, <1>3 DEF LocalsTyped, ClType, Goes, NoNewHold
<1>5. QuietPost
  <2>1. CASE ClientOpen(c)
    BY <2>1, StartTyped DEF ClientOpen, QuietPost
  <2>2. CASE ClientTune(c)
    BY <2>2, <1>1, StartTyped DEF ClientTune, QuietPost
  <2>3. CASE ScanStop(c)
    BY <2>3, <1>1, StartTyped DEF ScanStop, QuietPost
  <2>4. CASE SendStop(c)
    BY <2>4, <1>1, StartTyped DEF SendStop, QuietPost
  <2>5. QED BY <2>1, <2>2, <2>3, <2>4 DEF QuietClient
<1>6. QuietLocals
  BY <1>1, <1>2, <1>4 DEF Unscheduled, table, QuietLocals, LocalsTyped, OpHasClient
<1>7. DueIsPolling'
  BY <1>2, TypedParts DEF Unscheduled, DueIsPolling
<1>8. QED BY <1>1, <1>2, <1>5, <1>6, <1>7, PosterQuiet DEF Unscheduled

LEMMA PeerIsQuiet ==
  ASSUME Typed, NEW ok \in BOOLEAN, PeerAnswers(ok)
  PROVE  Typed' /\ Quiet
<1>1. LocalsTyped /\ locked_by \in {"op", NoFiber} /\ due \subseteq {"op"}
  BY TypedParts DEF QueuesTyped
<1>2. QuietPost
  BY ReplyTyped DEF PeerAnswers, QuietPost
<1>3. streaming' \in [Tuners -> {"on", "off", "stuck"}]
  <2>1. CASE peer = "tune"
    BY <1>1, <2>1 DEF PeerAnswers, LocalsTyped
  <2>2. CASE peer = "tune_stop"
    BY <1>1, <2>2 DEF PeerAnswers, LocalsTyped
  <2>3. CASE peer \notin {"tune", "tune_stop"}
    BY <1>1, <2>3 DEF PeerAnswers, LocalsTyped
  <2>4. QED BY <2>1, <2>2, <2>3
<1>4. QuietLocals
  BY <1>1, <1>3 DEF PeerAnswers, table, QuietLocals, LocalsTyped, OpHasClient, NoNewHold
<1>5. DueIsPolling'
  BY TypedParts DEF PeerAnswers, DueIsPolling
<1>6. QED BY <1>1, <1>2, <1>4, <1>5, PosterQuiet DEF PeerAnswers

(* Steps of the scheduler that handle no event.                             *)
LEMMA TurnIsQuiet ==
  ASSUME Typed, Turn
  PROVE  Typed' /\ Quiet
<1>1. PICK expired \in SUBSET {"op"} :
        BeginTurn(expired) /\ (expired # {} => op.pc = "poll_timer")
  BY DEF Turn
<1>2. flight' = flight /\ QueuesIn(Event)'
  BY <1>1, TypedParts, TurnKeeps DEF QueuesTyped
<1>3. due' \subseteq {"op"} /\ locked_by' = locked_by /\ DueIsPolling'
  BY <1>1 DEF BeginTurn, Turn, DueIsPolling
<1>4. QED BY <1>2, <1>3
          DEF Turn, table, Quiet, NoNewHold, KeepsClosers,
              Typed, TypeOK, OpHasClient, QueuesIn

LEMMA DeferIsQuiet ==
  ASSUME Typed, NEW e, DeferEvent(e)
  PROVE  Typed' /\ Quiet
<1>1. Defer(e, Owner(e))
  BY DEF DeferEvent
<1>2. flight' = flight /\ QueuesIn(Event)'
  BY <1>1, TypedParts, DeferKeeps DEF QueuesTyped
<1>3. due' = due /\ locked_by' = locked_by /\ DueIsPolling'
  BY <1>1 DEF Defer, DeferEvent, Typed, DueIsPolling
<1>4. QED BY <1>2, <1>3
          DEF DeferEvent, table, Quiet, NoNewHold, KeepsClosers,
              Typed, TypeOK, OpHasClient, QueuesIn

LEMMA PollTimerIsQuiet ==
  ASSUME Typed, PollTimer
  PROVE  Typed' /\ Quiet
<1>1. LocalsTyped /\ locked_by \in {"op", NoFiber} /\ due \subseteq {"op"}
  BY TypedParts DEF QueuesTyped
<1>2. /\ batch' = batch /\ deferred' = deferred /\ due' = {}
      /\ Await("poll", "get_state")
  BY <1>1 DEF PollTimer, ResumeTimer
<1>3. op.c \in Clients
  BY TypedParts DEF PollTimer, ResumeTimer, DueIsPolling, LocalsTyped, OpHasClient
<1>4. op' \in OpType /\ OpHasClient'
  BY <1>1, <1>2, <1>3 DEF LocalsTyped, Await, OpType, OpPcs, OpHasClient
<1>5. QuietLocals
  BY <1>1, <1>2, <1>4 DEF Await, table, QuietLocals, LocalsTyped, NoNewHold
<1>6. QuietPost
  BY <1>2 DEF Await, QuietPost
<1>7. QED BY <1>2, <1>5, <1>6, PosterQuiet DEF DueIsPolling

(* The handlers of tune, tune_stop and tune_with_retry.                     *)
LEMMA TakenFields ==
  ASSUME Typed, NEW e, NEW o, Take(e, o)
  PROVE  /\ e \in Event
         /\ e.type = "START" => /\ e.c \in Clients /\ e.t \in Tuners \cup {NoTuner}
                                /\ e.from \in {"request", "send", "retry"}
         /\ e.type = "REPLY" => e.to \in Clients \cup {"op"} /\ e.ok \in BOOLEAN
<1>1. e \in Event
  BY TypedParts, TakeRemoves DEF QueuesTyped
<1>2. QED BY <1>1, EventFields

LEMMA NoOpTyped == NoOp \in OpType
BY TunerServiceAssumption DEF NoOp, OpType, OpPcs

LEMMA FinishDoes ==
  ASSUME Typed, op.pc # "none", NEW ok \in BOOLEAN, Finish(ok),
         tuned' \in [Tuners -> BOOLEAN]
  PROVE  QuietPost /\ QuietLocals
<1>1. LocalsTyped /\ locked_by \in {"op", NoFiber} /\ op.c \in Clients
  BY TypedParts DEF QueuesTyped, LocalsTyped, OpHasClient
<1>2. /\ cl' \in [Clients -> ClType]
      /\ \A c \in Clients : cl'[c].t = cl[c].t
      /\ QuietPost
  BY <1>1, AnswerDoes DEF Finish, QuietPost
<1>3. op' \in OpType /\ OpHasClient'
  BY NoOpTyped DEF Finish, OpHasClient, NoOp
<1>4. QED BY <1>1, <1>2, <1>3
          DEF Finish, Released, QuietLocals, LocalsTyped, NoNewHold

LEMMA AwaitDoes ==
  ASSUME Typed, op.pc # "none", NEW pc \in OpPcs,
         NEW request \in {"none", "tune", "get_state", "tune_stop"}, Await(pc, request)
  PROVE  QuietPost /\ QuietLocals
<1>1. LocalsTyped /\ locked_by \in {"op", NoFiber} /\ op.c \in Clients
  BY TypedParts DEF QueuesTyped, LocalsTyped, OpHasClient
<1>2. op' \in OpType /\ OpHasClient'
  BY <1>1 DEF LocalsTyped, Await, OpType, OpHasClient
<1>3. QED BY <1>1, <1>2
          DEF Await, table, QuietPost, QuietLocals, LocalsTyped, NoNewHold

LEMMA LockedOpIsQuiet ==
  ASSUME Typed, NEW e, NEW seq \in {"tune", "tune_stop"}, OnLockedOp(e, seq)
  PROVE  Typed' /\ Quiet
<1>1. LocalsTyped /\ locked_by \in {"op", NoFiber}
  BY TypedParts DEF QueuesTyped
<1>2. /\ Take(e, NoFiber)
      /\ e.c \in Clients /\ e.t \in Tuners \cup {NoTuner}
      /\ e.from \in {"request", "send", "retry"}
  BY TakenFields DEF OnLockedOp, Starts
<1>3. CASE PreCheck(e.c, e.t, seq = "tune")
  <2>1. op' \in OpType /\ OpHasClient'
    BY <1>2, <1>3, TunerServiceAssumption DEF OnLockedOp, OpType, OpPcs, OpHasClient
  <2>2. QuietLocals
    BY <1>1, <1>3, <2>1
       DEF OnLockedOp, LockFor, table, QuietLocals, LocalsTyped, NoNewHold
  <2>3. QuietPost
    BY <1>3 DEF OnLockedOp, QuietPost
  <2>4. QED BY <1>2, <2>2, <2>3, HandlerQuiet
<1>4. CASE ~PreCheck(e.c, e.t, seq = "tune")
  <2>1. /\ Answer(e, FALSE) /\ locked_by' = locked_by /\ op' = op /\ peer' = peer
        /\ UNCHANGED <<table, retry, streaming>>
    BY <1>4 DEF OnLockedOp
  <2>2. /\ cl' \in [Clients -> ClType]
        /\ \A c \in Clients : cl'[c].t = cl[c].t
        /\ QuietPost
    BY <1>1, <1>2, <2>1, AnswerDoes DEF QuietPost
  <2>3. QuietLocals
    BY <1>1, <2>1, <2>2 DEF table, QuietLocals, LocalsTyped, NoNewHold, OpHasClient
  <2>4. QED BY <1>2, <2>2, <2>3, HandlerQuiet
<1>5. QED BY <1>3, <1>4

(* The answers of tuner_control and psisi_manager.                          *)
PeerAnswered(e) == TuneAnswered(e) \/ PollAnswered(e) \/ CleanupAnswered(e) \/ StopAnswered(e)

LEMMA PeerAnsweredIsQuiet ==
  ASSUME Typed, NEW e, PeerAnswered(e)
  PROVE  Typed' /\ Quiet
<1>1. /\ LocalsTyped /\ locked_by \in {"op", NoFiber}
      /\ Take(e, "op") /\ e.type = "REPLY" /\ op.pc # "none"
  BY TypedParts
     DEF QueuesTyped, PeerAnswered, TuneAnswered, PollAnswered, CleanupAnswered,
         StopAnswered, Replies
<1>2. e.ok \in BOOLEAN
  BY <1>1, TakenFields
<1>3. SUFFICES QuietPost /\ QuietLocals
  BY <1>1, HandlerQuiet
<1>4. CASE TuneAnswered(e)
  <2>1. CASE e.ok
    <3>1. Await("poll_timer", "none")
      BY <1>4, <2>1 DEF TuneAnswered
    <3>2. QED BY <1>1, <3>1, AwaitDoes DEF OpPcs
  <2>2. CASE ~e.ok
    <3>1. Finish(FALSE) /\ tuned' \in [Tuners -> BOOLEAN]
      BY <1>1, <1>4, <2>2 DEF TuneAnswered, LocalsTyped
    <3>2. QED BY <1>1, <3>1, FinishDoes
  <2>3. QED BY <2>1, <2>2
<1>5. CASE PollAnswered(e)
  <2>1. CASE /\ Finish(TRUE)
             /\ tuned' = [tuned EXCEPT ![op.t] = TRUE]
    <3>1. tuned' \in [Tuners -> BOOLEAN]
      BY <1>1, <2>1 DEF LocalsTyped
    <3>2. QED BY <1>1, <2>1, <3>1, FinishDoes
  <2>2. CASE /\ op.polls < Polls
             /\ op' = [op EXCEPT !.pc = "poll_timer", !.polls = @ + 1]
             /\ UNCHANGED <<inbox, locked_by, table, retry, peer, streaming, cl>>
    <3>1. op.polls + 1 \in 0..Polls
      BY <1>1, <2>2, TunerServiceAssumption DEF LocalsTyped, OpType
    <3>2. op' \in OpType /\ OpHasClient'
      BY <1>1, <2>2, <3>1 DEF LocalsTyped, OpType, OpPcs, OpHasClient
    <3>3. QED BY <1>1, <2>2, <3>2
              DEF table, QuietPost, QuietLocals, LocalsTyped, NoNewHold
  <2>3. CASE Await("cleanup", "tune_stop")
    BY <1>1, <2>3, AwaitDoes DEF OpPcs
  <2>4. QED BY <1>5, <2>1, <2>2, <2>3 DEF PollAnswered
<1>6. CASE CleanupAnswered(e)
  <2>1. Finish(FALSE) /\ tuned' \in [Tuners -> BOOLEAN]
    BY <1>1, <1>6 DEF CleanupAnswered, LocalsTyped
  <2>2. QED BY <1>1, <2>1, FinishDoes
<1>7. CASE StopAnswered(e)
  <2>1. Finish(e.ok) /\ tuned' \in [Tuners -> BOOLEAN]
    BY <1>1, <1>7 DEF StopAnswered, LocalsTyped
  <2>2. QED BY <1>1, <1>2, <2>1, FinishDoes
<1>8. QED BY <1>4, <1>5, <1>6, <1>7 DEF PeerAnswered

LEMMA RetriesTyped == Retries \in 0..NoRetry /\ NoRetry \in 0..NoRetry
BY TunerServiceAssumption DEF NoRetry

LEMMA RetryIsQuiet ==
  ASSUME Typed, NEW e, OnTuneWithRetry(e)
  PROVE  Typed' /\ Quiet
<1>1. LocalsTyped /\ locked_by \in {"op", NoFiber}
  BY TypedParts DEF QueuesTyped
<1>2. /\ Take(e, NoFiber)
      /\ e.c \in Clients /\ e.t \in Tuners \cup {NoTuner}
      /\ e.from \in {"request", "send", "retry"}
      /\ UNCHANGED <<locked_by, table, op, peer, streaming>>
  BY TakenFields DEF OnTuneWithRetry, Starts
<1>3. CASE PreCheck(e.c, e.t, TRUE)
  <2>1. /\ retry' = [retry EXCEPT ![e.c] = Retries]
        /\ Post(<<Start("tune", e.c, e.t, "retry")>>) /\ cl' = cl
    BY <1>3 DEF OnTuneWithRetry
  <2>2. retry' \in [Clients -> 0..NoRetry]
    BY <1>1, <2>1, RetriesTyped DEF LocalsTyped
  <2>3. QuietLocals
    BY <1>1, <1>2, <2>1, <2>2 DEF table, QuietLocals, LocalsTyped, NoNewHold, OpHasClient
  <2>4. QuietPost
    BY <1>2, <2>1, StartTyped DEF QuietPost
  <2>5. QED BY <1>2, <2>3, <2>4, HandlerQuiet
<1>4. CASE ~PreCheck(e.c, e.t, TRUE)
  <2>1. Answer(e, FALSE) /\ retry' = retry
    BY <1>4 DEF OnTuneWithRetry
  <2>2. /\ cl' \in [Clients -> ClType]
        /\ \A c \in Clients : cl'[c].t = cl[c].t
        /\ QuietPost
    BY <1>1, <1>2, <2>1, AnswerDoes DEF QuietPost
  <2>3. QuietLocals
    BY <1>1, <1>2, <2>1, <2>2 DEF table, QuietLocals, LocalsTyped, NoNewHold, OpHasClient
  <2>4. QED BY <1>2, <2>2, <2>3, HandlerQuiet
<1>5. QED BY <1>3, <1>4

LEMMA RetryAnsweredIsQuiet ==
  ASSUME Typed, NEW e, NEW c \in Clients, RetryAnswered(e, c)
  PROVE  Typed' /\ Quiet
<1>1. /\ LocalsTyped /\ locked_by \in {"op", NoFiber}
      /\ cl[c].t \in Tuners \cup {NoTuner} /\ retry[c] \in 0..NoRetry
  BY TypedParts DEF QueuesTyped, LocalsTyped, ClType
<1>2. /\ Take(e, c)
      /\ UNCHANGED <<locked_by, table, op, peer, streaming>>
  BY DEF RetryAnswered, Replies
<1>3. CASE ~e.ok /\ retry[c] > 0
  <2>1. /\ retry' = [retry EXCEPT ![c] = retry[c] - 1]
        /\ Post(<<Start("tune", c, cl[c].t, "retry")>>) /\ cl' = cl
    BY <1>3 DEF RetryAnswered
  <2>2. retry[c] - 1 \in 0..NoRetry
    BY <1>1, <1>3, TunerServiceAssumption DEF NoRetry
  <2>3. retry' \in [Clients -> 0..NoRetry]
    BY <1>1, <2>1, <2>2 DEF LocalsTyped
  <2>4. QuietLocals
    BY <1>1, <1>2, <2>1, <2>3 DEF table, QuietLocals, LocalsTyped, NoNewHold, OpHasClient
  <2>5. QuietPost
    BY <1>1, <2>1, StartTyped DEF QuietPost
  <2>6. QED BY <1>2, <2>4, <2>5, HandlerQuiet
<1>4. CASE ~(~e.ok /\ retry[c] > 0)
  <2>1. PICK pc \in ClientPcs :
          retry' = [retry EXCEPT ![c] = NoRetry] /\ Goes(c, pc, cl[c].t) /\ inbox' = inbox
    BY <1>4 DEF RetryAnswered, ClientPcs
  <2>2. retry' \in [Clients -> 0..NoRetry]
    BY <1>1, <2>1, RetriesTyped DEF LocalsTyped
  <2>3. cl' \in [Clients -> ClType] /\ NoNewHold
    BY <1>1, <2>1 DEF LocalsTyped, ClType, Goes, NoNewHold
  <2>4. QuietLocals
    BY <1>1, <1>2, <2>2, <2>3 DEF table, QuietLocals, LocalsTyped, OpHasClient
  <2>5. QuietPost
    BY <2>1 DEF QuietPost
  <2>6. QED BY <1>2, <2>4, <2>5, HandlerQuiet
<1>5. QED BY <1>3, <1>4

QuietHandler(e) ==
  \/ DeferEvent(e) \/ OnTune(e) \/ OnTuneStop(e) \/ OnTuneWithRetry(e) \/ PeerAnswered(e)
  \/ \E c \in Clients : RetryAnswered(e, c)

LEMMA HandlerIsQuiet ==
  ASSUME Typed, NEW e, QuietHandler(e)
  PROVE  Typed' /\ Quiet
<1>1. CASE DeferEvent(e)
  BY <1>1, DeferIsQuiet
<1>2. CASE OnTune(e) \/ OnTuneStop(e)
  BY <1>2, LockedOpIsQuiet DEF OnTune, OnTuneStop
<1>3. CASE OnTuneWithRetry(e)
  BY <1>3, RetryIsQuiet
<1>4. CASE PeerAnswered(e)
  BY <1>4, PeerAnsweredIsQuiet
<1>5. CASE \E c \in Clients : RetryAnswered(e, c)
  BY <1>5, RetryAnsweredIsQuiet
<1>6. QED BY <1>1, <1>2, <1>3, <1>4, <1>5 DEF QuietHandler

-----------------------------------------------------------------------------
(* The claims.  HolderIsOwner alone does not survive a close, and           *)
(* ExclusiveUse alone does not survive an open: a free tuner must have no   *)
(* close on its way to it (the fourth part).                                *)
OneClaim(t) ==
  /\ \A c, d \in Clients : Holds(c, t) /\ Holds(d, t) => c = d
  /\ (\E c \in Clients : Holds(c, t)) => NoClose(flight, t)
  /\ OneClose(flight, t)
  /\ owner[t] = Nobody => NoClose(flight, t)

IInv == Typed /\ HolderIsOwner /\ \A t \in Tuners : OneClaim(t)

LEMMA TunersDiffer == NoTuner \notin Tuners /\ 0 \in Tuners
BY TunerServiceAssumption DEF NoTuner, Tuners

LEMMA IInvImplies == IInv => TypeOK /\ ExclusiveUse /\ HolderIsOwner
<1>1. ASSUME IInv PROVE ExclusiveUse
  <2>1. flight \in Seq(Event)
    BY <1>1, TypedParts, FlightTyped DEF IInv, QueuesTyped
  <2>2. DOMAIN flight = 1..Len(flight)
    BY <2>1
  <2>3. ASSUME NEW t \in Tuners
        PROVE  /\ \A c, d \in Clients : Holds(c, t) /\ Holds(d, t) => c = d
               /\ \A i \in DOMAIN flight : Closes(flight[i], t) =>
                    /\ \A c \in Clients : ~Holds(c, t)
                    /\ \A j \in DOMAIN flight : Closes(flight[j], t) => j = i
    BY <1>1, <2>2 DEF IInv, OneClaim, NoClose, OneClose
  <2>4. QED BY <2>3 DEF ExclusiveUse
<1>2. QED BY <1>1 DEF IInv, Typed

LEMMA QuietKeepsClaims ==
  ASSUME IInv, Typed', Quiet
  PROVE  IInv'
<1>1. \A c \in Clients, t \in Tuners : Holds(c, t)' => Holds(c, t)
  BY TunersDiffer DEF Quiet, NoNewHold, Holds
<1>2. HolderIsOwner'
  BY <1>1 DEF IInv, HolderIsOwner, Quiet
<1>3. ASSUME NEW t \in Tuners
      PROVE  OneClaim(t)'
  <2>1. OneClaim(t)
    BY DEF IInv
  <2>2. /\ NoClose(flight, t) => NoClose(flight, t)'
        /\ OneClose(flight, t) => OneClose(flight, t)'
    BY DEF Quiet, KeepsClosers, NoClose, OneClose
  <2>3. QED BY <1>1, <2>1, <2>2 DEF OneClaim, Quiet
<1>4. QED BY <1>2, <1>3 DEF IInv

LEMMA OwnersAreSomebody ==
  ASSUME NEW c \in Clients
  PROVE  ModuleOf[c] # Nobody /\ ModuleOf[c] \in Modules
BY TunerServiceAssumption

(* The client that sends close held the tuner, so no close was on its way.  *)
LEMMA SendCloseKeepsClaims ==
  ASSUME IInv, NEW c \in Clients, SendClose(c)
  PROVE  IInv'
<1> DEFINE u == cl[c].t
           n == Start("close", c, u, "send")
<1>1. /\ LocalsTyped /\ QueuesTyped /\ DueIsPolling
      /\ u \in Tuners \cup {NoTuner}
  BY TypedParts DEF IInv, LocalsTyped, ClType
<1>2. /\ cl' = [cl EXCEPT ![c] = [pc |-> "idle", t |-> NoTuner]]
      /\ Post(<<n>>) /\ Unscheduled
  BY DEF SendClose, Goes
<1>3. n \in Event /\ \A t : t # u => ~Closes(n, t)
  <2>1. n \in Event
    BY <1>1, StartTyped
  <2>2. QED BY <2>1 DEF Start, Closes
<1> HIDE DEF n, u
<1>4. /\ flight \in Seq(Event) /\ flight' = Append(flight, n) /\ QueuesIn(Event)'
  BY <1>1, <1>2, <1>3, PostExtends, FlightTyped DEF QueuesTyped, Unscheduled
<1>5. Typed'
  <2>1. cl' \in [Clients -> ClType]
    BY <1>1, <1>2 DEF LocalsTyped, ClType, ClientPcs
  <2>2. LocalsTyped'
    BY <1>1, <1>2, <2>1 DEF LocalsTyped, Unscheduled, table, OpHasClient
  <2>3. QueuesTyped' /\ DueIsPolling'
    BY <1>1, <1>2, <1>4 DEF QueuesTyped, Unscheduled, DueIsPolling
  <2>4. QED BY <2>2, <2>3
            DEF Typed, TypeOK, LocalsTyped, QueuesTyped, QueuesIn, OpType, ClType
<1>6. \A t \in Tuners, d \in Clients : Holds(d, t)' => Holds(d, t) /\ d # c
  BY <1>1, <1>2, TunersDiffer DEF Holds, LocalsTyped, ClType
<1>7. HolderIsOwner'
  BY <1>2, <1>6 DEF IInv, HolderIsOwner, Unscheduled, table
<1>8. ASSUME NEW t \in Tuners
      PROVE  OneClaim(t)'
  <2>1. OneClaim(t) /\ owner' = owner
    BY <1>2 DEF IInv, Unscheduled, table
  <2>2. CASE t # u
    <3>1. /\ NoClose(flight, t) => NoClose(flight, t)'
          /\ OneClose(flight, t) => OneClose(flight, t)'
      BY <1>3, <1>4, <2>2, AppendCloses DEF NoClose, OneClose
    <3>2. QED BY <1>6, <2>1, <3>1 DEF OneClaim
  <2>3. CASE t = u
    <3>1. Holds(c, t)
      BY <2>3 DEF Holds, u
    <3>2. owner[t] # Nobody
      BY <3>1, OwnersAreSomebody DEF IInv, HolderIsOwner
    <3>3. NoClose(flight, t) /\ \A d \in Clients : ~Holds(d, t)'
      BY <1>6, <2>1, <3>1 DEF OneClaim
    <3>4. OneClose(flight, t)'
      BY <1>3, <1>4, <3>3, AppendCloses DEF OneClose
    <3>5. QED BY <2>1, <3>2, <3>3, <3>4 DEF OneClaim
  <2>4. QED BY <2>2, <2>3
<1>9. QED BY <1>5, <1>7, <1>8 DEF IInv

(* What open and close have in common: a handler that posts nothing.        *)
LEMMA TakeSilently ==
  ASSUME Typed, NEW e, Take(e, NoFiber), inbox' = inbox, locked_by' = locked_by,
         LocalsTyped'
  PROVE  /\ Typed' /\ KeepsClosers
         /\ \A t : OneClose(flight, t) /\ Closes(e, t) => NoClose(flight', t)
<1>1. QueuesIn(Event) /\ locked_by \in {"op", NoFiber}
  BY TypedParts DEF QueuesTyped
<1>2. QueuesIn(Event)' /\ KeepsClosers
  BY <1>1, TakeQuiet DEF QuietPost
<1>3. due' = {} /\ DueIsPolling'
  BY DEF Take, EventIs, DueIsPolling
<1>4. Typed'
  BY <1>1, <1>2, <1>3
     DEF Typed, TypeOK, LocalsTyped, QueuesIn, OpType, ClType
<1>5. ASSUME NEW t, OneClose(flight, t), Closes(e, t)
      PROVE  NoClose(flight', t)
  <2>1. PICK k \in 1..Len(flight) :
          flight[k] = e /\ Removed(flight, k, Rest) /\ Rest \in Seq(Event)
    BY <1>1, TakeRemoves
  <2>2. flight \in Seq(Event) /\ flight' = Rest
    BY <1>1, FlightTyped, TakeOnly
  <2>3. QED BY <1>5, <2>1, <2>2, RemovedCloses
<1>6. QED BY <1>2, <1>4, <1>5

(* A free tuner has neither a holder nor a close on its way, so the grant   *)
(* makes the client its only claim.                                         *)
LEMMA OpenKeepsClaims ==
  ASSUME IInv, NEW e, OnOpen(e)
  PROVE  IInv'
<1>1. LocalsTyped /\ Typed
  BY TypedParts DEF IInv
<1>2. /\ Take(e, NoFiber) /\ e.c \in Clients
      /\ UNCHANGED <<inbox, locked_by, tuned, op, retry, peer, streaming>>
  BY <1>1, TakenFields DEF OnOpen, Starts
<1>3. CASE \E t \in Tuners : /\ FirstCleared(t)
                             /\ owner' = [owner EXCEPT ![t] = ModuleOf[e.c]]
                             /\ next_tuner' = After(t)
                             /\ Goes(e.c, "opened", t)
  <2>1. PICK t \in Tuners : /\ owner[t] = Nobody
                            /\ owner' = [owner EXCEPT ![t] = ModuleOf[e.c]]
                            /\ next_tuner' = After(t)
                            /\ cl' = [cl EXCEPT ![e.c] = [pc |-> "opened", t |-> t]]
    BY <1>3 DEF FirstCleared, Cleared, Goes
  <2>2. LocalsTyped'
    <3>1. next_tuner' \in Tuners
      BY <2>1, TunerServiceAssumption DEF After, Tuners
    <3>2. owner' \in [Tuners -> Modules \cup {Nobody}]
      BY <1>1, <1>2, <2>1, OwnersAreSomebody DEF LocalsTyped
    <3>3. cl' \in [Clients -> ClType]
      BY <1>1, <2>1 DEF LocalsTyped, ClType, ClientPcs
    <3>4. QED BY <1>1, <1>2, <3>1, <3>2, <3>3 DEF LocalsTyped, OpHasClient
  <2>3. Typed' /\ KeepsClosers
    BY <1>1, <1>2, <2>2, TakeSilently
  <2>4. /\ \A d \in Clients, u \in Tuners : Holds(d, u)' =>
              (d = e.c /\ u = t) \/ (d # e.c /\ Holds(d, u))
    BY <1>1, <1>2, <2>1 DEF Holds, LocalsTyped, ClType
  <2>5. \A d \in Clients : ~Holds(d, t)
    BY <2>1, OwnersAreSomebody DEF IInv, HolderIsOwner
  <2>6. HolderIsOwner'
    BY <1>1, <2>1, <2>4, <2>5 DEF IInv, HolderIsOwner, LocalsTyped
  <2>7. ASSUME NEW u \in Tuners
        PROVE  OneClaim(u)'
    <3>1. OneClaim(u)
      BY DEF IInv
    <3>2. /\ NoClose(flight, u) => NoClose(flight, u)'
          /\ OneClose(flight, u) => OneClose(flight, u)'
      BY <2>3 DEF KeepsClosers, NoClose, OneClose
    <3>3. CASE u = t
      <4>1. NoClose(flight, u)
        BY <2>1, <3>1, <3>3 DEF OneClaim
      <4>2. QED BY <2>4, <2>5, <3>1, <3>2, <3>3, <4>1 DEF OneClaim
    <3>4. CASE u # t
      <4>1. owner'[u] = owner[u]
        BY <1>1, <2>1, <3>4 DEF LocalsTyped
      <4>2. QED BY <2>4, <3>1, <3>2, <3>4, <4>1 DEF OneClaim
    <3>5. QED BY <3>3, <3>4
  <2>8. QED BY <2>3, <2>6, <2>7 DEF IInv
<1>4. CASE Goes(e.c, "idle", NoTuner) /\ UNCHANGED <<owner, next_tuner>>
  <2>1. cl' \in [Clients -> ClType] /\ NoNewHold
    BY <1>1, <1>4 DEF LocalsTyped, ClType, ClientPcs, Goes, NoNewHold
  <2>2. LocalsTyped'
    BY <1>1, <1>2, <1>4, <2>1 DEF LocalsTyped, OpHasClient
  <2>3. Typed' /\ KeepsClosers
    BY <1>1, <1>2, <2>2, TakeSilently
  <2>4. QED BY <1>4, <2>1, <2>3, QuietKeepsClaims DEF Quiet
<1>5. QED BY <1>3, <1>4 DEF OnOpen

(* A close on its way is the tuner's only claim, so freeing the tuner takes *)
(* it from nobody.                                                          *)
LEMMA CloseKeepsClaims ==
  ASSUME IInv, NEW e, OnClose(e)
  PROVE  IInv'
<1>1. LocalsTyped /\ Typed
  BY TypedParts DEF IInv
<1>2. /\ Take(e, NoFiber) /\ e.type = "START" /\ e.seq = "close"
      /\ UNCHANGED <<inbox, locked_by, tuned, next_tuner, op, retry, peer, streaming, cl>>
      /\ owner' = [owner EXCEPT ![e.t] = IF tuned[e.t] THEN owner[e.t] ELSE Nobody]
  BY DEF OnClose, Starts
<1>3. LocalsTyped'
  <2>1. owner' \in [Tuners -> Modules \cup {Nobody}]
    BY <1>1, <1>2 DEF LocalsTyped
  <2>2. QED BY <1>1, <1>2, <2>1 DEF LocalsTyped, OpHasClient
<1>4. /\ Typed' /\ KeepsClosers
      /\ \A t : OneClose(flight, t) /\ Closes(e, t) => NoClose(flight', t)
  BY <1>1, <1>2, <1>3, TakeSilently
<1>5. \A c \in Clients, t \in Tuners : Holds(c, t)' <=> Holds(c, t)
  BY <1>2 DEF Holds
<1>6. \A t \in Tuners : t # e.t => owner'[t] = owner[t]
  BY <1>1, <1>2 DEF LocalsTyped
<1>7. \A c \in Clients : ~(e.t \in Tuners /\ Holds(c, e.t))
  <2>1. PICK k \in 1..Len(flight) : flight[k] = e
    BY <1>1, <1>2, TypedParts, TakeRemoves DEF QueuesTyped
  <2>2. Closes(flight[k], e.t)
    BY <1>2, <2>1 DEF Closes
  <2>3. QED BY <2>2 DEF IInv, OneClaim, NoClose
<1>8. HolderIsOwner'
  BY <1>5, <1>6, <1>7 DEF IInv, HolderIsOwner
<1>9. ASSUME NEW t \in Tuners
      PROVE  OneClaim(t)'
  <2>1. OneClaim(t)
    BY DEF IInv
  <2>2. /\ NoClose(flight, t) => NoClose(flight, t)'
        /\ OneClose(flight, t) => OneClose(flight, t)'
    BY <1>4 DEF KeepsClosers, NoClose, OneClose
  <2>3. CASE t = e.t
    <3>1. NoClose(flight, t)'
      BY <1>2, <1>4, <2>1, <2>3 DEF OneClaim, Closes, NoClose
    <3>2. QED BY <1>5, <2>1, <2>2, <3>1 DEF OneClaim
  <2>4. CASE t # e.t
    BY <1>5, <1>6, <2>1, <2>2, <2>4 DEF OneClaim
  <2>5. QED BY <2>3, <2>4
<1>10. QED BY <1>4, <1>8, <1>9 DEF IInv

-----------------------------------------------------------------------------
LEMMA InitEstablishes == Init => IInv
<1> SUFFICES ASSUME Init PROVE IInv
  OBVIOUS
<1>1. <<>> \in Seq(Event) /\ QueuesIn(Event)
  BY EmptySeq DEF Init, CoseqInit, QueuesIn
<1>2. LocalsTyped
  BY NoOpTyped, TunersDiffer, RetriesTyped
     DEF Init, LocalsTyped, OpHasClient, NoOp, ClType, ClientPcs
<1>3. Typed
  BY <1>1, <1>2, TypedParts DEF Init, CoseqInit, QueuesTyped, DueIsPolling
<1>4. \A c \in Clients, t \in Tuners : ~Holds(c, t)
  BY TunersDiffer DEF Init, Holds
<1>5. Len(flight) = 0
  BY <1>1, FlightTyped DEF Init, CoseqInit
<1>6. \A t : NoClose(flight, t) /\ OneClose(flight, t)
  BY <1>5 DEF NoClose, OneClose
<1>7. QED BY <1>3, <1>4, <1>6 DEF IInv, HolderIsOwner, OneClaim

LEMMA StepPreserves == IInv /\ [Next]_vars => IInv'
<1> SUFFICES ASSUME IInv, [Next]_vars PROVE IInv'
  OBVIOUS
<1>1. Typed
  BY DEF IInv
<1>2. CASE Turn
  BY <1>1, <1>2, TurnIsQuiet, QuietKeepsClaims
<1>3. CASE PollTimer
  BY <1>1, <1>3, PollTimerIsQuiet, QuietKeepsClaims
<1>4. ASSUME NEW e, Handle(e) PROVE IInv'
  <2>1. CASE OnOpen(e)
    BY <2>1, OpenKeepsClaims
  <2>2. CASE OnClose(e)
    BY <2>2, CloseKeepsClaims
  <2>3. CASE QuietHandler(e)
    BY <1>1, <2>3, HandlerIsQuiet, QuietKeepsClaims
  <2>4. QED BY <1>4, <2>1, <2>2, <2>3 DEF Handle, QuietHandler, PeerAnswered
<1>5. ASSUME NEW ok \in BOOLEAN, PeerAnswers(ok) PROVE IInv'
  BY <1>1, <1>5, PeerIsQuiet, QuietKeepsClaims
<1>6. ASSUME NEW c \in Clients, Client(c) PROVE IInv'
  <2>1. CASE SendClose(c)
    BY <2>1, SendCloseKeepsClaims
  <2>2. CASE QuietClient(c)
    BY <1>1, <2>2, ClientIsQuiet, QuietKeepsClaims
  <2>3. QED BY <1>6, <2>1, <2>2 DEF Client, QuietClient
<1>7. CASE UNCHANGED vars
  <2>1. flight' = flight
    BY <1>7 DEF vars, flight
  <2>2. Quiet
    BY <1>7, <2>1 DEF vars, Quiet, NoNewHold, KeepsClosers
  <2>3. Typed'
    BY <1>1, <1>7 DEF vars, Typed, TypeOK, OpHasClient, DueIsPolling
  <2>4. QED BY <2>2, <2>3, QuietKeepsClaims
<1>8. QED BY <1>2, <1>3, <1>4, <1>5, <1>6, <1>7 DEF Next, Scheduler

LEMMA Inductive == Spec => []IInv
BY InitEstablishes, StepPreserves, PTL DEF Spec

(* tuner_service's queues, table and locals always have their types.        *)
THEOREM StateIsTyped == Spec => []TypeOK
BY Inductive, IInvImplies, PTL

(* At most one client or one close in flight has a claim on a tuner, so     *)
(* that release, which does not look at who asks, frees nobody else's.      *)
THEOREM TunersAreExclusive == Spec => []ExclusiveUse
BY Inductive, IInvImplies, PTL

(* The entry of a tuner a client holds names that client's module until the *)
(* client itself has sent its close.                                        *)
THEOREM HoldersKeepTheirEntry == Spec => []HolderIsOwner
BY Inductive, IInvImplies, PTL

-----------------------------------------------------------------------------
(* The table and the pool.  TableIsTrue needs the order of the queues:      *)
(* close can overtake a tune_stop that was set aside, so a tuner may be     *)
(* granted again while a tune_stop for it is still on its way.  It does no  *)
(* harm if it is handled before the new holder's tune, and that is so for   *)
(* the tune of a retry fiber: it is posted while the lock is free, so       *)
(* before the reply that ends any later lock, and is set aside like the     *)
(* tune_stop (Order).                                                       *)

(* The request of client c, or the answer to its retry fiber.               *)
Req(c) == {e \in Event :
             \/ e.type = "START" /\ e.c = c /\ e.from \in {"request", "retry"}
             \/ e.type = "REPLY" /\ e.to = c}
ToOp == {e \in Event : e.type = "REPLY" /\ e.to = "op"}
RetryTunes == {e \in Event : e.type = "START" /\ e.seq = "tune" /\ e.from = "retry"}
RetryTunesOf(t) == {e \in RetryTunes : e.t = t}
StopsOf(t) == {e \in Event : e.type = "START" /\ e.seq = "tune_stop" /\ e.from = "send" /\ e.t = t}

(* Which events are sent.                                                   *)
Good(e) ==
  e.type = "START" =>
    /\ e.seq = "open" => e.from = "request"
    /\ e.seq = "close" => e.from = "send"
    /\ e.seq = "tune" => e.from = IF e.c \in Scanners THEN "request" ELSE "retry"
    /\ e.seq = "tune_with_retry" => e.from = "request" /\ e.c \notin Scanners
    /\ e.seq = "tune_stop" => e.from \in {"request", "send"} /\ e.t \in Tuners
    /\ e.seq = "tune_stop" /\ e.from = "request" => e.c \in Scanners
WellFormed == \A e \in InTransit : Good(e)

ClientShape(c) ==
  /\ cl[c].pc \in {"idle", "opening"} <=> cl[c].t = NoTuner
  /\ cl[c].pc = "scan_stop" => c \in Scanners

(* A client that waits has one request, as an event or with op.             *)
OpFor(c) == op.pc # "none" /\ op.c = c /\ op.from # "send"
Waiting(seq) ==
  CASE seq = "open" -> "opening" [] seq = "tune_stop" -> "scan_stop" [] OTHER -> "tuning"
Tells(c, e) ==
  /\ e.type = "START" => cl[c].pc = Waiting(e.seq) /\ (e.seq # "open" => e.t = cl[c].t)
  /\ e.type = "REPLY" => cl[c].pc = "tuning" /\ c \notin Scanners
OneRequest(c) ==
  /\ AtMostOnce(flight, Req(c))
  /\ OpFor(c) => InTransit \cap Req(c) = {} /\ op.t = cl[c].t /\ cl[c].pc = Waiting(op.pc)
  /\ \A e \in InTransit \cap Req(c) : Tells(c, e)

(* op, the lock and what it has asked of the other modules.                 *)
OpAsks == CASE op.pc = "tune" -> "tune" [] op.pc = "poll" -> "get_state" [] OTHER -> "tune_stop"
OpProtocol ==
  /\ locked_by = "op" <=> op.pc # "none"
  /\ AtMostOnce(flight, ToOp)
  /\ peer # "none" => InTransit \cap ToOp = {} /\ peer = OpAsks
  /\ op.pc \in {"none", "poll_timer"} => peer = "none" /\ InTransit \cap ToOp = {}
  /\ op.pc # "none" =>
       /\ op.t \in Tuners /\ owner[op.t] = ModuleOf[op.c]
       /\ tuned[op.t] <=> op.pc = "tune_stop"
       /\ op.from = IF op.pc = "tune_stop" /\ op.from = "send" THEN "send"
                    ELSE IF op.c \in Scanners THEN "request" ELSE "retry"
       /\ op.pc = "tune_stop" => op.from \in {"request", "send"}

Runs(t) == tuned[t] /\ streaming[t] = "on"
Streaming ==
  /\ \A t \in Tuners : tuned[t] => owner[t] # Nobody
  /\ \A t \in Tuners : streaming[t] = "on" =>
       tuned[t] \/ (op.pc \in {"tune", "poll_timer", "poll", "cleanup"} /\ op.t = t)
  /\ peer = "tune" => streaming[op.t] # "on"
  /\ op.pc \in {"poll_timer", "poll"} => streaming[op.t] = "on"
  /\ \A e \in InTransit \cap ToOp :
       /\ op.pc = "tune" => (e.ok <=> streaming[op.t] = "on")
       /\ op.pc = "cleanup" => streaming[op.t] # "on"
       /\ op.pc = "tune_stop" /\ e.ok => streaming[op.t] # "on"

(* Where the tunes of retry fibers are.                                     *)
Has(q, M) == \E i \in 1..Len(q) : q[i] \in M
Order ==
  /\ locked_by = "op" =>
       /\ Before(batch, RetryTunes, ToOp) /\ Before(inbox, RetryTunes, ToOp)
       /\ Has(batch, ToOp) => ~Has(inbox, RetryTunes)
  /\ locked_by = NoFiber /\ deferred # <<>> => ~Has(batch, RetryTunes)
  /\ \A t \in Tuners : Before(flight, StopsOf(t), RetryTunesOf(t))

(* A client that uses its tuner, or has the answer on its way.              *)
Served(c) == cl[c].pc = "using" \/ \E e \in InTransit \cap Req(c) : e.type = "REPLY" /\ e.ok
StopPending(t) ==
  InTransit \cap StopsOf(t) # {} \/ (op.pc = "tune_stop" /\ op.from = "send" /\ op.t = t)
Stops(c) ==
  c \notin Scanners =>
    /\ Served(c) => Runs(cl[c].t)
    /\ Served(c) \/ OpFor(c) => ~StopPending(cl[c].t)

Table ==
  /\ WellFormed /\ OpProtocol /\ Streaming /\ Order
  /\ \A c \in Clients : ClientShape(c) /\ OneRequest(c) /\ Stops(c)

-----------------------------------------------------------------------------
(* The order of the queues.                                                 *)
LEMMA OrderTurn ==
  ASSUME QueuesIn(Event), Order, locked_by \in {"op", NoFiber}, NEW expired, BeginTurn(expired)
  PROVE  Order'
<1>1. /\ batch = <<>> /\ inbox' = <<>> /\ locked_by' = locked_by /\ flight' = flight
      /\ locked_by = NoFiber => deferred' = <<>>
      /\ locked_by # NoFiber => batch' = inbox
  BY TurnKeeps DEF BeginTurn
<1>2. CASE locked_by = "op"
  <2>1. ~Has(inbox', RetryTunes) /\ Before(inbox', RetryTunes, ToOp)
    BY <1>1, EmptySeq DEF Has, Before
  <2>2. Before(batch', RetryTunes, ToOp)
    BY <1>1, <1>2 DEF Order, NoFiber
  <2>3. QED BY <1>1, <1>2, <2>1, <2>2 DEF Order, NoFiber
<1>3. CASE locked_by = NoFiber
  BY <1>1, <1>3 DEF Order, NoFiber
<1>4. QED BY <1>2, <1>3

LEMMA OrderDefer ==
  ASSUME QueuesIn(Event), Order, locked_by \in {"op", NoFiber}, NEW e, NEW o, Defer(e, o)
  PROVE  Order'
<1>1. /\ batch # <<>> /\ batch' = Tail(batch) /\ inbox' = inbox /\ flight' = flight
      /\ locked_by' = locked_by /\ locked_by = "op"
  BY DeferKeeps DEF Defer, EventIs, Deferrable
<1>2. batch \in Seq(Event) /\ Before(batch, RetryTunes, ToOp)
  BY <1>1 DEF QueuesIn, Order
<1>3. Before(batch', RetryTunes, ToOp) /\ (Has(batch', ToOp) => Has(batch, ToOp))
  BY <1>1, <1>2, TailOrder DEF Has
<1>4. QED BY <1>1, <1>3 DEF Order, NoFiber

LEMMA OrderPost ==
  ASSUME QueuesIn(Event), Order, NEW n \in Event, Post(<<n>>),
         UNCHANGED <<batch, deferred, locked_by>>, n \notin RetryTunes,
         \A t \in Tuners : n \in StopsOf(t) => InTransit \cap RetryTunesOf(t) = {}
  PROVE  Order'
<1>1. flight' = Append(flight, n) /\ flight \in Seq(Event) /\ inbox \in Seq(Event)
  BY PostExtends, FlightTyped DEF QueuesIn
<1>2. inbox' = Append(inbox, n)
  BY <1>1, AppendIsConcat DEF Post
<1>3. Before(inbox, RetryTunes, ToOp) => Before(inbox', RetryTunes, ToOp)
  BY <1>1, <1>2, AppendedOrder
<1>4. ~Has(inbox, RetryTunes) => ~Has(inbox', RetryTunes)
  BY <1>1, <1>2, AppendedOnce DEF Has
<1>5. ASSUME NEW t \in Tuners
      PROVE  Before(flight', StopsOf(t), RetryTunesOf(t))
  <2>1. Before(flight, StopsOf(t), RetryTunesOf(t)) /\ n \notin RetryTunesOf(t)
    BY DEF Order, RetryTunesOf
  <2>2. n \in StopsOf(t) => \A i \in 1..Len(flight) : flight[i] \notin RetryTunesOf(t)
    BY DEF InTransit
  <2>3. QED BY <1>1, <2>1, <2>2, AppendedOrder
<1>6. QED BY <1>3, <1>4, <1>5 DEF Order, NoFiber

LEMMA OrderTake ==
  ASSUME QueuesIn(Event), Order, NEW e, NEW o, Take(e, o),
         inbox' = inbox \/ \E n \in Event : Post(<<n>>) /\ \A t \in Tuners : n \notin StopsOf(t),
         locked_by = NoFiber \/ (locked_by = "op" /\ e \in ToOp),
         locked_by' \in {"op", NoFiber}, locked_by' = "op" => InTransit' \cap ToOp = {}
  PROVE  Order'
<1>1. /\ batch # <<>> /\ e = Head(batch) /\ batch' = Tail(batch) /\ deferred' = deferred
      /\ batch \in Seq(Event)
  BY DEF Take, EventIs, QueuesIn
<1>2. /\ QueuesIn(Event)' /\ Rest \in Seq(Event) /\ flight \in Seq(Event)
      /\ flight' = Rest \/ \E n \in Event : flight' = Append(Rest, n) /\ \A t \in Tuners : n \notin StopsOf(t)
  BY TakeOnly, TakeAndPost, TakeRemoves, FlightTyped
<1>3. ASSUME NEW t \in Tuners
      PROVE  Before(flight', StopsOf(t), RetryTunesOf(t))
  <2>1. Before(flight, StopsOf(t), RetryTunesOf(t))
    BY DEF Order
  <2>2. \E k : Removed(flight, k, Rest)
    BY TakeRemoves
  <2>3. Before(Rest, StopsOf(t), RetryTunesOf(t))
    BY <1>2, <2>1, <2>2, RemovedOrder
  <2>4. ASSUME NEW n \in Event, n \notin StopsOf(t)
        PROVE  Before(Append(Rest, n), StopsOf(t), RetryTunesOf(t))
    BY <1>2, <2>3, <2>4, AppendedOrder
  <2>5. QED BY <1>2, <2>3, <2>4
<1>4. CASE locked_by' = "op"
  <2>1. ~Has(batch', ToOp) /\ ~Has(inbox', ToOp)
    <3>1. /\ inbox' \in Seq(Event) /\ batch' \in Seq(Event) /\ deferred' \in Seq(Event)
      BY <1>2 DEF QueuesIn
    <3>2. flight' = (deferred' \o batch') \o inbox'
      BY DEF flight
    <3>3. Includes(flight', batch') /\ Includes(flight', inbox')
      BY <3>1, <3>2, PartsOfConcat
    <3>4. \A j \in 1..Len(flight') : flight'[j] \notin ToOp
      BY <1>4 DEF InTransit
    <3>5. QED BY <3>3, <3>4 DEF Has, Includes
  <2>2. Before(batch', RetryTunes, ToOp) /\ Before(inbox', RetryTunes, ToOp)
    BY <2>1 DEF Before, Has
  <2>3. QED BY <1>3, <1>4, <2>1, <2>2 DEF Order, NoFiber
<1>5. CASE locked_by' = NoFiber
  <2>1. \A i \in 1..Len(batch') : \E j \in 1..Len(batch) : batch'[i] = batch[j]
    BY <1>1, TailOrder DEF Before
  <2>2. CASE locked_by = NoFiber
    BY <1>1, <1>3, <1>5, <2>1, <2>2 DEF Order, NoFiber, Has
  <2>3. CASE locked_by = "op" /\ e \in ToOp
    <3>1. ~Has(batch', RetryTunes)
      BY <1>1, <2>3, TailOrder DEF Order, Has
    <3>2. QED BY <1>3, <1>5, <3>1 DEF Order, NoFiber
  <2>4. QED BY <2>2, <2>3
<1>6. QED BY <1>4, <1>5

(* The tune of a retry fiber is handled when all stops sent before are done. *)
LEMMA RetryTuneTaken ==
  ASSUME QueuesIn(Event), Order, locked_by = NoFiber, NEW e, NEW o, Take(e, o),
         NEW t \in Tuners, e \in RetryTunesOf(t)
  PROVE  InTransit \cap StopsOf(t) = {}
<1>1. batch # <<>> /\ e = Head(batch) /\ batch \in Seq(Event)
  BY DEF Take, EventIs, QueuesIn
<1>2. deferred = <<>>
  <2>1. 1 \in 1..Len(batch) /\ batch[1] \in RetryTunes
    BY <1>1, EmptySeq, HeadTailProperties DEF RetryTunesOf
  <2>2. QED BY <2>1 DEF Order, Has
<1>3. flight[1] \in RetryTunesOf(t) /\ 1 \in 1..Len(flight)
  BY <1>1, <1>2, HeadOfConcat DEF QueuesIn, flight
<1>4. ASSUME NEW i \in 1..Len(flight), flight[i] \in StopsOf(t)
      PROVE  FALSE
  <2>1. i < 1
    BY <1>3, <1>4 DEF Order, Before
  <2>2. QED BY <2>1
<1>5. QED BY <1>4 DEF InTransit

-----------------------------------------------------------------------------
(* What a step does to the events in flight: it takes those of gone (none   *)
(* or one) and posts those of new (none or one).                            *)
Moves(gone, new) ==
  /\ gone \subseteq InTransit
  /\ InTransit' \subseteq InTransit \cup new
  /\ \A M : AtMostOnce(flight, M) =>
       /\ gone \cap M # {} => InTransit' \cap M \subseteq new
       /\ new \cap M = {} \/ gone \cap M # {} \/ InTransit \cap M = {} => AtMostOnce(flight', M)

LEMMA PostMoves ==
  ASSUME QueuesIn(Event), NEW n \in Event,
         Post(<<n>>), batch' = batch, deferred' = deferred
  PROVE  Moves({}, {n})
BY PostTransits DEF TransitWith, Moves

LEMMA TakeMoves ==
  ASSUME QueuesIn(Event), NEW e, NEW o, Take(e, o)
  PROVE  /\ inbox' = inbox => Moves({e}, {})
         /\ \A n \in Event : Post(<<n>>) => Moves({e}, {n})
         /\ e \in InTransit /\ e \in Event
<1>1. ASSUME inbox' = inbox
      PROVE  Moves({e}, {})
  <2>1. TransitAfter(e, {})
    BY <1>1, TakeTransits
  <2>2. QED BY <2>1 DEF TransitAfter, Moves
<1>2. ASSUME NEW n \in Event, Post(<<n>>)
      PROVE  Moves({e}, {n})
  <2>1. TransitAfter(e, {n})
    BY <1>2, TakePostTransits
  <2>2. QED BY <2>1 DEF TransitAfter, Moves
<1>3. e \in InTransit /\ e \in Event
  BY TakeRemoves DEF InTransit
<1>4. QED BY <1>1, <1>2, <1>3

LEMMA SameMoves ==
  ASSUME flight' = flight
  PROVE  Moves({}, {}) /\ InTransit' = InTransit
BY DEF Moves, InTransit

(* A client's request: not touched, handled, or the next one posted.        *)
LEMMA RequestKept ==
  ASSUME NEW c \in Clients, OneRequest(c), NEW gone, NEW new, Moves(gone, new),
         new \cap Req(c) = {}, cl'[c] = cl[c],
         OpFor(c)' => OpFor(c) /\ op'.t = op.t /\ Waiting(op'.pc) = Waiting(op.pc)
  PROVE  OneRequest(c)'
<1>1. AtMostOnce(flight', Req(c)) /\ InTransit' \cap Req(c) \subseteq InTransit \cap Req(c)
  BY DEF OneRequest, Moves
<1>2. \A e \in InTransit' \cap Req(c) : Tells(c, e)'
  BY <1>1 DEF OneRequest, Tells
<1>3. QED BY <1>1, <1>2 DEF OneRequest

LEMMA RequestTaken ==
  ASSUME NEW c \in Clients, OneRequest(c), NEW gone, NEW new, Moves(gone, new),
         new \cap Req(c) = {}, gone \cap Req(c) # {},
         OpFor(c)' => op'.t = cl'[c].t /\ cl'[c].pc = Waiting(op'.pc)
  PROVE  OneRequest(c)' /\ InTransit' \cap Req(c) = {}
<1>1. AtMostOnce(flight', Req(c)) /\ InTransit' \cap Req(c) = {}
  BY DEF OneRequest, Moves
<1>2. QED BY <1>1 DEF OneRequest

LEMMA RequestPosted ==
  ASSUME NEW c \in Clients, OneRequest(c), NEW gone, NEW n, Moves(gone, {n}),
         gone \cap Req(c) # {} \/ InTransit \cap Req(c) = {},
         ~OpFor(c)', Tells(c, n)'
  PROVE  OneRequest(c)' /\ InTransit' \cap Req(c) \subseteq {n}
<1>1. AtMostOnce(flight', Req(c)) /\ InTransit' \cap Req(c) \subseteq {n}
  BY DEF OneRequest, Moves
<1>2. QED BY <1>1 DEF OneRequest

LEMMA Unasked ==
  ASSUME NEW c \in Clients, OneRequest(c), cl[c].pc \notin {"opening", "tuning", "scan_stop"}
  PROVE  InTransit \cap Req(c) = {} /\ ~OpFor(c)
<1>1. \A seq : Waiting(seq) \in {"opening", "tuning", "scan_stop"}
  BY DEF Waiting
<1>2. ~OpFor(c)
  BY <1>1 DEF OneRequest
<1>3. \A e \in InTransit \cap Req(c) : FALSE
  BY <1>1 DEF OneRequest, Tells, Req
<1>4. QED BY <1>2, <1>3

-----------------------------------------------------------------------------
(* What does not concern a client does not disturb what is said of it.      *)
LEMMA ClientKept ==
  ASSUME NEW d \in Clients, ClientShape(d), OneRequest(d), Stops(d),
         NEW gone, NEW new, Moves(gone, new), new \cap Req(d) = {},
         cl'[d] = cl[d], UNCHANGED <<op, tuned, streaming>>,
         d \notin Scanners /\ (Served(d) \/ OpFor(d)) => new \cap StopsOf(cl[d].t) = {}
  PROVE  ClientShape(d)' /\ OneRequest(d)' /\ Stops(d)'
<1>1. OneRequest(d)' /\ (OpFor(d)' <=> OpFor(d))
  <2>1. OpFor(d)' <=> OpFor(d)
    BY DEF OpFor
  <2>2. QED BY <2>1, RequestKept
<1>2. InTransit' \subseteq InTransit \cup new
  BY DEF Moves
<1>3. Served(d)' => Served(d)
  BY <1>2 DEF Served
<1>4. ASSUME d \notin Scanners, Served(d) \/ OpFor(d), ~StopPending(cl[d].t)
      PROVE  ~StopPending(cl[d].t)'
  BY <1>2, <1>4 DEF StopPending
<1>5. Stops(d)'
  BY <1>1, <1>3, <1>4 DEF Stops, Runs
<1>6. QED BY <1>1, <1>5 DEF ClientShape

(* Nor does what is not for op disturb what is said of op and the tuners.   *)
LEMMA OpKept ==
  ASSUME OpProtocol, Streaming, NEW gone, NEW new, Moves(gone, new), new \cap ToOp = {},
         UNCHANGED <<locked_by, op, peer, tuned, streaming>>,
         \A t \in Tuners : tuned[t] => owner'[t] # Nobody,
         op.pc # "none" => owner'[op.t] = owner[op.t]
  PROVE  OpProtocol' /\ Streaming'
<1>1. AtMostOnce(flight', ToOp) /\ InTransit' \cap ToOp \subseteq InTransit \cap ToOp
  BY DEF OpProtocol, Moves
<1>2. OpProtocol'
  BY <1>1 DEF OpProtocol, OpAsks
<1>3. Streaming'
  BY <1>1 DEF Streaming
<1>4. QED BY <1>2, <1>3

LEMMA WellFormedKept ==
  ASSUME WellFormed, NEW gone, NEW new, Moves(gone, new), \A n \in new : Good(n)
  PROVE  WellFormed'
BY DEF WellFormed, Moves, Good

(* op has nobody else's tuner in use: not one that runs before a tune, nor  *)
(* one with a tune_stop to come.                                            *)
LEMMA ServedNotOp ==
  ASSUME IInv, Table, NEW c \in Clients \ Scanners, Served(c), op.pc # "none"
  PROVE  cl[c].t # op.t
<1>1. Runs(cl[c].t) /\ ~StopPending(cl[c].t)
  BY DEF Table, Stops
<1>2. op.t \in Tuners /\ op.c \in Clients /\ (tuned[op.t] <=> op.pc = "tune_stop")
  BY DEF Table, OpProtocol, IInv, Typed, OpHasClient
<1>3. CASE op.pc # "tune_stop"
  BY <1>1, <1>2, <1>3 DEF Runs
<1>4. CASE op.pc = "tune_stop" /\ op.from = "send"
  BY <1>1, <1>4 DEF StopPending
<1>5. CASE op.pc = "tune_stop" /\ op.from # "send"
  <2>1. op.from \in {"request", "send"}
        /\ op.from = IF op.c \in Scanners THEN "request" ELSE "retry"
    BY <1>5 DEF Table, OpProtocol
  <2>2. op.c \in Scanners /\ OpFor(op.c)
    BY <1>5, <2>1 DEF OpFor
  <2>3. Holds(op.c, op.t) /\ op.c # c
    BY <1>2, <2>2 DEF Table, OneRequest, Holds
  <2>4. QED BY <1>2, <2>3 DEF IInv, OneClaim, Holds
<1>6. QED BY <1>3, <1>4, <1>5

-----------------------------------------------------------------------------
(* A client's next request n: it had none, and what it does now is wait for *)
(* this one, or is over with the tuner.                                     *)
Requests(c, n) ==
  /\ cl[c].pc \notin {"opening", "tuning", "scan_stop"} /\ cl'[c].pc # "using"
  /\ \A d \in Clients : d # c => cl'[d] = cl[d]
  /\ ClientShape(c)'
  /\ n \in Event /\ n.type = "START" /\ n.c = c /\ n.from \in {"request", "send"} /\ Good(n)
  /\ n.from = "request" => Tells(c, n)'
  /\ n.from = "send" /\ n.seq = "tune_stop" => n.t = cl[c].t

LEMMA RequestKeepsTable ==
  ASSUME IInv, Table, NEW c \in Clients, NEW n, Requests(c, n), Post(<<n>>), Unscheduled
  PROVE  Table'
<1>1. QueuesIn(Event) /\ n \in Event
  BY TypedParts DEF IInv, QueuesTyped, Requests
<1>2. Moves({}, {n})
  BY <1>1, PostMoves DEF Unscheduled
<1>3. /\ n \notin ToOp /\ n \notin RetryTunes
      /\ \A d \in Clients : d # c => n \notin Req(d)
      /\ n \in Req(c) <=> n.from = "request"
  BY DEF Requests, ToOp, RetryTunes, Req
<1>4. InTransit \cap Req(c) = {} /\ ~OpFor(c)
  BY Unasked DEF Table, Requests
<1>5. \A t : n \in StopsOf(t) => t = cl[c].t /\ t \in Tuners
  BY DEF StopsOf, Requests, Good
<1>6. WellFormed' /\ OpProtocol' /\ Streaming'
  <2>1. \A t \in Tuners : tuned[t] => owner'[t] # Nobody
    BY DEF Table, Streaming, Unscheduled, table
  <2>2. QED BY <1>2, <1>3, <2>1, WellFormedKept, OpKept DEF Table, Requests, Unscheduled, table
<1>7. Order'
  <2>1. ASSUME NEW t \in Tuners, n \in StopsOf(t), NEW e \in InTransit \cap RetryTunesOf(t)
        PROVE  FALSE
    <3>1. e.type = "START" /\ e.seq = "tune" /\ e.from = "retry" /\ e.t = t
          /\ e.c \in Clients /\ e \in Req(e.c)
      BY <2>1, EventFields DEF RetryTunesOf, RetryTunes, Req
    <3>2. cl[e.c].pc = "tuning" /\ cl[e.c].t = t
      BY <2>1, <3>1 DEF Table, OneRequest, Tells, Waiting
    <3>3. e.c = c
      BY <1>5, <2>1, <3>1, <3>2 DEF IInv, OneClaim, Holds
    <3>4. QED BY <3>2, <3>3 DEF Requests
  <2>2. QED BY <1>1, <1>3, <2>1, OrderPost DEF Table, Unscheduled
<1>8. ASSUME NEW d \in Clients, d # c
      PROVE  ClientShape(d)' /\ OneRequest(d)' /\ Stops(d)'
  <2>1. n \notin StopsOf(cl[d].t)
    BY <1>5, <1>8 DEF IInv, OneClaim, Holds
  <2>2. QED BY <1>2, <1>3, <1>8, <2>1, ClientKept DEF Table, Requests, Unscheduled, table
<1>9. ClientShape(c)' /\ OneRequest(c)' /\ Stops(c)'
  <2>1. ~OpFor(c)'
    BY <1>4 DEF OpFor, Unscheduled
  <2>2. OneRequest(c)' /\ InTransit' \cap Req(c) \subseteq {n}
    <3>1. CASE n.from = "request"
      BY <1>2, <1>4, <2>1, <3>1, RequestPosted DEF Table, Requests
    <3>2. CASE n.from = "send"
      <4>1. n \notin Req(c)
        BY <1>3, <3>2
      <4>2. AtMostOnce(flight', Req(c)) /\ InTransit' \cap Req(c) = {}
        BY <1>2, <1>4, <4>1 DEF Table, OneRequest, Moves
      <4>3. QED BY <2>1, <4>2 DEF OneRequest
    <3>3. QED BY <3>1, <3>2 DEF Requests
  <2>3. ~Served(c)'
    BY <2>2 DEF Served, Requests
  <2>4. QED BY <2>1, <2>2, <2>3 DEF Requests, Stops
<1>10. QED BY <1>6, <1>7, <1>8, <1>9 DEF Table

LEMMA ClientKeepsTable ==
  ASSUME IInv, Table, NEW c \in Clients, Client(c)
  PROVE  Table'
<1>1. cl[c] \in ClType /\ cl \in [Clients -> ClType]
  BY TypedParts DEF IInv, LocalsTyped
<1>2. cl[c].t \in Tuners \cup {NoTuner} /\ ClientShape(c)
  BY <1>1 DEF ClType, Table
<1>3. CASE ClientOpen(c)
  <2> DEFINE n == Start("open", c, NoTuner, "request")
  <2>1. n \in Event
    BY StartTyped
  <2>2. cl[c].pc = "idle" /\ cl'[c] = [pc |-> "opening", t |-> NoTuner]
        /\ \A d \in Clients : d # c => cl'[d] = cl[d]
    BY <1>1, <1>3 DEF ClientOpen, Goes
  <2>3. Requests(c, n)
    BY <1>2, <2>1, <2>2 DEF Requests, ClientShape, Good, Tells, Waiting, Start
  <2>4. QED BY <1>3, <2>3, RequestKeepsTable DEF ClientOpen
<1>4. CASE ClientTune(c)
  <2>1. PICK n : n = Start(IF c \in Scanners THEN "tune" ELSE "tune_with_retry",
                           c, cl[c].t, "request")
    OBVIOUS
  <2>2. n \in Event
    BY <1>2, <2>1, StartTyped
  <2>3. cl[c].pc = "opened" /\ cl'[c] = [pc |-> "tuning", t |-> cl[c].t]
        /\ \A d \in Clients : d # c => cl'[d] = cl[d]
    BY <1>1, <1>4 DEF ClientTune, Goes
  <2>4. Requests(c, n)
    BY <1>2, <2>1, <2>2, <2>3 DEF Requests, ClientShape, Good, Tells, Waiting, Start
  <2>5. QED BY <1>4, <2>1, <2>4, RequestKeepsTable DEF ClientTune
<1>5. CASE ScanStop(c)
  <2> DEFINE n == Start("tune_stop", c, cl[c].t, "request")
  <2>1. n \in Event
    BY <1>2, StartTyped
  <2>2. cl[c].pc \in {"using", "failed"} /\ cl'[c] = [pc |-> "scan_stop", t |-> cl[c].t]
        /\ c \in Scanners /\ \A d \in Clients : d # c => cl'[d] = cl[d]
    BY <1>1, <1>5 DEF ScanStop, Goes
  <2>3. Requests(c, n)
    BY <1>2, <2>1, <2>2 DEF Requests, ClientShape, Good, Tells, Waiting, Start
  <2>4. QED BY <1>5, <2>3, RequestKeepsTable DEF ScanStop
<1>6. CASE SendStop(c)
  <2> DEFINE n == Start("tune_stop", c, cl[c].t, "send")
  <2>1. n \in Event
    BY <1>2, StartTyped
  <2>2. cl[c].pc \in {"opened", "using", "failed"} /\ cl'[c] = [pc |-> "closing", t |-> cl[c].t]
        /\ \A d \in Clients : d # c => cl'[d] = cl[d]
    BY <1>1, <1>6 DEF SendStop, Goes
  <2>3. Requests(c, n)
    BY <1>2, <2>1, <2>2 DEF Requests, ClientShape, Good, Start
  <2>4. QED BY <1>6, <2>3, RequestKeepsTable DEF SendStop
<1>7. CASE SendClose(c)
  <2> DEFINE n == Start("close", c, cl[c].t, "send")
  <2>1. n \in Event
    BY <1>2, StartTyped
  <2>2. cl[c].pc = "closing" /\ cl'[c] = [pc |-> "idle", t |-> NoTuner]
        /\ \A d \in Clients : d # c => cl'[d] = cl[d]
    BY <1>1, <1>7 DEF SendClose, Goes
  <2>3. Requests(c, n)
    BY <1>2, <2>1, <2>2 DEF Requests, ClientShape, Good, Start
  <2>4. QED BY <1>7, <2>3, RequestKeepsTable DEF SendClose
<1>8. QED BY <1>3, <1>4, <1>5, <1>6, <1>7 DEF Client

-----------------------------------------------------------------------------
(* The other modules answer.                                                *)
LEMMA PeerKeepsTable ==
  ASSUME IInv, Table, NEW ok \in BOOLEAN, PeerAnswers(ok)
  PROVE  Table'
<1> DEFINE n == Reply("op", ok)
<1>1. /\ QueuesIn(Event) /\ streaming \in [Tuners -> {"on", "off", "stuck"}]
      /\ peer \in {"none", "tune", "get_state", "tune_stop"} /\ op.pc \in OpPcs
      /\ locked_by \in {"op", NoFiber}
  BY TypedParts DEF IInv, QueuesTyped, LocalsTyped, OpType
<1>2. n \in Event /\ n.type = "REPLY" /\ n.to = "op" /\ n.ok = ok
  BY ReplyTyped DEF Reply
<1> HIDE DEF n
<1>3. /\ peer # "none" /\ peer' = "none" /\ Post(<<n>>) /\ batch' = batch /\ deferred' = deferred
      /\ UNCHANGED <<locked_by, owner, tuned, op, cl>>
  BY DEF PeerAnswers, table, n
<1>4. /\ n \in ToOp /\ n \notin RetryTunes /\ \A t : n \notin StopsOf(t)
      /\ \A c \in Clients : n \notin Req(c)
  BY <1>2, TunerServiceAssumption DEF ToOp, RetryTunes, StopsOf, Req
<1>5. Moves({}, {n})
  BY <1>1, <1>2, <1>3, PostMoves
<1>6. /\ InTransit \cap ToOp = {} /\ peer = OpAsks /\ op.pc \in {"tune", "poll", "cleanup", "tune_stop"}
      /\ op.t \in Tuners /\ AtMostOnce(flight, ToOp)
  BY <1>1, <1>3 DEF Table, OpProtocol, OpPcs
<1>7. \A e \in InTransit' \cap ToOp : e = n
  BY <1>5, <1>6 DEF Moves
<1>8. /\ \A t \in Tuners : t # op.t => streaming'[t] = streaming[t]
      /\ op.pc = "tune" => (ok <=> streaming'[op.t] = "on")
      /\ op.pc = "poll" => streaming'[op.t] = "on"
      /\ op.pc \in {"cleanup", "tune_stop"} => streaming'[op.t] # "on"
  <2>1. CASE op.pc = "tune"
    BY <1>1, <1>3, <1>6, <2>1 DEF PeerAnswers, OpAsks, Table, Streaming
  <2>2. CASE op.pc = "poll"
    BY <1>1, <1>3, <1>6, <2>2 DEF PeerAnswers, OpAsks, Table, Streaming
  <2>3. CASE op.pc \in {"cleanup", "tune_stop"}
    BY <1>1, <1>3, <1>6, <2>3 DEF PeerAnswers, OpAsks
  <2>4. QED BY <1>6, <2>1, <2>2, <2>3
<1>9. WellFormed'
  BY <1>2, <1>5, WellFormedKept DEF Table, Good
<1>10. OpProtocol'
  <2>1. AtMostOnce(flight', ToOp)
    BY <1>5, <1>6 DEF Moves
  <2>2. QED BY <1>3, <1>6, <2>1 DEF Table, OpProtocol
<1>11. Streaming'
  <2>1. \A t \in Tuners : streaming'[t] = "on" =>
          tuned[t] \/ (op.pc \in {"tune", "poll_timer", "poll", "cleanup"} /\ op.t = t)
    BY <1>6, <1>8 DEF Table, Streaming
  <2>2. QED BY <1>2, <1>3, <1>6, <1>7, <1>8, <2>1 DEF Table, Streaming
<1>12. Order'
  BY <1>1, <1>2, <1>3, <1>4, OrderPost DEF Table
<1>13. ASSUME NEW c \in Clients
       PROVE  ClientShape(c)' /\ OneRequest(c)' /\ Stops(c)'
  <2>1. OpFor(c)' <=> OpFor(c)
    BY <1>3 DEF OpFor
  <2>2. OneRequest(c)'
    BY <1>3, <1>4, <1>5, <2>1, RequestKept DEF Table
  <2>3. Served(c)' => Served(c)
    BY <1>3, <1>4, <1>5 DEF Moves, Served
  <2>4. ASSUME c \notin Scanners, Served(c)'
        PROVE  Runs(cl[c].t)'
    <3>1. Runs(cl[c].t) /\ cl[c].t # op.t
      BY <1>6, <2>3, <2>4, ServedNotOp DEF Table, Stops
    <3>2. cl[c].t \in Tuners
      <4>1. cl[c].pc \in {"using", "tuning"}
        BY <2>3, <2>4 DEF Served, Table, OneRequest, Tells
      <4>2. cl[c].t # NoTuner /\ cl[c].t \in Tuners \cup {NoTuner}
        BY <4>1, TypedParts DEF Table, ClientShape, IInv, LocalsTyped, ClType
      <4>3. QED BY <4>2
    <3>3. QED BY <1>3, <1>8, <3>1, <3>2 DEF Runs
  <2>5. StopPending(cl[c].t)' => StopPending(cl[c].t)
    BY <1>3, <1>4, <1>5 DEF Moves, StopPending
  <2>6. Stops(c)'
    BY <1>3, <2>1, <2>3, <2>4, <2>5 DEF Stops, Table
  <2>7. QED BY <1>3, <2>2, <2>6 DEF Table, ClientShape
<1>14. QED BY <1>9, <1>10, <1>11, <1>12, <1>13 DEF Table

(* Steps that leave the events in flight and everything but the queues.     *)
LEMMA QuietTable ==
  ASSUME Table, Order', flight' = flight,
         UNCHANGED <<locked_by, owner, tuned, op, peer, streaming, cl>>
  PROVE  Table'
<1>1. Moves({}, {}) /\ InTransit' = InTransit
  BY SameMoves
<1>2. WellFormed' /\ OpProtocol' /\ Streaming'
  <2>1. \A t \in Tuners : tuned[t] => owner'[t] # Nobody
    BY DEF Table, Streaming
  <2>2. QED BY <1>1, <2>1, WellFormedKept, OpKept DEF Table
<1>3. ASSUME NEW c \in Clients
      PROVE  ClientShape(c)' /\ OneRequest(c)' /\ Stops(c)'
  BY <1>1, ClientKept DEF Table
<1>4. QED BY <1>2, <1>3 DEF Table

LEMMA TurnKeepsTable ==
  ASSUME IInv, Table, Turn
  PROVE  Table'
<1>1. QueuesIn(Event) /\ locked_by \in {"op", NoFiber}
  BY TypedParts DEF IInv, QueuesTyped
<1>2. PICK expired : BeginTurn(expired)
  BY DEF Turn
<1>3. flight' = flight
  BY <1>1, <1>2, TurnKeeps
<1>4. Order'
  BY <1>1, <1>2, OrderTurn DEF Table
<1>5. QED BY <1>2, <1>3, <1>4, QuietTable DEF Turn, table, BeginTurn

LEMMA DeferKeepsTable ==
  ASSUME IInv, Table, NEW e, DeferEvent(e)
  PROVE  Table'
<1>1. QueuesIn(Event) /\ locked_by \in {"op", NoFiber}
  BY TypedParts DEF IInv, QueuesTyped
<1>2. Defer(e, Owner(e))
  BY DEF DeferEvent
<1>3. flight' = flight
  BY <1>1, <1>2, DeferKeeps
<1>4. Order'
  BY <1>1, <1>2, OrderDefer DEF Table
<1>5. QED BY <1>2, <1>3, <1>4, QuietTable DEF DeferEvent, table, Defer

-----------------------------------------------------------------------------
(* op goes on, with the tuner running.                                      *)
LEMMA OpGoesOn ==
  ASSUME IInv, Table, NEW gone, Moves(gone, {}), InTransit' \cap ToOp = {}, Order',
         UNCHANGED <<locked_by, owner, tuned, streaming, cl>>,
         op.pc \in {"tune", "poll_timer", "poll"}, op'.pc \in {"poll_timer", "poll", "cleanup"},
         op'.c = op.c, op'.t = op.t, op'.from = op.from, streaming[op.t] = "on",
         peer' = IF op'.pc = "poll_timer" THEN "none" ELSE OpAsks'
  PROVE  Table'
<1>1. WellFormed'
  BY WellFormedKept DEF Table
<1>2. OpProtocol'
  <2>1. AtMostOnce(flight', ToOp)
    BY DEF Table, OpProtocol, Moves
  <2>2. QED BY <2>1 DEF Table, OpProtocol, OpAsks
<1>3. Streaming'
  BY DEF Table, Streaming, OpAsks
<1>4. ASSUME NEW c \in Clients
      PROVE  ClientShape(c)' /\ OneRequest(c)' /\ Stops(c)'
  <2>1. OpFor(c)' <=> OpFor(c)
    BY DEF OpFor
  <2>2. OneRequest(c)'
    BY <2>1, RequestKept DEF Table, Waiting
  <2>3. (Served(c)' => Served(c)) /\ (StopPending(cl[c].t)' => StopPending(cl[c].t))
    BY DEF Moves, Served, StopPending
  <2>4. Stops(c)'
    BY <2>1, <2>3 DEF Stops, Table, Runs
  <2>5. QED BY <2>2, <2>4 DEF Table, ClientShape
<1>5. QED BY <1>1, <1>2, <1>3, <1>4 DEF Table

LEMMA PollTimerKeepsTable ==
  ASSUME IInv, Table, PollTimer
  PROVE  Table'
<1>1. /\ op \in OpType /\ op.pc = "poll_timer"
      /\ op' = [op EXCEPT !.pc = "poll"] /\ peer' = "get_state"
      /\ UNCHANGED <<inbox, batch, deferred, locked_by, owner, tuned, streaming, cl>>
  BY TypedParts
     DEF IInv, LocalsTyped, QueuesTyped, DueIsPolling, PollTimer, ResumeTimer, Await, table
<1>2. /\ op'.pc = "poll" /\ op'.c = op.c /\ op'.t = op.t /\ op'.from = op.from
  BY <1>1 DEF OpType
<1>3. flight' = flight
  BY <1>1 DEF flight
<1>4. Moves({}, {}) /\ InTransit' = InTransit
  BY <1>3, SameMoves
<1>5. Order'
  BY <1>1, <1>3 DEF Table, Order
<1>6. InTransit' \cap ToOp = {} /\ streaming[op.t] = "on"
  BY <1>1, <1>4 DEF Table, OpProtocol, Streaming
<1>7. QED BY <1>1, <1>2, <1>4, <1>5, <1>6, OpGoesOn DEF OpAsks

(* An answer to op is the only one, and nothing else is asked.              *)
LEMMA OpAnswered ==
  ASSUME IInv, Table, NEW e, Replies(e, "op"), op.pc # "none"
  PROVE  /\ QueuesIn(Event) /\ e \in Event /\ e \in InTransit \cap ToOp /\ e.ok \in BOOLEAN
         /\ locked_by = "op" /\ peer = "none" /\ op \in OpType /\ op.c \in Clients /\ op.t \in Tuners
         /\ tuned \in [Tuners -> BOOLEAN]
         /\ inbox' = inbox => Moves({e}, {}) /\ InTransit' \cap ToOp = {}
<1>1. QueuesIn(Event) /\ op \in OpType /\ tuned \in [Tuners -> BOOLEAN] /\ op.c \in Clients
  BY TypedParts DEF IInv, QueuesTyped, LocalsTyped, OpHasClient
<1>2. Take(e, "op") /\ e.type = "REPLY" /\ e.to = "op"
  BY DEF Replies
<1>3. e \in InTransit /\ e \in Event
  BY <1>1, <1>2, TakeMoves
<1>4. e \in ToOp /\ e.ok \in BOOLEAN
  BY <1>2, <1>3, EventFields DEF ToOp
<1>5. locked_by = "op" /\ peer = "none" /\ op.t \in Tuners
  BY <1>3, <1>4 DEF Table, OpProtocol
<1>6. ASSUME inbox' = inbox
      PROVE  Moves({e}, {}) /\ InTransit' \cap ToOp = {}
  <2>1. Moves({e}, {})
    BY <1>1, <1>2, <1>6, TakeMoves
  <2>2. QED BY <1>4, <2>1 DEF Moves, Table, OpProtocol
<1>7. QED BY <1>1, <1>3, <1>4, <1>5, <1>6

LEMMA AnswerGoesOn ==
  ASSUME IInv, Table, NEW e, Replies(e, "op"), op.pc \in {"tune", "poll"}, streaming[op.t] = "on",
         UNCHANGED <<inbox, locked_by, table, retry, streaming, cl>>,
         op'.pc \in {"poll_timer", "cleanup"}, op'.c = op.c, op'.t = op.t, op'.from = op.from,
         peer' = IF op'.pc = "poll_timer" THEN "none" ELSE "tune_stop"
  PROVE  Table'
<1>1. /\ QueuesIn(Event) /\ e \in ToOp /\ locked_by = "op"
      /\ Moves({e}, {}) /\ InTransit' \cap ToOp = {}
  BY OpAnswered
<1>2. Order'
  BY <1>1, OrderTake DEF Table, Replies
<1>3. peer' = IF op'.pc = "poll_timer" THEN "none" ELSE OpAsks'
  BY DEF OpAsks
<1>4. QED BY <1>1, <1>2, <1>3, OpGoesOn DEF table

(* op ends: its client is answered, the lock is free, and the entry says    *)
(* what the tuner does.                                                     *)
AnsweredOp(e, ok, new) ==
  /\ Moves({e}, new)
  /\ \A n \in new : n = Reply(op.c, ok) /\ op.from = "retry" /\ n \in Event
  /\ op.from = "retry" => new = {Reply(op.c, ok)} /\ cl' = cl /\ op.c \notin Scanners /\ OpFor(op.c)
  /\ op.from = "request" =>
       /\ op.c \in Scanners /\ OpFor(op.c) /\ new = {}
       /\ \A d \in Clients : d # op.c => cl'[d] = cl[d]
       /\ cl'[op.c].t = cl[op.c].t /\ cl'[op.c].pc \in {"opened", "using", "failed"}
  /\ op.from \notin {"retry", "request"} => new = {} /\ cl' = cl
  /\ inbox' = inbox \/ \E n \in Event : Post(<<n>>) /\ \A t \in Tuners : n \notin StopsOf(t)

LEMMA AnswerOfOp ==
  ASSUME IInv, Table, NEW e, Replies(e, "op"), op.pc # "none", NEW ok \in BOOLEAN, Answer(op, ok)
  PROVE  \E new : AnsweredOp(e, ok, new)
<1>1. /\ QueuesIn(Event) /\ e \in ToOp /\ op.c \in Clients /\ cl \in [Clients -> ClType]
      /\ inbox' = inbox => Moves({e}, {})
  BY OpAnswered, TypedParts DEF IInv, LocalsTyped
<1>2. op.from = IF op.pc = "tune_stop" /\ op.from = "send" THEN "send"
                ELSE IF op.c \in Scanners THEN "request" ELSE "retry"
  BY DEF Table, OpProtocol
<1>3. CASE op.from = "retry"
  <2>1. PICK n : n = Reply(op.c, ok)
    OBVIOUS
  <2>2. n \in Event /\ \A t : n \notin StopsOf(t)
    BY <1>1, <2>1, ReplyTyped DEF StopsOf, Reply
  <2>3. Post(<<n>>) /\ cl' = cl
    BY <1>3, <2>1 DEF Answer
  <2>4. Moves({e}, {n})
    BY <1>1, <2>2, <2>3, TakeMoves DEF Replies
  <2>5. op.c \notin Scanners /\ OpFor(op.c)
    BY <1>2, <1>3 DEF OpFor
  <2>6. AnsweredOp(e, ok, {n})
    BY <1>3, <2>1, <2>2, <2>3, <2>4, <2>5 DEF AnsweredOp
  <2>7. QED BY <2>6
<1>4. CASE op.from = "request"
  <2>1. PICK pc \in {"opened", "using", "failed"} : Goes(op.c, pc, cl[op.c].t)
    BY <1>4 DEF Answer
  <2>2. inbox' = inbox
    BY <1>4 DEF Answer
  <2>3. /\ \A d \in Clients : d # op.c => cl'[d] = cl[d]
        /\ cl'[op.c] = [pc |-> pc, t |-> cl[op.c].t]
    BY <1>1, <2>1 DEF Goes
  <2>4. op.c \in Scanners /\ OpFor(op.c)
    BY <1>2, <1>4 DEF OpFor
  <2>5. AnsweredOp(e, ok, {})
    BY <1>1, <1>4, <2>2, <2>3, <2>4 DEF AnsweredOp
  <2>6. QED BY <2>5
<1>5. CASE op.from \notin {"retry", "request"}
  <2>1. UNCHANGED <<inbox, cl>>
    BY <1>5 DEF Answer
  <2>2. AnsweredOp(e, ok, {})
    BY <1>1, <1>5, <2>1 DEF AnsweredOp
  <2>3. QED BY <2>2
<1>6. QED BY <1>3, <1>4, <1>5

LEMMA FinishKeepsTable ==
  ASSUME IInv, Table, NEW e, Replies(e, "op"), op.pc # "none",
         NEW ok \in BOOLEAN, NEW x \in BOOLEAN, Finish(ok), tuned' = [tuned EXCEPT ![op.t] = x],
         streaming[op.t] = "on" => x,
         ok /\ op.pc # "tune_stop" => x /\ streaming[op.t] = "on"
  PROVE  Table'
<1>1. /\ QueuesIn(Event) /\ e \in ToOp /\ e \in InTransit /\ op.c \in Clients /\ op.t \in Tuners
      /\ locked_by = "op" /\ peer = "none" /\ tuned \in [Tuners -> BOOLEAN]
  BY OpAnswered
<1>2. /\ locked_by' = NoFiber /\ op'.pc = "none" /\ UNCHANGED <<owner, peer, streaming>> /\ Answer(op, ok)
  BY <1>1 DEF Finish, Released, NoOp
<1>0. PICK new : AnsweredOp(e, ok, new)
  BY <1>2, AnswerOfOp
<1>3. /\ Moves({e}, new)
      /\ \A n \in new : n = Reply(op.c, ok) /\ op.from = "retry" /\ n \in Event
      /\ op.from = "retry" => new = {Reply(op.c, ok)} /\ cl' = cl /\ op.c \notin Scanners /\ OpFor(op.c)
      /\ op.from = "request" =>
           /\ op.c \in Scanners /\ OpFor(op.c) /\ new = {}
           /\ \A d \in Clients : d # op.c => cl'[d] = cl[d]
           /\ cl'[op.c].t = cl[op.c].t /\ cl'[op.c].pc \in {"opened", "using", "failed"}
      /\ op.from \notin {"retry", "request"} => new = {} /\ cl' = cl
      /\ inbox' = inbox \/ \E n \in Event : Post(<<n>>) /\ \A t \in Tuners : n \notin StopsOf(t)
  BY <1>0 DEF AnsweredOp
<1>4. /\ \A n \in new : n.type = "REPLY" /\ n.to = op.c /\ n.ok = ok /\ Good(n)
      /\ new \cap ToOp = {} /\ \A t : new \cap StopsOf(t) = {}
      /\ \A d \in Clients : d # op.c => new \cap Req(d) = {}
  <2>1. \A n \in new : n.type = "REPLY" /\ n.to = op.c /\ n.ok = ok
    BY <1>3 DEF Reply
  <2>2. QED BY <1>1, <2>1, TunerServiceAssumption DEF Good, ToOp, StopsOf, Req
<1>5. /\ \A t \in Tuners : t # op.t => tuned'[t] = tuned[t]
      /\ tuned'[op.t] = x
  BY <1>1
<1>6. InTransit' \cap ToOp = {} /\ AtMostOnce(flight', ToOp)
  BY <1>1, <1>3, <1>4 DEF Moves, Table, OpProtocol
<1>7. WellFormed' /\ OpProtocol' /\ Streaming' /\ Order'
  <2>1. WellFormed'
    BY <1>3, <1>4, WellFormedKept DEF Table
  <2>2. OpProtocol'
    BY <1>1, <1>2, <1>6 DEF OpProtocol, NoFiber
  <2>3. Streaming'
    <3>1. \A t \in Tuners : tuned'[t] => owner[t] # Nobody
      BY <1>1, <1>5, OwnersAreSomebody DEF Table, Streaming, OpProtocol
    <3>2. \A t \in Tuners : streaming[t] = "on" => tuned'[t]
      BY <1>5 DEF Table, Streaming
    <3>3. QED BY <1>1, <1>2, <1>6, <3>1, <3>2 DEF Streaming
  <2>4. Order'
    <3>1. /\ QueuesIn(Event) /\ Order /\ Take(e, "op")
          /\ inbox' = inbox \/ \E n \in Event : Post(<<n>>) /\ \A t \in Tuners : n \notin StopsOf(t)
      BY <1>1, <1>3 DEF Table, Replies
    <3>2. locked_by' \in {"op", NoFiber} /\ (locked_by' = "op" => InTransit' \cap ToOp = {})
      BY <1>2, <1>6
    <3>3. QED BY <1>1, <3>1, <3>2, OrderTake
  <2>5. QED BY <2>1, <2>2, <2>3, <2>4
<1>8. \A d \in Clients : ~OpFor(d)'
  BY <1>2 DEF OpFor
<1>9. \A t : StopPending(t)' => StopPending(t)
  BY <1>2, <1>3, <1>4 DEF Moves, StopPending
<1>10. ASSUME NEW d \in Clients \ Scanners, Served(d)
       PROVE  Runs(cl[d].t)' /\ ~StopPending(cl[d].t)'
  <2>1. cl[d].t # op.t /\ Runs(cl[d].t) /\ ~StopPending(cl[d].t)
    BY <1>10, ServedNotOp DEF Table, Stops
  <2>2. cl[d].t \in Tuners
    <3>1. cl[d].pc \in {"using", "tuning"}
      BY <1>10 DEF Served, Table, OneRequest, Tells
    <3>2. cl[d].t # NoTuner /\ cl[d].t \in Tuners \cup {NoTuner}
      BY <3>1, TypedParts DEF Table, ClientShape, IInv, LocalsTyped, ClType
    <3>3. QED BY <3>2
  <2>3. cl'[d].t = cl[d].t
    BY <1>3
  <2>4. QED BY <1>2, <1>5, <1>9, <2>1, <2>2, <2>3 DEF Runs
<1>11. ASSUME NEW d \in Clients, d # op.c \/ op.from \notin {"retry", "request"}
       PROVE  ClientShape(d)' /\ OneRequest(d)' /\ Stops(d)'
  <2>1. new \cap Req(d) = {} /\ cl'[d] = cl[d]
    BY <1>3, <1>4, <1>11
  <2>2. OneRequest(d)'
    BY <1>3, <1>8, <2>1, RequestKept DEF Table
  <2>3. Served(d)' => Served(d)
    BY <1>3, <2>1 DEF Moves, Served
  <2>4. Stops(d)'
    BY <1>8, <1>10, <2>1, <2>3 DEF Stops
  <2>5. QED BY <2>1, <2>2, <2>4 DEF ClientShape, Table
<1>12. ASSUME NEW c \in Clients, c = op.c, op.from = "retry"
       PROVE  ClientShape(c)' /\ OneRequest(c)' /\ Stops(c)'
  <2>1. PICK n : n = Reply(op.c, ok)
    OBVIOUS
  <2>2. new = {n} /\ n.type = "REPLY" /\ n.ok = ok /\ cl' = cl /\ c \notin Scanners /\ OpFor(c)
    BY <1>3, <1>4, <1>12, <2>1
  <2>3. op.t = cl[c].t /\ InTransit \cap Req(c) = {} /\ cl[c].pc = Waiting(op.pc) /\ ~StopPending(op.t)
    BY <2>2 DEF Table, OneRequest, Stops
  <2>4. op.pc # "tune_stop" /\ cl[c].pc = "tuning"
    <3>1. op.pc # "tune_stop" /\ op.pc \in OpPcs /\ op.pc # "open"
      BY <1>12, OpAnswered DEF Table, OpProtocol, OpType, OpPcs
    <3>2. QED BY <2>3, <3>1 DEF Waiting
  <2>5. Tells(c, n)'
    BY <2>2, <2>4 DEF Tells
  <2>6. OneRequest(c)' /\ InTransit' \cap Req(c) \subseteq {n}
    BY <1>3, <1>8, <2>2, <2>3, <2>5, RequestPosted DEF Table
  <2>7. Served(c)' => ok
    BY <2>2, <2>4, <2>6 DEF Served
  <2>8. Stops(c)'
    BY <1>1, <1>2, <1>5, <1>8, <1>9, <2>2, <2>3, <2>4, <2>7 DEF Stops, Runs
  <2>9. QED BY <2>2, <2>6, <2>8 DEF ClientShape, Table
<1>13. ASSUME NEW c \in Clients, c = op.c, op.from = "request"
       PROVE  ClientShape(c)' /\ OneRequest(c)' /\ Stops(c)'
  <2>1. /\ c \in Scanners /\ OpFor(c) /\ new = {}
        /\ cl'[c].t = cl[c].t /\ cl'[c].pc \in {"opened", "using", "failed"}
    BY <1>3, <1>13
  <2>2. InTransit \cap Req(c) = {} /\ cl[c].pc = Waiting(op.pc) /\ op.pc # "open"
    BY <2>1, OpAnswered DEF Table, OneRequest, OpType, OpPcs
  <2>3. InTransit' \cap Req(c) = {} /\ AtMostOnce(flight', Req(c))
    BY <1>3, <2>1, <2>2 DEF Moves, Table, OneRequest
  <2>4. OneRequest(c)' /\ Stops(c)'
    BY <1>8, <2>1, <2>3 DEF OneRequest, Stops
  <2>5. ClientShape(c)'
    BY <2>1, <2>2 DEF ClientShape, Table, Waiting
  <2>6. QED BY <2>4, <2>5
<1>14. QED BY <1>7, <1>11, <1>12, <1>13 DEF Table

LEMMA AnsweredKeepsTable ==
  ASSUME IInv, Table, NEW e, PeerAnswered(e)
  PROVE  Table'
<1>1. /\ Replies(e, "op") /\ op.pc # "none"
  BY DEF PeerAnswered, TuneAnswered, PollAnswered, CleanupAnswered, StopAnswered
<1>2. /\ e \in InTransit \cap ToOp /\ e.ok \in BOOLEAN /\ op.t \in Tuners /\ op \in OpType
      /\ tuned \in [Tuners -> BOOLEAN] /\ peer = "none"
  BY <1>1, OpAnswered
<1>3. tuned[op.t] \in BOOLEAN /\ tuned = [tuned EXCEPT ![op.t] = tuned[op.t]]
  BY <1>2
<1>4. tuned[op.t] <=> op.pc = "tune_stop"
  BY <1>1 DEF Table, OpProtocol
<1>5. /\ op.pc = "tune" => (e.ok <=> streaming[op.t] = "on")
      /\ op.pc = "cleanup" => streaming[op.t] # "on"
      /\ op.pc = "tune_stop" /\ e.ok => streaming[op.t] # "on"
      /\ op.pc = "poll" => streaming[op.t] = "on"
  BY <1>2 DEF Table, Streaming
<1>6. CASE TuneAnswered(e)
  <2>1. CASE e.ok
    <3>1. Await("poll_timer", "none") /\ op.pc = "tune"
      BY <1>6, <2>1 DEF TuneAnswered
    <3>2. /\ op'.pc = "poll_timer" /\ op'.c = op.c /\ op'.t = op.t /\ op'.from = op.from
      BY <1>2, <3>1 DEF Await, OpType
    <3>3. QED BY <1>1, <1>5, <2>1, <3>1, <3>2, AnswerGoesOn DEF Await
  <2>2. CASE ~e.ok
    <3>1. Finish(FALSE) /\ tuned' = tuned /\ op.pc = "tune"
      BY <1>6, <2>2 DEF TuneAnswered
    <3>2. tuned' = [tuned EXCEPT ![op.t] = tuned[op.t]] /\ (streaming[op.t] = "on" => tuned[op.t])
      BY <1>3, <1>5, <2>2, <3>1
    <3>3. QED BY <1>1, <1>3, <3>1, <3>2, FinishKeepsTable
  <2>3. QED BY <2>1, <2>2
<1>7. CASE PollAnswered(e)
  <2>1. op.pc = "poll" /\ streaming[op.t] = "on"
    BY <1>5, <1>7 DEF PollAnswered
  <2>2. CASE Finish(TRUE) /\ tuned' = [tuned EXCEPT ![op.t] = TRUE]
    BY <1>1, <2>1, <2>2, FinishKeepsTable
  <2>3. CASE /\ op' = [op EXCEPT !.pc = "poll_timer", !.polls = op.polls + 1]
             /\ UNCHANGED <<inbox, locked_by, table, retry, peer, streaming, cl>>
    <3>1. /\ op'.pc = "poll_timer" /\ op'.c = op.c /\ op'.t = op.t /\ op'.from = op.from
      BY <1>2, <2>3 DEF OpType
    <3>2. QED BY <1>1, <1>2, <2>1, <2>3, <3>1, AnswerGoesOn
  <2>4. CASE Await("cleanup", "tune_stop")
    <3>1. /\ op'.pc = "cleanup" /\ op'.c = op.c /\ op'.t = op.t /\ op'.from = op.from
      BY <1>2, <2>4 DEF Await, OpType
    <3>2. QED BY <1>1, <2>1, <2>4, <3>1, AnswerGoesOn DEF Await
  <2>5. QED BY <1>7, <2>2, <2>3, <2>4 DEF PollAnswered
<1>8. CASE CleanupAnswered(e)
  <2>1. Finish(FALSE) /\ tuned' = tuned /\ op.pc = "cleanup"
    BY <1>8 DEF CleanupAnswered
  <2>2. tuned' = [tuned EXCEPT ![op.t] = tuned[op.t]] /\ (streaming[op.t] = "on" => tuned[op.t])
    BY <1>3, <1>5, <2>1
  <2>3. QED BY <1>1, <1>3, <2>1, <2>2, FinishKeepsTable
<1>9. CASE StopAnswered(e)
  <2>1. PICK x \in BOOLEAN : x = IF e.ok THEN FALSE ELSE tuned[op.t]
    BY <1>3
  <2>2. Finish(e.ok) /\ tuned' = [tuned EXCEPT ![op.t] = x] /\ op.pc = "tune_stop"
    BY <1>9, <2>1 DEF StopAnswered
  <2>3. streaming[op.t] = "on" => x
    BY <1>4, <1>5, <2>1, <2>2
  <2>4. QED BY <1>1, <1>2, <2>2, <2>3, FinishKeepsTable
<1>10. QED BY <1>6, <1>7, <1>8, <1>9 DEF PeerAnswered

-----------------------------------------------------------------------------
(* Handlers that find the lock free.                                        *)
LEMMA TakenFree ==
  ASSUME IInv, Table, NEW e, NEW o, Take(e, o), e.type = "START" \/ o \in Clients
  PROVE  /\ QueuesIn(Event) /\ e \in Event /\ e \in InTransit /\ Good(e)
         /\ locked_by = NoFiber /\ op.pc = "none" /\ peer = "none" /\ InTransit \cap ToOp = {}
         /\ \A c \in Clients : ~OpFor(c)
         /\ cl \in [Clients -> ClType]
         /\ e.type = "START" => e.c \in Clients
<1>1. QueuesIn(Event) /\ locked_by \in {"op", NoFiber} /\ cl \in [Clients -> ClType]
  BY TypedParts DEF IInv, QueuesTyped, LocalsTyped
<1>2. e \in Event /\ e \in InTransit
  BY <1>1, TakeMoves
<1>3. locked_by = NoFiber
  BY <1>1, <1>2, TunerServiceAssumption DEF Take, Deferrable, Event, StartEvent, ReplyEvent
<1>4. op.pc = "none" /\ peer = "none" /\ InTransit \cap ToOp = {}
  BY <1>3 DEF Table, OpProtocol, NoFiber
<1>5. Good(e)
  BY <1>2 DEF Table, WellFormed
<1>6. QED BY <1>1, <1>2, <1>3, <1>4, <1>5, EventFields DEF OpFor

(* One client's request e is handled: answered to the client, or followed   *)
(* by n, to or from its retry fiber.                                        *)
LEMMA FreeStepKeepsTable ==
  ASSUME IInv, Table, NEW e, NEW o, Take(e, o), e.type = "START" \/ o \in Clients,
         NEW c \in Clients, NEW new \in SUBSET Event,
         (new = {} /\ inbox' = inbox) \/ \E n \in Event : new = {n} /\ Post(<<n>>),
         \A n \in new : Good(n) /\ n \in Req(c) /\ n \notin ToOp /\ \A t : n \notin StopsOf(t),
         UNCHANGED <<locked_by, tuned, op, peer, streaming>>,
         \A t \in Tuners : tuned[t] => owner'[t] # Nobody,
         \A d \in Clients : d # c => cl'[d] = cl[d],
         Moves({e}, new) => ClientShape(c)' /\ OneRequest(c)' /\ Stops(c)'
  PROVE  Table'
<1>1. /\ QueuesIn(Event) /\ locked_by = NoFiber /\ op.pc = "none"
      /\ InTransit \cap ToOp = {}
  BY TakenFree
<1>2. Moves({e}, new)
  BY <1>1, TakeMoves
<1>3. /\ new \cap ToOp = {} /\ \A t : new \cap StopsOf(t) = {}
      /\ \A d \in Clients : d # c => new \cap Req(d) = {}
  BY TunerServiceAssumption DEF Req
<1>4. WellFormed' /\ OpProtocol' /\ Streaming'
  BY <1>1, <1>2, <1>3, WellFormedKept, OpKept DEF Table
<1>5. Order'
  <2>1. inbox' = inbox \/ \E n \in Event : Post(<<n>>) /\ \A t \in Tuners : n \notin StopsOf(t)
    OBVIOUS
  <2>2. locked_by' = NoFiber /\ locked_by' # "op"
    BY <1>1 DEF NoFiber
  <2>3. QED BY <1>1, <2>1, <2>2, OrderTake DEF Table
<1>6. ASSUME NEW d \in Clients, d # c
      PROVE  ClientShape(d)' /\ OneRequest(d)' /\ Stops(d)'
  BY <1>2, <1>3, <1>6, ClientKept DEF Table
<1>7. QED BY <1>2, <1>4, <1>5, <1>6 DEF Table

LEMMA FreeStepAlone ==
  ASSUME IInv, Table, NEW e, NEW o, Take(e, o), e.type = "START" \/ o \in Clients,
         NEW c \in Clients, inbox' = inbox,
         UNCHANGED <<locked_by, tuned, op, peer, streaming>>,
         \A t \in Tuners : tuned[t] => owner'[t] # Nobody,
         \A d \in Clients : d # c => cl'[d] = cl[d],
         Moves({e}, {}) => ClientShape(c)' /\ OneRequest(c)' /\ Stops(c)'
  PROVE  Table'
<1>1. PICK new \in SUBSET Event : new = {}
  OBVIOUS
<1>2. Moves({e}, new) => ClientShape(c)' /\ OneRequest(c)' /\ Stops(c)'
  BY <1>1
<1>3. \A n \in new : Good(n) /\ n \in Req(c) /\ n \notin ToOp /\ \A t : n \notin StopsOf(t)
  BY <1>1
<1>4. QED BY <1>1, <1>2, <1>3, FreeStepKeepsTable

(* A request that fails the check is answered at once.                      *)
LEMMA RefusedKeepsTable ==
  ASSUME IInv, Table, NEW e, Take(e, NoFiber), e.type = "START",
         e.seq \in {"tune", "tune_stop", "tune_with_retry"}, Answer(e, FALSE),
         UNCHANGED <<locked_by, owner, tuned, op, peer, streaming>>
  PROVE  Table'
<1>1. /\ QueuesIn(Event) /\ e \in Event /\ e \in InTransit /\ Good(e) /\ e.c \in Clients
      /\ op.pc = "none" /\ (\A d \in Clients : ~OpFor(d)) /\ cl \in [Clients -> ClType]
  BY TakenFree
<1> DEFINE c == e.c
<1>2. (\A d \in Clients : ~OpFor(d)') /\ OneRequest(c) /\ ClientShape(c) /\ Stops(c)
  BY <1>1 DEF OpFor, Table
<1>3. \A t \in Tuners : tuned[t] => owner'[t] # Nobody
  BY DEF Table, Streaming
<1>4. e.from \in {"request", "retry"} =>
        e \in Req(c) /\ cl[c].pc \in {"tuning", "scan_stop"} /\ (e.from = "retry" => cl[c].pc = "tuning")
  <2>1. e.from \in {"request", "retry"} => e \in Req(c)
    BY <1>1 DEF Req
  <2>2. e.from \in {"request", "retry"} => cl[c].pc = Waiting(e.seq)
    BY <1>1, <2>1 DEF Table, OneRequest, Tells
  <2>3. e.from = "retry" => e.seq = "tune"
    BY <1>1 DEF Good
  <2>4. QED BY <2>1, <2>2, <2>3 DEF Waiting
<1>5. CASE e.from = "retry"
  <2>1. PICK n : n = Reply(c, FALSE)
    OBVIOUS
  <2>2. /\ n \in Event /\ n.type = "REPLY" /\ n.to = c /\ n.ok = FALSE
        /\ Post(<<n>>) /\ cl' = cl /\ c \notin Scanners
    BY <1>1, <1>5, <2>1, ReplyTyped DEF Answer, Reply, Good
  <2>3. Good(n) /\ n \in Req(c) /\ n \notin ToOp /\ \A t : n \notin StopsOf(t)
    BY <1>1, <2>2, TunerServiceAssumption DEF Good, Req, ToOp, StopsOf
  <2>4. ASSUME Moves({e}, {n})
        PROVE  ClientShape(c)' /\ OneRequest(c)' /\ Stops(c)'
    <3>1. Tells(c, n)'
      BY <1>4, <1>5, <2>2 DEF Tells
    <3>2. OneRequest(c)' /\ InTransit' \cap Req(c) \subseteq {n}
      BY <1>1, <1>2, <1>4, <1>5, <2>4, <3>1, RequestPosted
    <3>3. ~Served(c)'
      BY <1>4, <1>5, <2>2, <3>2 DEF Served
    <3>4. QED BY <1>1, <1>2, <2>2, <3>2, <3>3 DEF Stops, ClientShape
  <2>5. QED BY <1>1, <1>3, <2>2, <2>3, <2>4, FreeStepKeepsTable
<1>6. CASE e.from = "request"
  <2>1. PICK pc \in {"opened", "failed"} : Goes(c, pc, cl[c].t)
    BY <1>6 DEF Answer
  <2>2. /\ inbox' = inbox /\ cl'[c] = [pc |-> pc, t |-> cl[c].t]
        /\ \A d \in Clients : d # c => cl'[d] = cl[d]
    BY <1>1, <1>6, <2>1 DEF Answer, Goes
  <2>3. ASSUME Moves({e}, {})
        PROVE  ClientShape(c)' /\ OneRequest(c)' /\ Stops(c)'
    <3>1. OneRequest(c)' /\ InTransit' \cap Req(c) = {}
      BY <1>1, <1>2, <1>4, <1>6, <2>3, RequestTaken
    <3>2. ~Served(c)'
      BY <2>2, <3>1 DEF Served
    <3>3. QED BY <1>1, <1>2, <1>4, <1>6, <2>2, <3>1, <3>2 DEF Stops, ClientShape
  <2>4. QED BY <1>1, <1>3, <2>2, <2>3, FreeStepAlone
<1>7. CASE e.from \notin {"retry", "request"}
  <2>1. inbox' = inbox /\ cl' = cl
    BY <1>7 DEF Answer
  <2>2. ASSUME Moves({e}, {})
        PROVE  ClientShape(c)' /\ OneRequest(c)' /\ Stops(c)'
    BY <1>1, <1>2, <2>1, <2>2, ClientKept
  <2>3. QED BY <1>1, <1>3, <2>1, <2>2, FreeStepAlone
<1>8. QED BY <1>5, <1>6, <1>7

LEMMA OpenKeepsTable ==
  ASSUME IInv, Table, NEW e, OnOpen(e)
  PROVE  Table'
<1>1. /\ Take(e, NoFiber) /\ e.type = "START" /\ e.seq = "open"
      /\ UNCHANGED <<inbox, locked_by, tuned, op, retry, peer, streaming>>
  BY DEF OnOpen, Starts
<1>2. /\ QueuesIn(Event) /\ e \in Event /\ e \in InTransit /\ Good(e) /\ e.c \in Clients
      /\ op.pc = "none" /\ (\A d \in Clients : ~OpFor(d)) /\ cl \in [Clients -> ClType]
      /\ owner \in [Tuners -> Modules \cup {Nobody}]
  BY <1>1, TakenFree, TypedParts DEF IInv, LocalsTyped
<1> DEFINE c == e.c
<1>3. (\A d \in Clients : ~OpFor(d)') /\ OneRequest(c) /\ ClientShape(c)
  BY <1>1, <1>2 DEF OpFor, Table
<1>4. e \in Req(c)
  BY <1>1, <1>2 DEF Req, Good
<1>5. /\ \A t \in Tuners : owner'[t] = owner[t] \/ owner'[t] # Nobody
      /\ \E pc \in {"opened", "idle"}, t \in Tuners \cup {NoTuner} :
           Goes(c, pc, t) /\ (pc = "idle" <=> t = NoTuner)
  <2>1. CASE \E t \in Tuners : /\ owner' = [owner EXCEPT ![t] = ModuleOf[c]]
                               /\ Goes(c, "opened", t)
    BY <1>2, <2>1, OwnersAreSomebody, TunersDiffer
  <2>2. CASE Goes(c, "idle", NoTuner) /\ UNCHANGED owner
    BY <2>2
  <2>3. QED BY <2>1, <2>2 DEF OnOpen
<1>6. PICK pc \in {"opened", "idle"}, t \in Tuners \cup {NoTuner} :
        Goes(c, pc, t) /\ (pc = "idle" <=> t = NoTuner)
  BY <1>5
<1>7. cl'[c] = [pc |-> pc, t |-> t] /\ \A d \in Clients : d # c => cl'[d] = cl[d]
  BY <1>2, <1>6 DEF Goes
<1>8. ASSUME Moves({e}, {})
      PROVE  ClientShape(c)' /\ OneRequest(c)' /\ Stops(c)'
  <2>1. OneRequest(c)' /\ InTransit' \cap Req(c) = {}
    BY <1>2, <1>3, <1>4, <1>8, RequestTaken
  <2>2. ~Served(c)'
    BY <1>7, <2>1 DEF Served
  <2>3. QED BY <1>2, <1>3, <1>6, <1>7, <2>1, <2>2 DEF Stops, ClientShape
<1>9. \A u \in Tuners : tuned[u] => owner'[u] # Nobody
  BY <1>5 DEF Table, Streaming
<1>10. QED BY <1>1, <1>2, <1>7, <1>8, <1>9, FreeStepAlone

LEMMA CloseKeepsTable ==
  ASSUME IInv, Table, NEW e, OnClose(e)
  PROVE  Table'
<1>1. /\ Take(e, NoFiber) /\ e.type = "START" /\ e.seq = "close"
      /\ UNCHANGED <<inbox, locked_by, tuned, op, retry, peer, streaming, cl>>
  BY DEF OnClose, Starts
<1>2. /\ e.c \in Clients /\ owner \in [Tuners -> Modules \cup {Nobody}]
  BY <1>1, TakenFree, TypedParts DEF IInv, LocalsTyped
<1>3. \A u \in Tuners : tuned[u] => owner'[u] # Nobody
  BY <1>2 DEF OnClose, Table, Streaming
<1>4. ASSUME Moves({e}, {})
      PROVE  ClientShape(e.c)' /\ OneRequest(e.c)' /\ Stops(e.c)'
  BY <1>1, <1>2, <1>4, ClientKept DEF Table
<1>5. QED BY <1>1, <1>2, <1>3, <1>4, FreeStepAlone

(* op begins: for the client that waits, or for a send.                     *)
LEMMA BeginKeepsTable ==
  ASSUME IInv, Table, NEW e, NEW seq \in {"tune", "tune_stop"}, Starts(e, seq),
         PreCheck(e.c, e.t, seq = "tune"), LockFor("op"),
         op' = [pc |-> seq, c |-> e.c, t |-> e.t, from |-> e.from, polls |-> 0], peer' = seq,
         UNCHANGED <<inbox, cl, owner, tuned, streaming>>
  PROVE  Table'
<1>1. Take(e, NoFiber) /\ e.type = "START" /\ e.seq = seq
  BY DEF Starts
<1>2. /\ QueuesIn(Event) /\ e \in Event /\ e \in InTransit /\ Good(e) /\ e.c \in Clients
      /\ locked_by = NoFiber /\ op.pc = "none" /\ InTransit \cap ToOp = {}
      /\ (\A d \in Clients : ~OpFor(d)) /\ cl \in [Clients -> ClType]
      /\ e.from \in {"request", "send", "retry"} /\ e.t \in Tuners \cup {NoTuner}
      /\ tuned \in [Tuners -> BOOLEAN]
  BY <1>1, TakenFree, EventFields, TypedParts DEF IInv, LocalsTyped
<1>3. Moves({e}, {})
  BY <1>1, <1>2, TakeMoves
<1>4. op'.pc = seq /\ op'.c = e.c /\ op'.t = e.t /\ op'.from = e.from /\ locked_by' = "op"
  BY DEF LockFor
<1>5. e.from # "send" =>
        /\ e \in Req(e.c) /\ cl[e.c].pc = Waiting(seq) /\ cl[e.c].t = e.t
        /\ cl[e.c].pc \in {"tuning", "scan_stop"}
  <2>1. e.from # "send" => e \in Req(e.c)
    BY <1>1, <1>2 DEF Req
  <2>2. QED BY <1>1, <1>2, <2>1 DEF Table, OneRequest, Tells, Waiting
<1>6. /\ seq = "tune" => e.from = IF e.c \in Scanners THEN "request" ELSE "retry"
      /\ seq = "tune_stop" => e.from \in {"request", "send"} /\ (e.from = "request" => e.c \in Scanners)
  BY <1>1, <1>2 DEF Good
<1>7. e.t \in Tuners
  <2>1. seq = "tune_stop" => e.t \in Tuners
    BY <1>1, <1>2 DEF Good
  <2>2. seq = "tune" => e.t # NoTuner
    BY <1>2, <1>5, <1>6 DEF Table, ClientShape
  <2>3. QED BY <1>2, <2>1, <2>2
<1>8. owner[e.t] = ModuleOf[e.c] /\ (tuned[e.t] <=> seq = "tune_stop")
  BY <1>2, <1>7 DEF PreCheck
<1>9. InTransit' \cap ToOp = {} /\ AtMostOnce(flight', ToOp)
  BY <1>2, <1>3 DEF Moves, Table, OpProtocol
<1>10. WellFormed'
  BY <1>3, WellFormedKept DEF Table
<1>11. OpProtocol'
  BY <1>4, <1>6, <1>7, <1>8, <1>9 DEF OpProtocol, OpAsks
<1>12. Streaming'
  <2>1. \A t \in Tuners : (tuned[t] => owner[t] # Nobody) /\ (streaming[t] = "on" => tuned[t])
    BY <1>2 DEF Table, Streaming
  <2>2. seq = "tune" => streaming[e.t] # "on"
    BY <1>7, <1>8, <2>1
  <2>3. QED BY <1>4, <1>9, <2>1, <2>2 DEF Streaming
<1>13. Order'
  BY <1>1, <1>2, <1>4, <1>9, OrderTake DEF Table
<1>14. ASSUME NEW t, StopPending(t)'
       PROVE  StopPending(t)
  <2>1. CASE InTransit' \cap StopsOf(t) # {}
    BY <1>3, <2>1 DEF Moves, StopPending
  <2>2. CASE seq = "tune_stop" /\ e.from = "send" /\ e.t = t
    BY <1>1, <1>2, <2>2 DEF StopPending, StopsOf
  <2>3. QED BY <1>4, <1>14, <2>1, <2>2 DEF StopPending
<1>15. ASSUME NEW d \in Clients
       PROVE  ClientShape(d)' /\ OneRequest(d)' /\ Stops(d)'
  <2>1. Served(d)' => Served(d)
    BY <1>3 DEF Moves, Served
  <2>2. CASE d = e.c /\ e.from # "send"
    <3>1. OneRequest(d)'
      BY <1>2, <1>3, <1>4, <1>5, <2>2, RequestTaken DEF Table
    <3>2. d \notin Scanners => ~StopPending(cl[d].t)'
      <4>1. SUFFICES ASSUME d \notin Scanners PROVE ~StopPending(cl[d].t)'
        OBVIOUS
      <4>2. seq = "tune" /\ e.from = "retry"
        BY <1>6, <2>2, <4>1
      <4>3. e \in RetryTunesOf(e.t)
        BY <1>1, <1>2, <4>2 DEF RetryTunesOf, RetryTunes
      <4>4. InTransit \cap StopsOf(e.t) = {}
        BY <1>1, <1>2, <1>7, <4>3, RetryTuneTaken DEF Table
      <4>5. QED BY <1>3, <1>4, <1>5, <2>2, <4>2, <4>4 DEF Moves, StopPending
    <3>3. Stops(d)'
      BY <2>1, <3>2 DEF Stops, Table, Runs
    <3>4. QED BY <3>1, <3>3 DEF ClientShape, Table
  <2>3. CASE ~(d = e.c /\ e.from # "send")
    <3>1. ~OpFor(d)'
      BY <1>4, <2>3 DEF OpFor
    <3>2. OneRequest(d)'
      BY <1>3, <3>1, RequestKept DEF Table
    <3>3. Stops(d)'
      BY <1>14, <2>1, <3>1 DEF Stops, Table, Runs
    <3>4. QED BY <3>2, <3>3 DEF ClientShape, Table
  <2>4. QED BY <2>2, <2>3
<1>16. QED BY <1>10, <1>11, <1>12, <1>13, <1>15 DEF Table

LEMMA LockedOpKeepsTable ==
  ASSUME IInv, Table, NEW e, NEW seq \in {"tune", "tune_stop"}, OnLockedOp(e, seq)
  PROVE  Table'
<1>1. Starts(e, seq) /\ UNCHANGED <<owner, tuned, streaming>>
  BY DEF OnLockedOp, table
<1>2. CASE PreCheck(e.c, e.t, seq = "tune")
  <2>1. /\ LockFor("op") /\ peer' = seq /\ UNCHANGED <<inbox, cl>>
        /\ op' = [pc |-> seq, c |-> e.c, t |-> e.t, from |-> e.from, polls |-> 0]
    BY <1>2 DEF OnLockedOp
  <2>2. QED BY <1>1, <1>2, <2>1, BeginKeepsTable
<1>3. CASE ~PreCheck(e.c, e.t, seq = "tune")
  <2>1. Answer(e, FALSE) /\ UNCHANGED <<locked_by, op, peer>>
    BY <1>3 DEF OnLockedOp
  <2>2. QED BY <1>1, <2>1, RefusedKeepsTable DEF Starts
<1>4. QED BY <1>2, <1>3

(* The retry fiber begins, and goes on.                                     *)
LEMMA RetryKeepsTable ==
  ASSUME IInv, Table, NEW e, OnTuneWithRetry(e)
  PROVE  Table'
<1>1. /\ Take(e, NoFiber) /\ e.type = "START" /\ e.seq = "tune_with_retry"
      /\ UNCHANGED <<locked_by, owner, tuned, op, peer, streaming>>
  BY DEF OnTuneWithRetry, Starts, table
<1>2. CASE PreCheck(e.c, e.t, TRUE)
  <2> DEFINE c == e.c
  <2>1. /\ QueuesIn(Event) /\ e \in Event /\ e \in InTransit /\ Good(e) /\ c \in Clients
        /\ (\A d \in Clients : ~OpFor(d)) /\ e.t \in Tuners \cup {NoTuner}
    BY <1>1, TakenFree, EventFields
  <2>2. PICK n : n = Start("tune", c, e.t, "retry")
    OBVIOUS
  <2>3. /\ n \in Event /\ n.type = "START" /\ n.seq = "tune" /\ n.c = c /\ n.t = e.t /\ n.from = "retry"
        /\ Post(<<n>>) /\ cl' = cl
    BY <1>2, <2>1, <2>2, StartTyped DEF OnTuneWithRetry, Start
  <2>4. /\ e \in Req(c) /\ c \notin Scanners
    BY <1>1, <2>1 DEF Req, Good
  <2>5. Good(n) /\ n \in Req(c) /\ n \notin ToOp /\ \A t : n \notin StopsOf(t)
    BY <2>3, <2>4 DEF Good, Req, ToOp, StopsOf
  <2>6. ASSUME Moves({e}, {n})
        PROVE  ClientShape(c)' /\ OneRequest(c)' /\ Stops(c)'
    <3>1. cl[c].pc = "tuning" /\ cl[c].t = e.t
      BY <1>1, <2>1, <2>4 DEF Table, OneRequest, Tells, Waiting
    <3>2. Tells(c, n)' /\ ~OpFor(c)'
      BY <1>1, <2>1, <2>3, <3>1 DEF Tells, Waiting, OpFor
    <3>3. OneRequest(c)' /\ InTransit' \cap Req(c) \subseteq {n}
      BY <2>1, <2>4, <2>6, <3>2, RequestPosted DEF Table
    <3>4. ~Served(c)'
      BY <2>3, <3>1, <3>3 DEF Served
    <3>5. QED BY <2>1, <2>3, <3>2, <3>3, <3>4 DEF Stops, ClientShape, Table
  <2>7. \A t \in Tuners : tuned[t] => owner'[t] # Nobody
    BY <1>1 DEF Table, Streaming
  <2>8. QED BY <1>1, <2>1, <2>3, <2>5, <2>6, <2>7, FreeStepKeepsTable
<1>3. CASE ~PreCheck(e.c, e.t, TRUE)
  <2>1. Answer(e, FALSE)
    BY <1>3 DEF OnTuneWithRetry
  <2>2. QED BY <1>1, <2>1, RefusedKeepsTable
<1>4. QED BY <1>2, <1>3

LEMMA RetryAnsweredKeepsTable ==
  ASSUME IInv, Table, NEW e, NEW c \in Clients, RetryAnswered(e, c)
  PROVE  Table'
<1>1. /\ Take(e, c) /\ e.type = "REPLY" /\ e.to = c
      /\ UNCHANGED <<locked_by, owner, tuned, op, peer, streaming>>
  BY DEF RetryAnswered, Replies, table
<1>2. /\ QueuesIn(Event) /\ e \in Event /\ e \in InTransit /\ e.ok \in BOOLEAN
      /\ (\A d \in Clients : ~OpFor(d)) /\ cl \in [Clients -> ClType]
      /\ cl[c].t \in Tuners \cup {NoTuner}
  BY <1>1, TakenFree, EventFields DEF ClType
<1>3. e \in Req(c) /\ cl[c].pc = "tuning" /\ c \notin Scanners
  <2>1. e \in Req(c)
    BY <1>1, <1>2 DEF Req
  <2>2. QED BY <1>1, <1>2, <2>1 DEF Table, OneRequest, Tells
<1>4. /\ ~OpFor(c)' /\ OneRequest(c) /\ ClientShape(c) /\ Stops(c)
      /\ \A t \in Tuners : tuned[t] => owner'[t] # Nobody
  BY <1>1, <1>2 DEF OpFor, Table, Streaming
<1>5. CASE ~e.ok /\ retry[c] > 0
  <2>1. PICK n : n = Start("tune", c, cl[c].t, "retry")
    OBVIOUS
  <2>2. /\ n \in Event /\ n.type = "START" /\ n.seq = "tune" /\ n.c = c /\ n.t = cl[c].t
        /\ n.from = "retry" /\ Post(<<n>>) /\ cl' = cl
    BY <1>2, <1>5, <2>1, StartTyped DEF RetryAnswered, Start
  <2>3. Good(n) /\ n \in Req(c) /\ n \notin ToOp /\ \A t : n \notin StopsOf(t)
    BY <1>3, <2>2 DEF Good, Req, ToOp, StopsOf
  <2>4. ASSUME Moves({e}, {n})
        PROVE  ClientShape(c)' /\ OneRequest(c)' /\ Stops(c)'
    <3>1. Tells(c, n)'
      BY <1>3, <2>2 DEF Tells, Waiting
    <3>2. OneRequest(c)' /\ InTransit' \cap Req(c) \subseteq {n}
      BY <1>3, <1>4, <2>4, <3>1, RequestPosted
    <3>3. ~Served(c)'
      BY <1>3, <2>2, <3>2 DEF Served
    <3>4. QED BY <1>4, <2>2, <3>2, <3>3 DEF Stops, ClientShape
  <2>5. QED BY <1>1, <1>4, <2>2, <2>3, <2>4, FreeStepKeepsTable
<1>6. CASE ~(~e.ok /\ retry[c] > 0)
  <2>1. PICK pc \in {"using", "failed"} : pc = IF e.ok THEN "using" ELSE "failed"
    OBVIOUS
  <2>2. /\ inbox' = inbox /\ cl'[c] = [pc |-> pc, t |-> cl[c].t]
        /\ \A d \in Clients : d # c => cl'[d] = cl[d]
    BY <1>2, <1>6, <2>1 DEF RetryAnswered, Goes
  <2>3. ASSUME Moves({e}, {})
        PROVE  ClientShape(c)' /\ OneRequest(c)' /\ Stops(c)'
    <3>1. OneRequest(c)' /\ InTransit' \cap Req(c) = {}
      BY <1>3, <1>4, <2>3, RequestTaken
    <3>2. Served(c)' => Served(c)
      BY <1>1, <1>2, <1>3, <2>1, <2>2, <3>1 DEF Served
    <3>3. StopPending(cl[c].t)' => StopPending(cl[c].t)
      BY <1>1, <2>2, <2>3 DEF Moves, StopPending
    <3>4. Stops(c)'
      BY <1>1, <1>4, <2>2, <3>2, <3>3 DEF Stops, Runs
    <3>5. QED BY <1>3, <1>4, <2>2, <3>1, <3>4 DEF ClientShape
  <2>4. QED BY <1>1, <1>4, <2>2, <2>3, FreeStepAlone
<1>7. QED BY <1>5, <1>6

-----------------------------------------------------------------------------
LEMMA TableImplies == IInv /\ Table => TableIsTrue
<1> SUFFICES ASSUME IInv, Table PROVE TableIsTrue
  OBVIOUS
<1>1. UsedTunerRuns
  BY DEF UsedTunerRuns, Table, Stops, Served, Runs
<1>2. FreeTunerIsSilent
  <2>1. \A t \in Tuners : tuned[t] => owner[t] # Nobody
    BY DEF Table, Streaming
  <2>2. op.pc # "none" => owner[op.t] # Nobody
    BY OwnersAreSomebody DEF Table, OpProtocol, IInv, Typed, OpHasClient
  <2>3. QED BY <2>1, <2>2 DEF FreeTunerIsSilent, Table, Streaming
<1>3. QED BY <1>1, <1>2 DEF TableIsTrue

LEMMA InitTable == Init => Table
<1> SUFFICES ASSUME Init PROVE Table
  OBVIOUS
<1>1. /\ inbox = <<>> /\ batch = <<>> /\ deferred = <<>> /\ locked_by = NoFiber
      /\ op.pc = "none" /\ peer = "none"
      /\ \A t \in Tuners : owner[t] = Nobody /\ ~tuned[t] /\ streaming[t] = "off"
      /\ \A c \in Clients : cl[c].pc = "idle" /\ cl[c].t = NoTuner
  BY DEF Init, CoseqInit, NoOp
<1>2. Len(flight) = 0
  BY <1>1, EmptySeq, FlightTyped DEF QueuesIn
<1>3. InTransit = {} /\ (\A M : AtMostOnce(flight, M)) /\ \A A, B : Before(flight, A, B)
  BY <1>2 DEF InTransit, AtMostOnce, Before
<1>4. WellFormed /\ OpProtocol /\ Streaming /\ Order
  <2>1. OpProtocol
    BY <1>1, <1>3 DEF OpProtocol, NoFiber
  <2>2. Streaming
    BY <1>1, <1>3 DEF Streaming
  <2>3. Order
    BY <1>1, <1>3 DEF Order, NoFiber
  <2>4. QED BY <1>3, <2>1, <2>2, <2>3 DEF WellFormed
<1>5. ASSUME NEW c \in Clients
      PROVE  ClientShape(c) /\ OneRequest(c) /\ Stops(c)
  BY <1>1, <1>3 DEF ClientShape, OneRequest, Stops, Served, OpFor
<1>6. QED BY <1>4, <1>5 DEF Table

LEMMA StepKeepsTable == IInv /\ Table /\ [Next]_vars => Table'
<1> SUFFICES ASSUME IInv, Table, [Next]_vars PROVE Table'
  OBVIOUS
<1>1. CASE Turn
  BY <1>1, TurnKeepsTable
<1>2. CASE PollTimer
  BY <1>2, PollTimerKeepsTable
<1>3. ASSUME NEW e, Handle(e) PROVE Table'
  <2>1. CASE DeferEvent(e)
    BY <2>1, DeferKeepsTable
  <2>2. CASE OnOpen(e) \/ OnClose(e)
    BY <2>2, OpenKeepsTable, CloseKeepsTable
  <2>3. CASE OnTune(e) \/ OnTuneStop(e)
    BY <2>3, LockedOpKeepsTable DEF OnTune, OnTuneStop
  <2>4. CASE OnTuneWithRetry(e)
    BY <2>4, RetryKeepsTable
  <2>5. CASE PeerAnswered(e)
    BY <2>5, AnsweredKeepsTable
  <2>6. CASE \E c \in Clients : RetryAnswered(e, c)
    BY <2>6, RetryAnsweredKeepsTable
  <2>7. QED BY <1>3, <2>1, <2>2, <2>3, <2>4, <2>5, <2>6 DEF Handle, PeerAnswered
<1>4. ASSUME NEW ok \in BOOLEAN, PeerAnswers(ok) PROVE Table'
  BY <1>4, PeerKeepsTable
<1>5. ASSUME NEW c \in Clients, Client(c) PROVE Table'
  BY <1>5, ClientKeepsTable
<1>6. CASE UNCHANGED vars
  <2>1. flight' = flight
    BY <1>6 DEF vars, flight
  <2>2. Order'
    BY <1>6, <2>1 DEF Table, Order, vars
  <2>3. QED BY <1>6, <2>1, <2>2, QuietTable DEF vars
<1>7. QED BY <1>1, <1>2, <1>3, <1>4, <1>5, <1>6 DEF Next, Scheduler

LEMMA InductiveTable == Spec => [](IInv /\ Table)
<1>1. Init => IInv /\ Table
  BY InitEstablishes, InitTable
<1>2. IInv /\ Table /\ [Next]_vars => (IInv /\ Table)'
  BY StepPreserves, StepKeepsTable
<1>3. QED BY <1>1, <1>2, PTL DEF Spec

(* A client other than a scan never uses a tuner that has been stopped      *)
(* under it, and a tuner that is free has been stopped: what the table says *)
(* is what the tuners do.                                                   *)
THEOREM TheTableIsTrue == Spec => []TableIsTrue
BY InductiveTable, TableImplies, PTL
-----------------------------------------------------------------------------
(* The refinement of TunerPool.  The claims on a tuner are its holder and   *)
(* the client whose close is on its way; the first moves to the second when *)
(* the close is sent, which the pool does not see.                          *)
Holders(t) == {c \in Clients : Holds(c, t)}
Closers(t) == {c \in Clients : \E e \in InTransit : Closes(e, t) /\ e.c = c}

StateOf(o, claims) ==
  IF o = Nobody THEN "free"
  ELSE IF claims = {} THEN "lost"
  ELSE CHOOSE c \in claims : TRUE

LEMMA StateOfIs ==
  ASSUME NEW o, NEW claims
  PROVE  /\ o = Nobody => StateOf(o, claims) = "free"
         /\ o # Nobody /\ claims = {} => StateOf(o, claims) = "lost"
         /\ \A c : o # Nobody /\ claims = {c} => StateOf(o, claims) = c
<1>1. o = Nobody => StateOf(o, claims) = "free"
  BY DEF StateOf
<1>2. o # Nobody /\ claims = {} => StateOf(o, claims) = "lost"
  BY DEF StateOf
<1>3. ASSUME NEW c, o # Nobody, claims = {c}
      PROVE  StateOf(o, claims) = c
  <2>1. StateOf(o, claims) = CHOOSE d \in claims : TRUE
    BY <1>3 DEF StateOf
  <2>2. (CHOOSE d \in claims : TRUE) \in claims
    BY <1>3
  <2>3. QED BY <1>3, <2>1, <2>2
<1>4. QED BY <1>1, <1>2, <1>3

LEMMA PoolStateIs ==
  ASSUME QueuesIn(Event), QueuesIn(Event)'
  PROVE  /\ PoolState = [t \in Tuners |-> StateOf(owner[t], Holders(t) \cup Closers(t))]
         /\ PoolState' = [t \in Tuners |-> StateOf(owner'[t], Holders(t)' \cup Closers(t)')]
<1>1. flight \in Seq(Event) /\ flight' \in Seq(Event)
  <2>1. deferred' \o batch' \in Seq(Event)
    BY ConcatProperties DEF QueuesIn
  <2>2. QED BY <2>1, FlightTyped, ConcatProperties DEF QueuesIn, flight
<1>2. DOMAIN flight = 1..Len(flight) /\ DOMAIN flight' = 1..Len(flight')
  BY <1>1
<1>3. \A t : Claims(t) = Holders(t) \cup Closers(t)
  BY <1>2 DEF Claims, Holders, Closers, InTransit
<1>4. \A t : Claims(t)' = Holders(t)' \cup Closers(t)'
  BY <1>2 DEF Claims, Holders, Closers, InTransit
<1>5. PoolState = [t \in Tuners |-> StateOf(owner[t], Claims(t))]
  BY DEF PoolState, StateOf
<1>6. PoolState' = [t \in Tuners |-> StateOf(owner'[t], Claims(t)')]
  BY DEF PoolState, StateOf
<1>7. QED BY <1>3, <1>4, <1>5, <1>6

LEMMA ClaimsOf ==
  ASSUME IInv, NEW t \in Tuners
  PROVE  /\ owner[t] = Nobody => Holders(t) = {} /\ Closers(t) = {}
         /\ \A c \in Clients : Holds(c, t) => Holders(t) = {c} /\ Closers(t) = {}
         /\ \A e \in InTransit : Closes(e, t) => Holders(t) = {} /\ Closers(t) = {e.c}
<1>1. OneClaim(t) /\ HolderIsOwner
  BY DEF IInv
<1>2. flight \in Seq(Event) /\ \A e \in InTransit : Closes(e, t) => e.c \in Clients
  <2>1. flight \in Seq(Event)
    BY TypedParts, FlightTyped DEF IInv, QueuesTyped
  <2>2. QED BY <2>1, EventFields DEF InTransit, Closes
<1>3. NoClose(flight, t) <=> \A e \in InTransit : ~Closes(e, t)
  BY DEF NoClose, InTransit
<1>4. NoClose(flight, t) => Closers(t) = {}
  BY <1>3 DEF Closers
<1>5. owner[t] = Nobody => Holders(t) = {}
  BY <1>1, OwnersAreSomebody DEF HolderIsOwner, Holders
<1>6. \A e, d \in InTransit : Closes(e, t) /\ Closes(d, t) => e = d
  BY <1>1 DEF OneClaim, OneClose, InTransit
<1>7. ASSUME NEW e \in InTransit, Closes(e, t)
      PROVE  Holders(t) = {} /\ Closers(t) = {e.c}
  <2>1. Holders(t) = {}
    BY <1>1, <1>3, <1>7 DEF OneClaim, Holders
  <2>2. Closers(t) = {e.c}
    BY <1>2, <1>6, <1>7 DEF Closers
  <2>3. QED BY <2>1, <2>2
<1>8. ASSUME NEW c \in Clients, Holds(c, t)
      PROVE  Holders(t) = {c} /\ Closers(t) = {}
  BY <1>1, <1>4, <1>8 DEF OneClaim, Holders
<1>9. QED BY <1>1, <1>4, <1>5, <1>7, <1>8 DEF OneClaim

(* Most steps neither give a client a tuner or take one, nor touch a close. *)
KeepsTuners == \A c \in Clients : cl'[c].t = cl[c].t

LEMMA SamePool ==
  ASSUME QueuesIn(Event), QueuesIn(Event)', owner' = owner,
         \A t \in Tuners : Holders(t)' \cup Closers(t)' = Holders(t) \cup Closers(t)
  PROVE  PoolState' = PoolState
BY PoolStateIs

LEMMA HoldersKept ==
  ASSUME KeepsTuners, NEW t
  PROVE  Holders(t)' = Holders(t)
BY DEF KeepsTuners, Holders, Holds

LEMMA ClosersKept ==
  ASSUME NEW gone, NEW new, Stays(gone, new), NEW t, \A e \in gone \cup new : ~Closes(e, t)
  PROVE  Closers(t)' = Closers(t)
BY DEF Stays, Closers

LEMMA PosterKeepsClosers ==
  ASSUME QueuesIn(Event), QuietPost, batch' = batch, deferred' = deferred, NEW t
  PROVE  Closers(t)' = Closers(t)
<1>1. CASE inbox' = inbox
  BY <1>1 DEF Closers, InTransit, flight
<1>2. CASE inbox' # inbox
  <2>1. PICK n \in Event : Post(<<n>>) /\ \A u : ~Closes(n, u)
    BY <1>2 DEF QuietPost
  <2>2. Stays({}, {n})
    BY <2>1, PostStays
  <2>3. QED BY <2>1, <2>2, ClosersKept
<1>3. QED BY <1>1, <1>2

LEMMA TakerKeepsClosers ==
  ASSUME QueuesIn(Event), NEW e, NEW o, Take(e, o), QuietPost, NEW t, ~Closes(e, t)
  PROVE  Closers(t)' = Closers(t)
<1>1. CASE inbox' = inbox
  <2>1. Stays({e}, {})
    BY <1>1, TakeStays
  <2>2. QED BY <2>1, ClosersKept
<1>2. CASE inbox' # inbox
  <2>1. PICK n \in Event : Post(<<n>>) /\ \A u : ~Closes(n, u)
    BY <1>2 DEF QuietPost
  <2>2. Stays({e}, {n})
    BY <2>1, TakeStays
  <2>3. QED BY <2>1, <2>2, ClosersKept
<1>3. QED BY <1>1, <1>2

(* The handlers of everything but open and close.                           *)
KeepsPool == owner' = owner /\ KeepsTuners /\ \A t : Closers(t)' = Closers(t)

LEMMA KeptPool ==
  ASSUME QueuesIn(Event), QueuesIn(Event)', KeepsPool
  PROVE  PoolState' = PoolState
BY SamePool, HoldersKept DEF KeepsPool

LEMMA NotClose ==
  ASSUME NEW e, e.type # "START" \/ e.seq # "close"
  PROVE  \A t : ~Closes(e, t)
BY DEF Closes

LEMMA FinishKeepsTuners ==
  ASSUME Typed, op.pc # "none", NEW ok \in BOOLEAN, Finish(ok)
  PROVE  QuietPost /\ KeepsTuners
<1>1. LocalsTyped /\ op.c \in Clients
  BY TypedParts DEF LocalsTyped, OpHasClient
<1>2. QED BY <1>1, AnswerDoes DEF Finish, QuietPost, KeepsTuners

LEMMA HandlerKeepsTuners ==
  ASSUME Typed, NEW e, QuietHandler(e), ~DeferEvent(e)
  PROVE  /\ QuietPost /\ KeepsTuners
         /\ \E o : Take(e, o)
         /\ \A t : ~Closes(e, t)
<1>1. LocalsTyped
  BY TypedParts
<1>2. ASSUME NEW seq \in {"tune", "tune_stop"}, OnLockedOp(e, seq)
      PROVE  QuietPost /\ KeepsTuners /\ (\E o : Take(e, o)) /\ \A t : ~Closes(e, t)
  <2>1. Take(e, NoFiber) /\ e.c \in Clients /\ e.seq # "close"
    BY <1>2, TakenFields DEF OnLockedOp, Starts
  <2>2. (inbox' = inbox /\ cl' = cl) \/ Answer(e, FALSE)
    BY <1>2 DEF OnLockedOp
  <2>3. QuietPost /\ KeepsTuners
    BY <1>1, <2>1, <2>2, AnswerDoes DEF QuietPost, KeepsTuners
  <2>4. QED BY <2>1, <2>3, NotClose
<1>3. CASE OnTuneWithRetry(e)
  <2>1. /\ Take(e, NoFiber) /\ e.c \in Clients /\ e.t \in Tuners \cup {NoTuner}
        /\ e.seq # "close"
    BY <1>3, TakenFields DEF OnTuneWithRetry, Starts
  <2>2. (Post(<<Start("tune", e.c, e.t, "retry")>>) /\ cl' = cl) \/ Answer(e, FALSE)
    BY <1>3 DEF OnTuneWithRetry
  <2>3. QuietPost /\ KeepsTuners
    BY <1>1, <2>1, <2>2, AnswerDoes, StartTyped DEF QuietPost, KeepsTuners
  <2>4. QED BY <2>1, <2>3, NotClose
<1>4. CASE PeerAnswered(e)
  <2>1. Take(e, "op") /\ e.type = "REPLY" /\ op.pc # "none"
    BY <1>4 DEF PeerAnswered, TuneAnswered, PollAnswered, CleanupAnswered, StopAnswered, Replies
  <2>2. e.ok \in BOOLEAN
    BY <2>1, TakenFields
  <2>3. (inbox' = inbox /\ cl' = cl) \/ \E ok \in BOOLEAN : Finish(ok)
    BY <1>4, <2>2 DEF PeerAnswered, TuneAnswered, PollAnswered, CleanupAnswered, StopAnswered, Await
  <2>4. QuietPost /\ KeepsTuners
    BY <2>1, <2>3, FinishKeepsTuners DEF QuietPost, KeepsTuners
  <2>5. QED BY <2>1, <2>4, NotClose
<1>5. ASSUME NEW c \in Clients, RetryAnswered(e, c)
      PROVE  QuietPost /\ KeepsTuners /\ (\E o : Take(e, o)) /\ \A t : ~Closes(e, t)
  <2>1. Take(e, c) /\ e.type = "REPLY" /\ cl[c].t \in Tuners \cup {NoTuner}
    BY <1>1, <1>5 DEF RetryAnswered, Replies, LocalsTyped, ClType
  <2>2. \/ Post(<<Start("tune", c, cl[c].t, "retry")>>) /\ cl' = cl
        \/ inbox' = inbox /\ \E pc : Goes(c, pc, cl[c].t)
    BY <1>5 DEF RetryAnswered
  <2>3. QuietPost
    BY <2>1, <2>2, StartTyped DEF QuietPost
  <2>4. KeepsTuners
    BY <1>1, <2>2 DEF Goes, KeepsTuners, LocalsTyped, ClType
  <2>5. QED BY <2>1, <2>3, <2>4, NotClose
<1>6. QED BY <1>2, <1>3, <1>4, <1>5 DEF QuietHandler, OnTune, OnTuneStop

LEMMA ClientKeepsPool ==
  ASSUME IInv, Table, NEW c \in Clients, QuietClient(c)
  PROVE  KeepsPool
<1>1. Typed /\ LocalsTyped /\ QueuesIn(Event) /\ cl[c].t \in Tuners \cup {NoTuner}
  BY TypedParts DEF IInv, QueuesTyped, LocalsTyped, ClType
<1>2. \E pc : Goes(c, pc, cl[c].t)
  BY DEF QuietClient, ClientOpen, ClientTune, ScanStop, SendStop, Table, ClientShape
<1>3. KeepsTuners
  BY <1>1, <1>2 DEF Goes, KeepsTuners, LocalsTyped, ClType
<1>4. QuietPost
  <2>1. CASE ClientOpen(c)
    BY <2>1, StartTyped DEF ClientOpen, QuietPost
  <2>2. CASE ClientTune(c)
    BY <2>2, <1>1, StartTyped DEF ClientTune, QuietPost
  <2>3. CASE ScanStop(c)
    BY <2>3, <1>1, StartTyped DEF ScanStop, QuietPost
  <2>4. CASE SendStop(c)
    BY <2>4, <1>1, StartTyped DEF SendStop, QuietPost
  <2>5. QED BY <2>1, <2>2, <2>3, <2>4 DEF QuietClient
<1>5. owner' = owner /\ batch' = batch /\ deferred' = deferred
  BY DEF QuietClient, ClientOpen, ClientTune, ScanStop, SendStop, Unscheduled, table
<1>6. QED BY <1>1, <1>3, <1>4, <1>5, PosterKeepsClosers DEF KeepsPool

(* Steps that handle no event and are no client's.                          *)
LEMMA OthersKeepPool ==
  ASSUME IInv, \/ Turn \/ PollTimer \/ (\E ok \in BOOLEAN : PeerAnswers(ok))
               \/ (\E e : DeferEvent(e)) \/ UNCHANGED vars
  PROVE  KeepsPool
<1>1. QueuesIn(Event)
  BY TypedParts DEF IInv, QueuesTyped
<1>2. owner' = owner /\ cl' = cl
  BY DEF Turn, PollTimer, Await, PeerAnswers, DeferEvent, vars, table
<1>3. KeepsTuners
  BY <1>2 DEF KeepsTuners
<1>4. ASSUME flight' = flight
      PROVE  \A t : Closers(t)' = Closers(t)
  BY <1>4 DEF Closers, InTransit
<1>5. CASE Turn
  <2>1. flight' = flight
    BY <1>1, <1>5, TurnKeeps DEF Turn
  <2>2. QED BY <1>2, <1>3, <1>4, <2>1 DEF KeepsPool
<1>6. CASE \E e : DeferEvent(e)
  <2>1. flight' = flight
    BY <1>1, <1>6, DeferKeeps DEF DeferEvent
  <2>2. QED BY <1>2, <1>3, <1>4, <2>1 DEF KeepsPool
<1>7. CASE PollTimer \/ UNCHANGED vars
  <2>1. flight' = flight
    BY <1>7 DEF PollTimer, ResumeTimer, Await, vars, flight
  <2>2. QED BY <1>2, <1>3, <1>4, <2>1 DEF KeepsPool
<1>8. CASE \E ok \in BOOLEAN : PeerAnswers(ok)
  <2>1. QuietPost /\ batch' = batch /\ deferred' = deferred
    BY <1>8, ReplyTyped DEF PeerAnswers, QuietPost
  <2>2. QED BY <1>1, <1>2, <1>3, <2>1, PosterKeepsClosers DEF KeepsPool
<1>9. QED BY <1>5, <1>6, <1>7, <1>8

LEMMA HandlerKeepsPool ==
  ASSUME IInv, NEW e, QuietHandler(e)
  PROVE  KeepsPool
<1>1. CASE DeferEvent(e)
  BY <1>1, OthersKeepPool
<1>2. CASE ~DeferEvent(e)
  <2>1. Typed /\ QueuesIn(Event)
    BY TypedParts DEF IInv, QueuesTyped
  <2>2. /\ QuietPost /\ KeepsTuners
        /\ \A t : ~Closes(e, t)
    BY <1>2, <2>1, HandlerKeepsTuners
  <2>3. PICK o : Take(e, o)
    BY <1>2, <2>1, HandlerKeepsTuners
  <2>4. owner' = owner
    BY <2>1, HandlerIsQuiet DEF Quiet
  <2>5. QED BY <2>1, <2>2, <2>3, <2>4, TakerKeepsClosers DEF KeepsPool
<1>3. QED BY <1>1, <1>2

(* A close that is sent takes over the claim of the client that sent it.    *)
LEMMA SendCloseKeepsPool ==
  ASSUME IInv, IInv', NEW c \in Clients, SendClose(c)
  PROVE  PoolState' = PoolState
<1> DEFINE u == cl[c].t
           n == Start("close", c, u, "send")
<1>1. /\ LocalsTyped /\ QueuesIn(Event) /\ u \in Tuners \cup {NoTuner}
  BY TypedParts DEF IInv, QueuesTyped, LocalsTyped, ClType
<1>2. QueuesIn(Event)'
  BY DEF IInv, Typed, TypeOK, QueuesIn
<1>3. /\ cl' = [cl EXCEPT ![c] = [pc |-> "idle", t |-> NoTuner]]
      /\ Post(<<n>>) /\ owner' = owner /\ batch' = batch /\ deferred' = deferred
  BY DEF SendClose, Goes, Unscheduled, table
<1>4. n \in Event /\ n.c = c /\ \A t : Closes(n, t) <=> t = u
  <2>1. n \in Event
    BY <1>1, StartTyped
  <2>2. QED BY <2>1 DEF Start, Closes
<1> HIDE DEF n
<1>5. Stays({}, {n})
  BY <1>1, <1>3, <1>4, PostStays
<1>6. ASSUME NEW t \in Tuners
      PROVE  Holders(t)' \cup Closers(t)' = Holders(t) \cup Closers(t)
  <2>1. CASE t # u
    <3>1. Closers(t)' = Closers(t)
      BY <1>4, <1>5, <2>1, ClosersKept
    <3>2. Holders(t)' = Holders(t)
      BY <1>1, <1>3, <2>1, TunersDiffer DEF Holders, Holds, LocalsTyped, ClType
    <3>3. QED BY <3>1, <3>2
  <2>2. CASE t = u
    <3>1. Holders(t) = {c} /\ Closers(t) = {}
      BY <2>2, ClaimsOf DEF Holds
    <3>2. Holders(t)' = {}
      <4>1. ASSUME NEW d \in Clients, cl'[d].t = t
            PROVE  d # c /\ cl[d].t = t
        BY <1>1, <1>3, <4>1, TunersDiffer DEF LocalsTyped, ClType
      <4>2. QED BY <3>1, <4>1 DEF Holders, Holds
    <3>3. Closers(t)' = {c}
      <4>1. \A e \in InTransit : Closes(e, t) => e.c \notin Clients
        BY <3>1 DEF Closers
      <4>2. \A e \in InTransit' : Closes(e, t) /\ e.c \in Clients => e = n
        BY <1>5, <4>1 DEF Stays
      <4>3. n \in InTransit' /\ Closes(n, t)
        BY <1>4, <1>5, <2>2 DEF Stays
      <4>4. QED BY <1>4, <4>2, <4>3 DEF Closers
    <3>4. QED BY <3>1, <3>2, <3>3
  <2>3. QED BY <2>1, <2>2
<1>7. QED BY <1>1, <1>2, <1>3, <1>6, SamePool

(* The pool's steps, tuner by tuner.                                        *)
LEMMA PoolStep ==
  ASSUME QueuesIn(Event), QueuesIn(Event)', NEW t \in Tuners, NEW s,
         StateOf(owner'[t], Holders(t)' \cup Closers(t)') = s,
         \A u \in Tuners \ {t} :
           /\ owner'[u] = owner[u]
           /\ Holders(u)' = Holders(u) /\ Closers(u)' = Closers(u)
  PROVE  /\ PoolState' = [PoolState EXCEPT ![t] = s]
         /\ PoolState[t] = StateOf(owner[t], Holders(t) \cup Closers(t))
BY PoolStateIs

LEMMA PoolMoves ==
  ASSUME NEW t \in Tuners, NEW c \in Clients
  PROVE  /\ Pool!Grant(c, t) => Pool!Next
         /\ Pool!Return(c, t) \/ Pool!Lose(c, t) => Pool!Next
BY TunerServiceAssumption DEF Pool!Next, Pool!Grant, Pool!Return, Pool!Lose

(* An open grants the first cleared entry to its client, which has no other *)
(* tuner, or is refused.                                                    *)
LEMMA OpenIsGrant ==
  ASSUME IInv, IInv', Table, NEW e, OnOpen(e)
  PROVE  [Pool!Next]_PoolState
<1>1. Typed /\ LocalsTyped /\ QueuesIn(Event) /\ QueuesIn(Event)'
  BY TypedParts DEF IInv, QueuesTyped, Typed, TypeOK, QueuesIn
<1>2. Take(e, NoFiber) /\ e.type = "START" /\ e.seq = "open" /\ inbox' = inbox
  BY DEF OnOpen, Starts
<1>3. e \in Event /\ e.c \in Clients /\ e \in InTransit
  BY <1>1, <1>2, TakenFields, TakeTransits DEF TransitAfter
<1>4. cl[e.c].t = NoTuner
  <2>1. e \in Req(e.c)
    BY <1>2, <1>3 DEF Table, WellFormed, Good, Req
  <2>2. cl[e.c].pc = "opening"
    BY <1>2, <1>3, <2>1 DEF Table, OneRequest, Tells, Waiting
  <2>3. QED BY <1>3, <2>2 DEF Table, ClientShape
<1>5. \A t : Closers(t)' = Closers(t)
  BY <1>1, <1>2, NotClose, TakerKeepsClosers DEF QuietPost
<1>6. ASSUME NEW t \in Tuners, FirstCleared(t),
             owner' = [owner EXCEPT ![t] = ModuleOf[e.c]], Goes(e.c, "opened", t)
      PROVE  Pool!Next
  <2>1. owner[t] = Nobody /\ Holders(t) = {} /\ Closers(t) = {}
    BY <1>6, ClaimsOf DEF FirstCleared, Cleared
  <2>2. owner'[t] = ModuleOf[e.c] /\ owner'[t] # Nobody
    BY <1>1, <1>3, <1>6, OwnersAreSomebody DEF LocalsTyped
  <2>3. /\ Holders(t)' = {e.c}
        /\ \A u \in Tuners \ {t} : Holders(u)' = Holders(u)
    <3>1. cl'[e.c].t = t /\ \A d \in Clients \ {e.c} : cl'[d].t = cl[d].t
      BY <1>1, <1>3, <1>6 DEF Goes, LocalsTyped, ClType
    <3>2. \A d \in Clients : cl[d].t # t
      BY <2>1 DEF Holders, Holds
    <3>3. QED BY <1>3, <1>4, <3>1, <3>2, TunersDiffer DEF Holders, Holds
  <2>4. StateOf(owner'[t], Holders(t)' \cup Closers(t)') = e.c
    BY <1>5, <2>1, <2>2, <2>3, StateOfIs
  <2>5. \A u \in Tuners \ {t} : owner'[u] = owner[u]
    BY <1>1, <1>6 DEF LocalsTyped
  <2>6. /\ PoolState' = [PoolState EXCEPT ![t] = e.c]
        /\ PoolState[t] = StateOf(owner[t], Holders(t) \cup Closers(t))
    BY <1>1, <1>5, <2>3, <2>4, <2>5, PoolStep
  <2>7. Pool!Grant(e.c, t)
    BY <2>1, <2>6, StateOfIs DEF Pool!Grant
  <2>8. QED BY <1>3, <2>7, PoolMoves
<1>7. CASE Goes(e.c, "idle", NoTuner) /\ owner' = owner
  <2>1. KeepsTuners
    BY <1>1, <1>4, <1>7 DEF Goes, KeepsTuners, LocalsTyped, ClType
  <2>2. QED BY <1>1, <1>5, <1>7, <2>1, KeptPool DEF KeepsPool
<1>8. QED BY <1>6, <1>7 DEF OnOpen

(* A close is the only claim on its tuner, which goes back to the pool, or  *)
(* is lost because the entry still says tuned.                              *)
LEMMA CloseIsReturn ==
  ASSUME IInv, IInv', NEW e, OnClose(e)
  PROVE  [Pool!Next]_PoolState
<1>1. Typed /\ LocalsTyped /\ QueuesIn(Event) /\ QueuesIn(Event)'
  BY TypedParts DEF IInv, QueuesTyped, Typed, TypeOK, QueuesIn
<1>2. /\ Take(e, NoFiber) /\ e.type = "START" /\ e.seq = "close"
      /\ inbox' = inbox /\ locked_by' = locked_by /\ cl' = cl
      /\ owner' = [owner EXCEPT ![e.t] = IF tuned[e.t] THEN owner[e.t] ELSE Nobody]
  BY DEF OnClose, Starts
<1>3. e.c \in Clients /\ e.t \in Tuners \cup {NoTuner} /\ e \in InTransit
  BY <1>1, <1>2, TakenFields, TakeTransits DEF TransitAfter
<1>4. \A t : t # e.t => Closers(t)' = Closers(t)
  BY <1>1, <1>2, TakerKeepsClosers DEF QuietPost, Closes
<1>5. \A t : Holders(t)' = Holders(t)
  BY <1>2 DEF Holders, Holds
<1>6. CASE e.t \notin Tuners
  <2>1. owner' = owner
    BY <1>1, <1>2, <1>6 DEF LocalsTyped
  <2>2. QED BY <1>1, <1>4, <1>5, <1>6, <2>1, SamePool
<1>7. CASE e.t \in Tuners
  <2>1. Holders(e.t) = {} /\ Closers(e.t) = {e.c} /\ owner[e.t] # Nobody
    BY <1>2, <1>3, <1>7, ClaimsOf DEF Closes
  <2>2. Closers(e.t)' = {}
    <3>1. LocalsTyped'
      BY DEF IInv, Typed, TypeOK, LocalsTyped, OpType, ClType, OpHasClient
    <3>2. OneClose(flight, e.t) /\ Closes(e, e.t)
      BY <1>2, <1>7 DEF IInv, OneClaim, Closes
    <3>3. NoClose(flight', e.t)
      BY <1>1, <1>2, <3>1, <3>2, TakeSilently
    <3>4. QED BY <3>3 DEF NoClose, Closers, InTransit
  <2>3. \A u \in Tuners \ {e.t} : owner'[u] = owner[u]
    BY <1>1, <1>2 DEF LocalsTyped
  <2>4. owner'[e.t] = IF tuned[e.t] THEN owner[e.t] ELSE Nobody
    BY <1>1, <1>2, <1>7 DEF LocalsTyped
  <2>5. PICK s : s = StateOf(owner'[e.t], Holders(e.t)' \cup Closers(e.t)')
    OBVIOUS
  <2>6. /\ PoolState' = [PoolState EXCEPT ![e.t] = s]
        /\ PoolState[e.t] = StateOf(owner[e.t], Holders(e.t) \cup Closers(e.t))
    BY <1>1, <1>4, <1>5, <1>7, <2>3, <2>5, PoolStep
  <2>7. PoolState[e.t] = e.c
    BY <2>1, <2>6, StateOfIs
  <2>8. s \in {"free", "lost"}
    BY <1>5, <2>1, <2>2, <2>4, <2>5, StateOfIs
  <2>9. Pool!Return(e.c, e.t) \/ Pool!Lose(e.c, e.t)
    BY <2>6, <2>7, <2>8 DEF Pool!Return, Pool!Lose
  <2>10. QED BY <1>3, <1>7, <2>9, PoolMoves
<1>8. QED BY <1>6, <1>7

LEMMA StepIsPoolStep == IInv /\ IInv' /\ Table /\ [Next]_vars => [Pool!Next]_PoolState
<1> SUFFICES ASSUME IInv, IInv', Table, [Next]_vars PROVE [Pool!Next]_PoolState
  OBVIOUS
<1>1. QueuesIn(Event) /\ QueuesIn(Event)'
  BY DEF IInv, Typed, TypeOK, QueuesIn
<1>2. KeepsPool => PoolState' = PoolState
  BY <1>1, KeptPool
<1>3. ASSUME NEW e, Handle(e) PROVE [Pool!Next]_PoolState
  <2>1. CASE OnOpen(e)
    BY <2>1, OpenIsGrant
  <2>2. CASE OnClose(e)
    BY <2>2, CloseIsReturn
  <2>3. CASE QuietHandler(e)
    BY <1>2, <2>3, HandlerKeepsPool
  <2>4. QED BY <1>3, <2>1, <2>2, <2>3 DEF Handle, QuietHandler, PeerAnswered
<1>4. ASSUME NEW c \in Clients, Client(c) PROVE PoolState' = PoolState
  <2>1. CASE SendClose(c)
    BY <2>1, SendCloseKeepsPool
  <2>2. CASE QuietClient(c)
    BY <1>2, <2>2, ClientKeepsPool
  <2>3. QED BY <1>4, <2>1, <2>2 DEF Client, QuietClient
<1>5. CASE Turn \/ PollTimer \/ (\E ok \in BOOLEAN : PeerAnswers(ok)) \/ UNCHANGED vars
  BY <1>2, <1>5, OthersKeepPool
<1>6. QED BY <1>3, <1>4, <1>5 DEF Next, Scheduler

LEMMA InitIsPoolInit == Init => Pool!Init
<1> SUFFICES ASSUME Init PROVE Pool!Init
  OBVIOUS
<1>1. \A t \in Tuners : owner[t] = Nobody
  BY DEF Init
<1>2. PoolState = [t \in Tuners |-> "free"]
  BY <1>1 DEF PoolState
<1>3. QED BY <1>2 DEF Pool!Init

(* tuner_service gives each tuner to one client at a time, and takes it     *)
(* back only through that client's close.                                   *)
THEOREM ServiceIsAPool == Spec => PoolSpec
<1>1. IInv /\ Table /\ [Next]_vars /\ IInv' => [Pool!Next]_PoolState
  BY StepIsPoolStep
<1>2. QED BY <1>1, InductiveTable, InitIsPoolInit, PTL DEF Spec, PoolSpec, Pool!Spec
=============================================================================
