---------------------------- MODULE TunerService ----------------------------
(***************************************************************************)
(* tuner_service: the one module that hands out tuners.  A client (a       *)
(* recording of rec_manager, a viewing of viewing_manager, the schedule    *)
(* cache, the channel scan) opens a tuner, tunes it, uses it, and gives it *)
(* back with two sends, tune_stop and close.  The requests arrive through  *)
(* the module's coseq queues (Coseq); tune and tune_stop hold the module's *)
(* lock while they talk to tuner_control and psisi_manager, and            *)
(* tune_with_retry is a fiber without the lock that requests tune of its   *)
(* own module.                                                             *)
(*                                                                         *)
(* Fibers: "op" is the tune or tune_stop fiber, of which the lock allows   *)
(* one; a client's tune_with_retry fiber has the client's name.  open and  *)
(* close run without waiting.                                              *)
(***************************************************************************)
EXTENDS Coseq, Naturals, FiniteSets

CONSTANTS
  Clients,      \* users of tuners
  Modules,      \* the modules they belong to
  ModuleOf,     \* [Clients -> Modules]
  Scanners,     \* the clients that work like on_channel_scan
  NumTuners,    \* tuner_resource_max_
  Retries,      \* retries of tune_with_retry (3 in the code)
  Polls,        \* retries of the PSI/SI readiness poll (75 in the code)
  StopMayFail   \* tuners whose tuner_control may answer tune_stop with an error

Nobody  == "nobody"
NoTuner == NumTuners
Tuners  == 0..(NumTuners - 1)

ASSUME TunerServiceAssumption ==
  /\ ModuleOf \in [Clients -> Modules]
  /\ Scanners \subseteq Clients
  /\ NumTuners \in Nat \ {0} /\ Retries \in Nat /\ Polls \in Nat
  /\ StopMayFail \subseteq Tuners
  /\ Nobody \notin Modules
  /\ NoFiber \notin Clients /\ "op" \notin Clients
  /\ "free" \notin Clients /\ "lost" \notin Clients

VARIABLES
  owner,        \* resource_allcates_[t].module_id; Nobody is a cleared entry
  tuned,        \* resource_allcates_[t].is_now_tuned
  next_tuner,   \* next_allocate_tuner_id_
  op,           \* locals of the fiber that holds the lock
  retry,        \* [Clients -> retries left in its tune_with_retry fiber]
  peer,         \* request op has sent to tuner_control or psisi_manager
  streaming,    \* [Tuners -> "on", "off", or "stuck" after a tune_stop that failed]
  cl            \* [Clients -> what the client is doing, with which tuner]

table == <<owner, tuned, next_tuner>>
vars == <<inbox, batch, due, deferred, locked_by,
          owner, tuned, next_tuner, op, retry, peer, streaming, cl>>

NoOp == [pc |-> "none", c |-> Nobody, t |-> NoTuner, from |-> "none", polls |-> 0]
NoRetry == Retries + 1

Start(seq, c, t, from) ==
  [type |-> "START", seq |-> seq, c |-> c, t |-> t, from |-> from]
Reply(f, ok) == [type |-> "REPLY", to |-> f, ok |-> ok]
Owner(e) == IF e.type = "REPLY" THEN e.to ELSE NoFiber

Init ==
  /\ CoseqInit
  /\ owner = [t \in Tuners |-> Nobody]
  /\ tuned = [t \in Tuners |-> FALSE]
  /\ next_tuner = 0
  /\ op = NoOp
  /\ retry = [c \in Clients |-> NoRetry]
  /\ peer = "none"
  /\ streaming = [t \in Tuners |-> "off"]
  /\ cl = [c \in Clients |-> [pc |-> "idle", t |-> NoTuner]]

-----------------------------------------------------------------------------
(* The clients.  Only the order of their requests matters here: open, tune  *)
(* (with retries, except in a scan), use, then tune_stop and close without  *)
(* waiting for either.  A scan stops and tunes again, waiting for both.     *)
Goes(c, pc, t) == cl' = [cl EXCEPT ![c] = [pc |-> pc, t |-> t]]
Unscheduled == UNCHANGED <<batch, due, deferred, locked_by, table, op, retry, peer, streaming>>

ClientOpen(c) ==
  /\ cl[c].pc = "idle"
  /\ Goes(c, "opening", NoTuner)
  /\ Post(<<Start("open", c, NoTuner, "request")>>)
  /\ Unscheduled

ClientTune(c) ==
  /\ cl[c].pc = "opened"
  /\ Goes(c, "tuning", cl[c].t)
  /\ Post(<<Start(IF c \in Scanners THEN "tune" ELSE "tune_with_retry",
                  c, cl[c].t, "request")>>)
  /\ Unscheduled

(* A scan asks for tune_stop after a tune, whether it succeeded or not.     *)
ScanStop(c) ==
  /\ c \in Scanners
  /\ cl[c].pc \in {"using", "failed"}
  /\ Goes(c, "scan_stop", cl[c].t)
  /\ Post(<<Start("tune_stop", c, cl[c].t, "request")>>)
  /\ Unscheduled

(* The end of the use, after a failed tune, or before any tune because the  *)
(* channel is unknown: send tune_stop, send close.  Another thread's events *)
(* may come between the two.                                                *)
SendStop(c) ==
  /\ cl[c].pc \in IF c \in Scanners THEN {"opened"} ELSE {"opened", "using", "failed"}
  /\ Goes(c, "closing", cl[c].t)
  /\ Post(<<Start("tune_stop", c, cl[c].t, "send")>>)
  /\ Unscheduled

SendClose(c) ==
  /\ cl[c].pc = "closing"
  /\ Goes(c, "idle", NoTuner)
  /\ Post(<<Start("close", c, cl[c].t, "send")>>)
  /\ Unscheduled

-----------------------------------------------------------------------------
(* tuner_control and psisi_manager answer op: tune, get_state (ok means the *)
(* state is ready) or tune_stop.                                            *)
PeerAnswers(ok) ==
  /\ peer # "none"
  /\ peer = "tune_stop" => ok \/ op.t \in StopMayFail
  /\ peer' = "none"
  /\ streaming' = CASE peer = "tune" /\ ok -> [streaming EXCEPT ![op.t] = "on"]
                    [] peer = "tune_stop" ->
                         [streaming EXCEPT ![op.t] = IF ok THEN "off" ELSE "stuck"]
                    [] OTHER -> streaming
  /\ Post(<<Reply("op", ok)>>)
  /\ UNCHANGED <<batch, due, deferred, locked_by, table, op, retry, cl>>

-----------------------------------------------------------------------------
(* The scheduler.                                                           *)
Turn ==
  /\ \E expired \in SUBSET (IF op.pc = "poll_timer" THEN {"op"} ELSE {}) : BeginTurn(expired)
  /\ UNCHANGED <<table, op, retry, peer, streaming, cl>>

DeferEvent(e) ==
  /\ Defer(e, Owner(e))
  /\ UNCHANGED <<table, op, retry, peer, streaming, cl>>

Starts(e, seq) == Take(e, NoFiber) /\ e.type = "START" /\ e.seq = seq
Replies(e, f)  == Take(e, f) /\ e.type = "REPLY" /\ e.to = f

(* What a reply of tune or tune_stop does to whoever asked: a retry fiber   *)
(* gets a REPLY event, a client goes on, a send is answered to nobody.      *)
Answer(e, ok) ==
  CASE e.from = "retry"   -> Post(<<Reply(e.c, ok)>>) /\ UNCHANGED cl
    [] e.from = "request" -> /\ Goes(e.c, IF cl[e.c].pc = "scan_stop" THEN "opened"
                                          ELSE IF ok THEN "using" ELSE "failed", cl[e.c].t)
                             /\ UNCHANGED inbox
    [] OTHER              -> UNCHANGED <<inbox, cl>>

(* allocate_round_robin: the first cleared entry from next_tuner on.        *)
After(t) == IF t + 1 = NumTuners THEN 0 ELSE t + 1
Distance(t) == IF t >= next_tuner THEN t - next_tuner ELSE t + NumTuners - next_tuner
Cleared == {t \in Tuners : owner[t] = Nobody}
(* Mutant: the entry at the index is taken without looking for a cleared one. *)
NextInTurn(t) == t = next_tuner

FirstCleared(t) == t \in Cleared /\ \A u \in Cleared : Distance(t) <= Distance(u)

OnOpen(e) ==
  /\ Starts(e, "open")
  /\ \/ \E t \in Tuners :
          /\ FirstCleared(t)
          /\ owner' = [owner EXCEPT ![t] = ModuleOf[e.c]]
          /\ next_tuner' = After(t)
          /\ Goes(e.c, "opened", t)
     \/ /\ Cleared = {}
        /\ Goes(e.c, "idle", NoTuner)
        /\ UNCHANGED <<owner, next_tuner>>
  /\ UNCHANGED <<inbox, locked_by, tuned, op, retry, peer, streaming>>

(* Mutant: every entry of the module is released.                           *)
OnCloseAll(e) ==
  /\ Starts(e, "close")
  /\ owner' = [t \in Tuners |->
                 IF owner[t] = ModuleOf[e.c] /\ ~tuned[t] THEN Nobody ELSE owner[t]]
  /\ UNCHANGED <<inbox, locked_by, tuned, next_tuner, op, retry, peer, streaming, cl>>

(* release: refuses a tuner that is tuned; who asks is not looked at.       *)
OnClose(e) ==
  /\ Starts(e, "close")
  /\ owner' = [owner EXCEPT ![e.t] = IF tuned[e.t] THEN @ ELSE Nobody]
  /\ UNCHANGED <<inbox, locked_by, tuned, next_tuner, op, retry, peer, streaming, cl>>

(* pre_check                                                                *)
PreCheck(c, t, is_req_tune) == owner[t] = ModuleOf[c] /\ tuned[t] = ~is_req_tune

(* The first segment of on_tune and of on_tune_stop: lock, check, and       *)
(* either ask tuner_control or unlock and reply an error.                   *)
OnLockedOp(e, seq) ==
  /\ Starts(e, seq)
  /\ IF PreCheck(e.c, e.t, seq = "tune")
     THEN /\ LockFor("op")
          /\ op' = [pc |-> seq, c |-> e.c, t |-> e.t, from |-> e.from, polls |-> 0]
          /\ peer' = seq
          /\ UNCHANGED <<inbox, cl>>
     ELSE Answer(e, FALSE) /\ UNCHANGED <<locked_by, op, peer>>
  /\ UNCHANGED <<table, retry, streaming>>

OnTune(e)     == OnLockedOp(e, "tune")
OnTuneStop(e) == OnLockedOp(e, "tune_stop")

(* Mutant: replies without unlocking.                                       *)
FinishLocked(ok) ==
  /\ op' = NoOp
  /\ Answer(op, ok)
  /\ UNCHANGED <<locked_by, owner, next_tuner, retry, peer, streaming>>

Finish(ok) ==
  /\ locked_by' = Released("op")
  /\ op' = NoOp
  /\ Answer(op, ok)
  /\ UNCHANGED <<owner, next_tuner, retry, peer, streaming>>

Await(pc, request) ==
  /\ op' = [op EXCEPT !.pc = pc]
  /\ peer' = request
  /\ UNCHANGED <<inbox, locked_by, table, retry, streaming, cl>>

(* on_tune after tuner_control's answer: start polling psisi_manager.       *)
TuneAnswered(e) ==
  /\ Replies(e, "op") /\ op.pc = "tune"
  /\ IF e.ok THEN Await("poll_timer", "none") ELSE Finish(FALSE) /\ UNCHANGED tuned

PollTimer ==
  /\ ResumeTimer("op")
  /\ Await("poll", "get_state")

(* Mutant: the last failed poll does not stop the tuner.                    *)
PollAnsweredLeft(e) ==
  /\ Replies(e, "op") /\ op.pc = "poll"
  /\ Finish(e.ok)
  /\ tuned' = [tuned EXCEPT ![op.t] = e.ok]

(* Ready: the tuner counts as tuned.  Not ready: poll again, or after the   *)
(* last try stop the tuner and report an error whatever tune_stop says.     *)
PollAnswered(e) ==
  /\ Replies(e, "op") /\ op.pc = "poll"
  /\ \/ /\ e.ok
        /\ Finish(TRUE)
        /\ tuned' = [tuned EXCEPT ![op.t] = TRUE]
     \/ /\ ~e.ok /\ op.polls < Polls
        /\ op' = [op EXCEPT !.pc = "poll_timer", !.polls = @ + 1]
        /\ UNCHANGED <<inbox, locked_by, table, retry, peer, streaming, cl>>
     \/ /\ ~e.ok /\ op.polls = Polls
        /\ Await("cleanup", "tune_stop")

(* Mutant: the answer to that tune_stop is passed on as the tune's.         *)
CleanupPassedOn(e) ==
  /\ Replies(e, "op") /\ op.pc = "cleanup"
  /\ Finish(e.ok) /\ UNCHANGED tuned

CleanupAnswered(e) ==
  /\ Replies(e, "op") /\ op.pc = "cleanup"
  /\ Finish(FALSE) /\ UNCHANGED tuned

(* on_tune_stop after tuner_control's answer.                               *)
StopAnswered(e) ==
  /\ Replies(e, "op") /\ op.pc = "tune_stop"
  /\ Finish(e.ok)
  /\ tuned' = [tuned EXCEPT ![op.t] = IF e.ok THEN FALSE ELSE @]

(* on_tune_with_retry                                                       *)
OnTuneWithRetry(e) ==
  /\ Starts(e, "tune_with_retry")
  /\ IF PreCheck(e.c, e.t, TRUE)
     THEN /\ retry' = [retry EXCEPT ![e.c] = Retries]
          /\ Post(<<Start("tune", e.c, e.t, "retry")>>)
          /\ UNCHANGED cl
     ELSE Answer(e, FALSE) /\ UNCHANGED retry
  /\ UNCHANGED <<locked_by, table, op, peer, streaming>>

RetryAnswered(e, c) ==
  /\ Replies(e, c)
  /\ IF ~e.ok /\ retry[c] > 0
     THEN /\ retry' = [retry EXCEPT ![c] = @ - 1]
          /\ Post(<<Start("tune", c, cl[c].t, "retry")>>)
          /\ UNCHANGED cl
     ELSE /\ retry' = [retry EXCEPT ![c] = NoRetry]
          /\ Goes(c, IF e.ok THEN "using" ELSE "failed", cl[c].t)
          /\ UNCHANGED inbox
  /\ UNCHANGED <<locked_by, table, op, peer, streaming>>

Handle(e) ==
  \/ DeferEvent(e)
  \/ OnOpen(e) \/ OnClose(e) \/ OnTune(e) \/ OnTuneStop(e) \/ OnTuneWithRetry(e)
  \/ TuneAnswered(e) \/ PollAnswered(e) \/ CleanupAnswered(e) \/ StopAnswered(e)
  \/ \E c \in Clients : RetryAnswered(e, c)

Scheduler == Turn \/ PollTimer \/ (batch # <<>> /\ Handle(Head(batch)))

Client(c) ==
  ClientOpen(c) \/ ClientTune(c) \/ ScanStop(c) \/ SendStop(c) \/ SendClose(c)

Next ==
  \/ Scheduler
  \/ \E ok \in BOOLEAN : PeerAnswers(ok)
  \/ \E c \in Clients : Client(c)

Spec == Init /\ [][Next]_vars

(* The module's thread runs, timers expire, the modules it asks answer, and *)
(* a client that has its answer goes on; a client need not open a tuner.    *)
Fairness ==
  /\ WF_vars(Scheduler)
  /\ WF_vars(\E ok \in BOOLEAN : PeerAnswers(ok))
  /\ \A c \in Clients : WF_vars(SendStop(c)) /\ WF_vars(SendClose(c)) /\ WF_vars(ScanStop(c))

FairSpec == Spec /\ Fairness

-----------------------------------------------------------------------------
StartEvent ==
  [type : {"START"}, seq : {"open", "close", "tune", "tune_stop", "tune_with_retry"},
   c : Clients, t : Tuners \cup {NoTuner}, from : {"request", "send", "retry"}]
ReplyEvent == [type : {"REPLY"}, to : Clients \cup {"op"}, ok : BOOLEAN]
Event == StartEvent \cup ReplyEvent

ClientPcs == {"idle", "opening", "opened", "tuning", "using", "failed", "scan_stop", "closing"}
OpPcs == {"none", "tune", "poll_timer", "poll", "cleanup", "tune_stop"}

TypeOK ==
  /\ inbox \in Seq(Event) /\ batch \in Seq(Event) /\ deferred \in Seq(Event)
  /\ due \subseteq {"op"}
  /\ locked_by \in {"op", NoFiber}
  /\ owner \in [Tuners -> Modules \cup {Nobody}]
  /\ tuned \in [Tuners -> BOOLEAN]
  /\ next_tuner \in Tuners
  /\ op \in [pc : OpPcs, c : Clients \cup {Nobody}, t : Tuners \cup {NoTuner},
             from : {"none", "request", "send", "retry"}, polls : 0..Polls]
  /\ retry \in [Clients -> 0..NoRetry]
  /\ peer \in {"none", "tune", "get_state", "tune_stop"}
  /\ streaming \in [Tuners -> {"on", "off", "stuck"}]
  /\ cl \in [Clients -> [pc : ClientPcs, t : Tuners \cup {NoTuner}]]

Holds(c, t)  == cl[c].t = t
Closes(e, t) == e.type = "START" /\ e.seq = "close" /\ e.t = t

(* A tuner has at most one claim on it: a client that holds it, or a close  *)
(* that is on its way.  release does not look at who asks, so with a second *)
(* claim one client's close would free a tuner another client holds.        *)
ExclusiveUse ==
  \A t \in Tuners :
    /\ \A c, d \in Clients : Holds(c, t) /\ Holds(d, t) => c = d
    /\ LET q == flight IN
         \A i \in DOMAIN q : Closes(q[i], t) =>
           /\ \A c \in Clients : ~Holds(c, t)
           /\ \A j \in DOMAIN q : Closes(q[j], t) => j = i

(* The entry of a tuner somebody holds stays allocated to that client's     *)
(* module, whatever others send and in whatever order it is handled.        *)
HolderIsOwner == \A c \in Clients, t \in Tuners : Holds(c, t) => owner[t] = ModuleOf[c]

(* While a client uses its tuner nobody stops it: the entry says tuned, and *)
(* the last thing tuner_control said of the tuner is that it runs.  A       *)
(* tune_stop that was set aside is overtaken by the close behind it, so the *)
(* next holder's tune has to come after it.  The tune of a retry fiber does *)
(* (it is posted while the lock is free); the scan's own tune need not, and *)
(* with a third client the tune_stop of one scan can stop the next.         *)
UsedTunerRuns ==
  \A c \in Clients \ Scanners :
    cl[c].pc = "using" => tuned[cl[c].t] /\ streaming[cl[c].t] = "on"

(* A tuner that is free has been stopped, if tuner_control could stop it.   *)
FreeTunerIsSilent == \A t \in Tuners : owner[t] = Nobody => streaming[t] # "on" /\ ~tuned[t]

(* What the table says of a tuner that is used or free is what the tuner    *)
(* does.                                                                    *)
TableIsTrue == UsedTunerRuns /\ FreeTunerIsSilent

(* Every tune request of a client is answered in the end.                   *)
TuneIsAnswered == \A c \in Clients : cl[c].pc = "tuning" ~> cl[c].pc # "tuning"

(* What the service promises its users, in TunerPool's terms: a tuner is    *)
(* free, or a client's from the grant until its close is handled, or lost   *)
(* because that close was refused.                                          *)
Claims(t) ==
  LET q == flight
  IN {c \in Clients : \/ Holds(c, t)
                      \/ \E i \in DOMAIN q : Closes(q[i], t) /\ q[i].c = c}

PoolState ==
  [t \in Tuners |-> IF owner[t] = Nobody THEN "free"
                    ELSE IF Claims(t) = {} THEN "lost"
                    ELSE CHOOSE c \in Claims(t) : TRUE]

Pool == INSTANCE TunerPool WITH state <- PoolState
PoolSpec == Pool!Spec
=============================================================================
