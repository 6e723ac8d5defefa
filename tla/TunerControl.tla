---------------------------- MODULE TunerControl ----------------------------
(***************************************************************************)
(* One tuner: tuner_control (a coseq module, so a single thread of fibers) *)
(* and its tune_thread (a second thread, which a running stream occupies   *)
(* from the fork of the tuner command until its end).  tune_thread reads   *)
(* is_req_stop_ of tuner_control, and tuner_control reads the thread's     *)
(* state_, both without a lock.                                            *)
(*                                                                         *)
(* Fibers of tuner_control: on_tune for each caller, named after it;       *)
(* on_tune_start, named "start", of which the lock allows one; and         *)
(* on_tune_stop, of which several can wait at once, because on_tune sends  *)
(* one and does not wait for it when it fails.                             *)
(***************************************************************************)
EXTENDS Coseq, Naturals, FiniteSets

CONSTANTS
  ServiceFreqs,     \* frequencies that tuner_service asks for
  ConsoleFreqs,     \* and the operator
  StopFibers,       \* on_tune_stop fibers that can exist at once (bound)
  StartPolls,       \* how often on_tune_start looks for data (40 in the code)
  ConsoleCommands,  \* what the operator's console asks this tuner
  EndsIn,           \* states of tune_thread in which the stream may end itself
  ThreadMayStall,   \* the thread may take longer to stop than the 30 s limit
  LookMayMiss       \* first data may come between on_tune_stop's two reads of state_

Callers == {"service", "console"}
Freqs   == ServiceFreqs \cup ConsoleFreqs
NoFreq  == 0
Running == {"tune_begined", "tuned"}

ASSUME TunerControlAssumption ==
  /\ Freqs \subseteq Nat \ {NoFreq}
  /\ IsFiniteSet(StopFibers)
  /\ StopFibers \cap (Callers \cup {"start", NoFiber}) = {}
  /\ StartPolls \in Nat
  /\ ConsoleCommands \subseteq {"tune", "tune_stop"}
  /\ EndsIn \subseteq Running
  /\ ThreadMayStall \in BOOLEAN
  /\ LookMayMiss \in BOOLEAN

VARIABLES
  freq,         \* freq_
  state,        \* state_ of tuner_control
  is_req_stop,  \* is_req_stop_
  tune,         \* [Callers -> the caller's on_tune fiber]
  start,        \* the on_tune_start fiber
  stop,         \* [StopFibers -> an on_tune_stop fiber]
  tt,           \* state_ of tune_thread
  stream,       \* frequency of the stream it runs
  ttq,          \* requests waiting at tune_thread
  asks,         \* [Callers -> the request the caller waits for, or "none"]
  svc,          \* what tuner_service last heard: "down", "up" or "unsure"
  raced         \* history: on_tune_stop's two reads have missed a stream, or
                \* both callers had a tune here at once

control == <<freq, state, is_req_stop, raced>>
fibers  == <<tune, start, stop>>
thread  == <<tt, stream, ttq>>
world   == <<asks, svc>>
vars == <<inbox, batch, due, deferred, locked_by, control, fibers, thread, world>>

Start(seq, from, c, f) == [type |-> "START", seq |-> seq, from |-> from, c |-> c, freq |-> f]
Reply(to, ok) == [type |-> "REPLY", to |-> to, ok |-> ok]
Owner(e) == IF e.type = "REPLY" THEN e.to ELSE NoFiber

NoTune  == [pc |-> "none", freq |-> NoFreq]
NoStart == [pc |-> "none", c |-> "service", freq |-> NoFreq, polls |-> 0]
NoStop  == [pc |-> "none", from |-> "send", c |-> "service", half |-> FALSE]

Init ==
  /\ CoseqInit
  /\ freq = NoFreq
  /\ state = "tune_stop"
  /\ is_req_stop = FALSE
  /\ tune = [c \in Callers |-> NoTune]
  /\ start = NoStart
  /\ stop = [s \in StopFibers |-> NoStop]
  /\ tt = "closed"
  /\ stream = NoFreq
  /\ ttq = <<>>
  /\ asks = [c \in Callers |-> "none"]
  /\ svc = "down"
  /\ raced = FALSE

-----------------------------------------------------------------------------
(* The callers.  tuner_service has one request to a tuner at a time, tunes  *)
(* only a tuner it takes for stopped and stops only one it takes for tuned  *)
(* (pre_check); after a tune_stop that failed it may do either.  The        *)
(* console has its own request and looks at nothing.  Nothing more is asked *)
(* (a bound) once they have raced: the properties exempt what follows.      *)
Starting(e, seq) == e.type = "START" /\ e.seq = seq
InFlight(seq) == Cardinality({i \in DOMAIN flight : Starting(flight[i], seq)})
Load ==
  Cardinality({s \in StopFibers : stop[s].pc # "none"})
    + Cardinality({c \in Callers : tune[c].pc = "start"})
    + InFlight("tune") + InFlight("tune_stop")

FreqsOf(c) == IF c = "service" THEN ServiceFreqs ELSE ConsoleFreqs

Allowed(c, seq) ==
  IF c = "console" THEN seq \in ConsoleCommands
  ELSE \/ seq = "tune" /\ svc \in {"down", "unsure"}
       \/ seq = "tune_stop" /\ svc \in {"up", "unsure"}

Ask(c, seq, f) ==
  /\ asks[c] = "none" /\ ~raced
  /\ Allowed(c, seq)
  /\ Load < Cardinality(StopFibers)
  /\ asks' = [asks EXCEPT ![c] = seq]
  /\ raced' = (seq = "tune" /\ \E d \in Callers \ {c} : asks[d] = "tune")
  /\ Post(<<Start(seq, "caller", c, f)>>)
  /\ UNCHANGED <<batch, due, deferred, locked_by, freq, state, is_req_stop, fibers, thread, svc>>

(* The reply to a caller, to the on_tune fiber that asked, or to nobody.    *)
Heard(ok) ==
  CASE asks["service"] = "tune" -> IF ok THEN "up" ELSE "down"
    [] OTHER                    -> IF ok THEN "down" ELSE "unsure"

Told(c, ok) ==
  /\ asks' = [asks EXCEPT ![c] = "none"]
  /\ svc' = IF c = "service" THEN Heard(ok) ELSE svc

Answer(x, ok) ==
  CASE x.from = "caller" -> Told(x.c, ok) /\ UNCHANGED inbox
    [] x.from = "tune"   -> Post(<<Reply(x.c, ok)>>) /\ UNCHANGED world
    [] OTHER             -> UNCHANGED <<inbox, world>>

-----------------------------------------------------------------------------
(* tune_thread.  A tune request starts the child and occupies the thread;   *)
(* its reply is sent before the loop.  opened lasts no time.                *)
Idle(request) == tt = "closed" /\ ttq # <<>> /\ Head(ttq) = request /\ ttq' = Tail(ttq)

ThreadTunes(ok) ==
  /\ Idle("tune")
  /\ tt' = IF ok THEN "tune_begined" ELSE tt
  /\ stream' = IF ok THEN start.freq ELSE stream
  /\ Post(<<Reply("start", ok)>>)
  /\ UNCHANGED <<batch, due, deferred, locked_by, control, fibers, world>>

(* force_kill: the thread can only be here when it has no child any more.   *)
ThreadKills ==
  /\ Idle("force_kill")
  /\ UNCHANGED <<inbox, batch, due, deferred, locked_by, control, fibers, tt, stream, world>>

ThreadGoes(from, to) ==
  /\ tt \in from
  /\ tt' = to
  /\ UNCHANGED <<inbox, batch, due, deferred, locked_by, control, fibers, stream, ttq, world>>

FirstData   == ThreadGoes({"tune_begined"}, "tuned")
StreamEnds  == ThreadGoes(EndsIn, "tune_ended")
StopSeen    == is_req_stop /\ ThreadGoes(Running, "tune_ended")
ThreadCloses == ThreadGoes({"tune_ended"}, "closed")

-----------------------------------------------------------------------------
(* The scheduler of tuner_control.  on_get_state only tells state_ and is   *)
(* left out.                                                                *)
HasTimer ==
  {s \in StopFibers : stop[s].pc = "wait"} \cup (IF start.pc = "timer" THEN {"start"} ELSE {})

Turn(expired) == BeginTurn(expired) /\ UNCHANGED <<control, fibers, thread, world>>

TimerSkipped(f) == SkipTimer(f) /\ UNCHANGED <<control, fibers, thread, world>>

DeferEvent(e) == Defer(e, Owner(e)) /\ UNCHANGED <<control, fibers, thread, world>>

Starts(e, seq) == Take(e, NoFiber) /\ Starting(e, seq)
Replies(e, f)  == Take(e, f) /\ e.type = "REPLY" /\ e.to = f

(* on_tune: nothing to do if the frequency is the current one; otherwise    *)
(* tune_stop, then tune_start, both requested of its own module.            *)
OnTune(e) ==
  /\ Starts(e, "tune")
  /\ IF freq = e.freq
     THEN Answer(e, TRUE) /\ UNCHANGED tune
     ELSE /\ tune' = [tune EXCEPT ![e.c] = [pc |-> "stop", freq |-> e.freq]]
          /\ Post(<<Start("tune_stop", "tune", e.c, NoFreq)>>)
          /\ UNCHANGED world
  /\ UNCHANGED <<locked_by, control, start, stop, thread>>

TuneStopped(e, c) ==
  /\ Replies(e, c) /\ tune[c].pc = "stop" /\ e.ok
  /\ tune' = [tune EXCEPT ![c].pc = "start"]
  /\ Post(<<Start("tune_start", "tune", c, tune[c].freq)>>)
  /\ UNCHANGED <<locked_by, control, start, stop, thread, world>>

(* Either of the two failed: send a tune_stop to itself, report the error.  *)
TuneFailed(e, c) ==
  /\ Replies(e, c) /\ ~e.ok
  /\ tune' = [tune EXCEPT ![c] = NoTune]
  /\ Post(<<Start("tune_stop", "send", c, NoFreq)>>)
  /\ Told(c, FALSE)
  /\ UNCHANGED <<locked_by, control, start, stop, thread>>

TuneStarted(e, c) ==
  /\ Replies(e, c) /\ tune[c].pc = "start" /\ e.ok
  /\ tune' = [tune EXCEPT ![c] = NoTune]
  /\ Told(c, TRUE)
  /\ UNCHANGED <<inbox, locked_by, control, start, stop, thread>>

(* on_tune_start: lock, ask tune_thread, then wait for its first data.      *)
OnTuneStart(e) ==
  /\ Starts(e, "tune_start")
  /\ LockFor("start")
  /\ state' = "tuning_begin"
  /\ start' = [pc |-> "request", c |-> e.c, freq |-> e.freq, polls |-> 0]
  /\ ttq' = Append(ttq, "tune")
  /\ UNCHANGED <<inbox, freq, is_req_stop, raced, tune, stop, tt, stream, world>>

(* Mutant: replies without unlocking.                                       *)
StartEndsLocked(ok) ==
  /\ start' = NoStart
  /\ state' = IF ok THEN "tuning_success" ELSE "tuning_error_stop"
  /\ freq' = IF ok THEN start.freq ELSE freq
  /\ Post(<<Reply(start.c, ok)>>)
  /\ UNCHANGED <<locked_by, is_req_stop, raced, tune, stop, thread, world>>

StartEnds(ok) ==
  /\ locked_by' = Released("start")
  /\ start' = NoStart
  /\ state' = IF ok THEN "tuning_success" ELSE "tuning_error_stop"
  /\ freq' = IF ok THEN start.freq ELSE freq
  /\ Post(<<Reply(start.c, ok)>>)
  /\ UNCHANGED <<is_req_stop, raced, tune, stop, thread, world>>

StartWaits(polls) ==
  /\ start' = [start EXCEPT !.pc = "timer", !.polls = polls]
  /\ UNCHANGED <<inbox, locked_by, control, tune, stop, thread, world>>

StartReplied(e) ==
  /\ Replies(e, "start")
  /\ \/ e.ok /\ tt = "tuned" /\ StartEnds(TRUE)
     \/ e.ok /\ tt # "tuned" /\ StartWaits(0)
     \/ ~e.ok /\ StartEnds(FALSE)

(* The last wait is not followed by another look.                           *)
StartTimer ==
  /\ ResumeTimer("start")
  /\ \/ start.polls < StartPolls /\ tt = "tuned" /\ StartEnds(TRUE)
     \/ start.polls < StartPolls /\ tt # "tuned" /\ StartWaits(start.polls + 1)
     \/ start.polls = StartPolls /\ StartEnds(FALSE)

(* on_tune_stop.  Only a running stream has to be stopped; whatever the     *)
(* outcome, is_req_stop_ is cleared when this fiber is done, even if another *)
(* one still waits.  The state of the thread is read twice, for tuned and   *)
(* then for tune_begined: if the first data comes in between (missed), both *)
(* reads say no and the stream counts as stopped.                           *)
OnTuneStop(e) ==
  /\ Starts(e, "tune_stop")
  /\ \E missed \in {FALSE, LookMayMiss} :
       /\ missed => tt = "tune_begined"
       /\ tt' = IF missed THEN "tuned" ELSE tt
       /\ raced' = (raced \/ missed)
       /\ IF tt \in Running /\ ~missed
          THEN /\ is_req_stop' = TRUE
               /\ \E s \in StopFibers :
                    /\ stop[s].pc = "none"
                    /\ stop' = [stop EXCEPT ![s] =
                                  [pc |-> "wait", from |-> e.from, c |-> e.c, half |-> FALSE]]
               /\ UNCHANGED <<inbox, state, world>>
          ELSE /\ state' = "tune_stop"
               /\ is_req_stop' = FALSE
               /\ Answer(e, TRUE)
               /\ UNCHANGED stop
  /\ UNCHANGED <<locked_by, freq, tune, start, stream, ttq>>

(* Mutant: the request to stop is cleared only when it has succeeded.       *)
StopEndsAsked(s, ok) ==
  /\ stop' = [stop EXCEPT ![s] = NoStop]
  /\ is_req_stop' = (is_req_stop /\ ~ok)
  /\ Answer(stop[s], ok)
  /\ UNCHANGED <<locked_by, raced, tune, start, thread>>

StopEnds(s, ok) ==
  /\ stop' = [stop EXCEPT ![s] = NoStop]
  /\ is_req_stop' = FALSE
  /\ Answer(stop[s], ok)
  /\ UNCHANGED <<locked_by, raced, tune, start, thread>>

StopSucceeds(s) ==
  /\ ResumeTimer(s)
  /\ tt = "closed"
  /\ freq' = NoFreq
  /\ state' = "tune_stop"
  /\ StopEnds(s, TRUE)

(* A look (or many) that finds the thread not closed.                       *)
StopPolls(s) ==
  /\ ResumeTimer(s)
  /\ tt # "closed"
  /\ UNCHANGED <<inbox, locked_by, control, fibers, thread, world>>

(* After 15 seconds of waiting: force_kill is sent, and waits at a thread   *)
(* that is occupied; a second one in a row changes nothing.  A thread that  *)
(* does not stall leaves its loop within that time when it is asked to.     *)
SendForceKill(s) ==
  /\ ResumeTimer(s)
  /\ ~stop[s].half
  /\ ThreadMayStall \/ (tt \in Running /\ ~is_req_stop)
  /\ stop' = [stop EXCEPT ![s].half = TRUE]
  /\ ttq' = IF ttq # <<>> /\ ttq[Len(ttq)] = "force_kill"
            THEN ttq ELSE Append(ttq, "force_kill")
  /\ UNCHANGED <<inbox, locked_by, control, tune, start, tt, stream, world>>

(* Mutant: giving up is reported as success.                                *)
StopPretends(s) ==
  /\ ResumeTimer(s)
  /\ stop[s].half
  /\ UNCHANGED <<freq, state>>
  /\ StopEnds(s, TRUE)

(* After 30 seconds: an error, without another look at the thread.          *)
StopGivesUp(s) ==
  /\ ResumeTimer(s)
  /\ stop[s].half
  /\ UNCHANGED <<freq, state>>
  /\ StopEnds(s, FALSE)

Handle(e) ==
  \/ DeferEvent(e)
  \/ OnTune(e) \/ OnTuneStart(e) \/ OnTuneStop(e)
  \/ StartReplied(e)
  \/ \E c \in Callers : TuneStopped(e, c) \/ TuneFailed(e, c) \/ TuneStarted(e, c)

StopTimer(s) == StopSucceeds(s) \/ StopPolls(s) \/ SendForceKill(s) \/ StopGivesUp(s)

Scheduler ==
  \/ \E expired \in SUBSET HasTimer : Turn(expired)
  \/ StartTimer
  \/ \E s \in StopFibers : StopTimer(s) \/ TimerSkipped(s)
  \/ batch # <<>> /\ Handle(Head(batch))

Thread ==
  \/ \E ok \in BOOLEAN : ThreadTunes(ok)
  \/ ThreadKills \/ FirstData \/ StreamEnds \/ StopSeen \/ ThreadCloses

Asks(c) ==
  \/ \E f \in FreqsOf(c) : Ask(c, "tune", f)
  \/ Ask(c, "tune_stop", NoFreq)

Next == Scheduler \/ Thread \/ \E c \in Callers : Asks(c)

Spec == Init /\ [][Next]_vars

(* Both threads run.  Every timer expires in the end and stays expired      *)
(* until a turn that begins without somebody else's lock (SF: a turn can    *)
(* only begin when the one before has ended), and on_tune_stop counts its   *)
(* looks.                                                                   *)
(* The tuner command need not produce data.                                 *)
Fairness ==
  /\ WF_vars(Scheduler)
  /\ \A f \in StopFibers \cup {"start"} :
       SF_vars(MayResume(f) /\ \E expired \in SUBSET HasTimer : f \in expired /\ Turn(expired))
  /\ \A s \in StopFibers : SF_vars(SendForceKill(s) \/ StopGivesUp(s))
  /\ WF_vars((\E ok \in BOOLEAN : ThreadTunes(ok)) \/ ThreadKills)
  /\ WF_vars(StopSeen) /\ WF_vars(ThreadCloses)

FairSpec == Spec /\ Fairness

-----------------------------------------------------------------------------
Froms == {"caller", "tune", "send"}
Event ==
  [type : {"START"}, seq : {"tune", "tune_start", "tune_stop"},
   from : Froms, c : Callers, freq : Freqs \cup {NoFreq}]
  \cup [type : {"REPLY"}, to : Callers \cup {"start"}, ok : BOOLEAN]

TypeOK ==
  /\ inbox \in Seq(Event) /\ batch \in Seq(Event) /\ deferred \in Seq(Event)
  /\ due \subseteq StopFibers \cup {"start"}
  /\ locked_by \in {"start", NoFiber}
  /\ freq \in Freqs \cup {NoFreq}
  /\ state \in {"tuning_begin", "tuning_success", "tuning_error_stop", "tune_stop"}
  /\ is_req_stop \in BOOLEAN
  /\ tune \in [Callers -> [pc : {"none", "stop", "start"}, freq : Freqs \cup {NoFreq}]]
  /\ start \in [pc : {"none", "request", "timer"}, c : Callers,
                freq : Freqs \cup {NoFreq}, polls : 0..StartPolls]
  /\ stop \in [StopFibers -> [pc : {"none", "wait"}, from : Froms, c : Callers, half : BOOLEAN]]
  /\ tt \in Running \cup {"closed", "tune_ended"}
  /\ stream \in Freqs \cup {NoFreq}
  /\ ttq \in Seq({"tune", "force_kill"})
  /\ asks \in [Callers -> {"none", "tune", "tune_stop"}]
  /\ svc \in {"down", "up", "unsure"}
  /\ raced \in BOOLEAN

(* tune_thread answers a tune request at once, with an error if it is not   *)
(* closed (the check of state_ at the top of its on_tune): a tune request   *)
(* never waits at a thread that a stream occupies.  If it does,             *)
(* on_tune_start waits for it with the lock held, so the tune_stop that     *)
(* would free the thread is set aside, and the tuner hangs.  There are two  *)
(* exceptions: a stream that on_tune_stop has missed, and two callers that  *)
(* tune this tuner at once, for between the tune_stop and the tune_start of *)
(* one on_tune those of the other go through.                               *)
ThreadFreeForTune ==
  tt \in Running /\ ~raced => \A i \in DOMAIN ttq : ttq[i] # "tune"

(* is_req_stop_ is cleared by every on_tune_stop that ends, so one may      *)
(* clear it under another.  It never stays set after the last one: a stale  *)
(* request would kill the next stream.                                      *)
NoStaleStop ==
  is_req_stop => \E s \in StopFibers : stop[s].pc = "wait"

(* The tuner stays usable: neither hazard, on the two sides of the flags    *)
(* that the two threads share without a lock, ever happens.                 *)
TunerIsUsable == ThreadFreeForTune /\ NoStaleStop

(* tuner_service, which waits with its lock held, is always answered,       *)
(* whatever the console asks, unless on_tune_stop has missed a stream or    *)
(* the console tunes at the same time.                                      *)
ServiceIsAnswered == asks["service"] # "none" ~> asks["service"] = "none" \/ raced
=============================================================================
