------------------------------ MODULE Viewing -------------------------------
(***************************************************************************)
(* Live viewing on one tuner.  viewing_manager (a coseq module) starts a   *)
(* viewing: it opens and tunes the tuner, forks ffmpeg and tells the       *)
(* tuner's stream handler to begin.  The handler runs on the tune thread   *)
(* each time data arrives, and moves through progress_; viewing_manager's  *)
(* thread writes progress_ to end the viewing (a stop, a dead child, a     *)
(* lost PAT), and after a lost PAT runs the handler itself.  Nothing       *)
(* protects progress_.  At its end the handler sends a notice, on which    *)
(* viewing_manager clears the viewing and gives the tuner back.            *)
(*                                                                         *)
(* Fibers: "start" is on_start_viewing, of which the lock allows one,      *)
(* "loop" is on_check_loop; the others run without waiting.                *)
(***************************************************************************)
EXTENDS Coseq, Naturals, FiniteSets

CONSTANTS
  Users,      \* those who start and stop viewings, one request at a time
  EventTries, \* retries for the present event (10 in the code)
  Troubles,   \* what may happen besides: see the world, below
  MaxAsks     \* bound on the requests of a behaviour

ASSUME ViewingAssumption ==
  /\ "nobody" \notin Users
  /\ Troubles \subseteq {"child_dies", "stream_dries", "pat_lost", "auto_stop", "other_client"}
  /\ EventTries \in Nat /\ MaxAsks \in Nat

VARIABLES
  used,      \* viewings_[g].is_used
  auto,      \* viewings_[g].auto_stop
  child,     \* ffmpeg: "none", "alive", or "dead" until forker_ notices
  start,     \* the on_start_viewing fiber
  peer,      \* what it has asked channel_manager or psisi_manager for
  user,      \* [Users -> the request the user waits for, or "none"]
  asked,     \* requests so far
  progress,  \* progress_ of the stream handler
  h,         \* [Threads -> where the thread is in on_ts_received]
  svcq,      \* requests waiting at tuner_service
  tuner,     \* whose the tuner is: "free", "mine" (viewing's), "other"
  tuned,     \* is_now_tuned of the tuner
  stream,    \* "off", "on", or "silent" if no data comes any more
  pat_lost,  \* psisi_manager has announced that the PAT is lost
  races      \* history: the races that have happened (see Set)

people  == <<user, asked>>
viewing == <<used, auto, child>>
fibers  == <<start, peer>>
handler == <<progress, h, races>>
service == <<svcq, tuner, tuned, stream, pat_lost>>
vars == <<inbox, batch, due, deferred, locked_by,
          viewing, fibers, people, handler, service>>

Threads == {"tune", "viewing"}
Ends    == {"post_process", "post_process_forcibly"}
NoStart == [pc |-> "none", u |-> "nobody", tries |-> 0]
Outside == [pc |-> "out", case |-> "init"]

Request(seq, u) == [type |-> "START", seq |-> seq, u |-> u]
EndNotice == Request("notice", "nobody")
AutoStop  == Request("stop", "nobody")
Reply(ok) == [type |-> "REPLY", ok |-> ok]
PatNotice == [type |-> "NOTIFY"]
Owner(e) == IF e.type = "REPLY" THEN "start" ELSE NoFiber

InFlight(e) == \E i \in DOMAIN flight : flight[i] = e

Init ==
  /\ CoseqInit
  /\ used = FALSE /\ auto = FALSE /\ child = "none"
  /\ start = NoStart
  /\ peer = "none"
  /\ user = [u \in Users |-> "none"] /\ asked = 0
  /\ progress = "init"
  /\ h = [t \in Threads |-> Outside]
  /\ svcq = <<>>
  /\ tuner = "free" /\ tuned = FALSE
  /\ stream = "off" /\ pat_lost = FALSE
  /\ races = {}

-----------------------------------------------------------------------------
(* The users ask viewing_manager.                                           *)
Ask(u, seq) ==
  /\ seq = "set_option" => "auto_stop" \in Troubles
  /\ user[u] = "none" /\ asked < MaxAsks
  /\ asked' = asked + 1
  /\ user' = [user EXCEPT ![u] = seq]
  /\ Post(<<Request(seq, u)>>)
  /\ UNCHANGED <<batch, due, deferred, locked_by, viewing, fibers, handler, service>>

Answer(u) ==
  /\ user' = IF u \in Users THEN [user EXCEPT ![u] = "none"] ELSE user
  /\ UNCHANGED asked

-----------------------------------------------------------------------------
(* on_ts_received on either thread: it looks at progress_, does its work,   *)
(* looks at progress_ again for the notice, and writes progress_.  Only the *)
(* notice of an end is of any consequence.                                  *)
Inside(t) == h[t].pc # "out"

Enter(t) ==
  /\ h' = [h EXCEPT ![t] = IF progress = "init" THEN Outside
                           ELSE [pc |-> "work", case |-> progress]]
  /\ races' = races \cup
       (IF progress # "init" /\ \E o \in Threads \ {t} : h[o].pc \in {"work", "noticed"}
        THEN {"both"} ELSE {})

(* Mutant: the notice of process_end_success already ends the viewing.      *)
NotifyEarly(t) ==
  /\ h[t].pc = "work" /\ h[t].case # "processing"
  /\ h' = [h EXCEPT ![t].pc = "noticed"]
  /\ Post(IF h[t].case \in {"process_end_success"} \cup Ends THEN <<EndNotice>> ELSE <<>>)
  /\ UNCHANGED <<batch, due, deferred, locked_by, viewing, fibers, people, progress, races, service>>

Notify(t) ==
  /\ h[t].pc = "work" /\ h[t].case # "processing"
  /\ h' = [h EXCEPT ![t].pc = "noticed"]
  /\ Post(IF progress \in Ends THEN <<EndNotice>> ELSE <<>>)
  /\ UNCHANGED <<batch, due, deferred, locked_by, viewing, fibers, people, progress, races, service>>

(* Mutant: an end by force does not make the handler idle.                  *)
AfterCaseForced(c) ==
  CASE c = "pre_process"         -> "processing"
    [] c = "process_end_success" -> "post_process"
    [] c \in Ends                -> IF c = "post_process" THEN "init" ELSE c

AfterCase(c) ==
  CASE c = "pre_process"         -> "processing"
    [] c = "process_end_success" -> "post_process"
    [] c \in Ends                -> "init"

Leave(t) ==
  /\ \/ h[t].pc = "noticed" /\ progress' = AfterCase(h[t].case)
     \/ h[t].pc = "work" /\ h[t].case = "processing" /\ UNCHANGED progress
  /\ h' = [h EXCEPT ![t] = Outside]
  /\ UNCHANGED <<inbox, batch, due, deferred, locked_by, viewing, fibers, people, races, service>>

(* Data arrives at the tune thread.  While progress_ is init nothing comes  *)
(* of it.                                                                   *)
DataArrives ==
  /\ stream = "on" /\ ~Inside("tune")
  /\ progress # "init"
  /\ Enter("tune")
  /\ UNCHANGED <<inbox, batch, due, deferred, locked_by, viewing, fibers, people, progress, service>>

(* set_next_progress, on viewing_manager's thread, whatever progress_ is.   *)
(* races records a write between the tune thread's reads and its own write  *)
(* (torn) and one that comes after the end has been announced (late).       *)
Set(p) ==
  /\ progress' = p
  /\ races' = races
       \cup (IF progress = "init" THEN {"late"} ELSE {})
       \cup (IF \/ h["tune"].pc = "work" /\ h["tune"].case # "processing"
                \/ h["tune"].pc = "noticed" /\ h["tune"].case \notin Ends
             THEN {"torn"} ELSE {})

-----------------------------------------------------------------------------
(* The world: ffmpeg may end, the stream may dry up, and psisi_manager      *)
(* announces that the PAT is lost (30 seconds without one) once after each  *)
(* tune; that it is found and lost again while data comes is left out.  One *)
(* notification is handled before the next.                                 *)
ChildDies ==
  /\ "child_dies" \in Troubles
  /\ child = "alive"
  /\ child' = "dead"
  /\ UNCHANGED <<inbox, batch, due, deferred, locked_by, used, auto, fibers, people, handler, service>>

StreamDries ==
  /\ "stream_dries" \in Troubles
  /\ stream = "on"
  /\ stream' = "silent"
  /\ UNCHANGED <<inbox, batch, due, deferred, locked_by, viewing, fibers, people, handler,
                 svcq, tuner, tuned, pat_lost>>

PatLost ==
  /\ stream = "silent" \/ "pat_lost" \in Troubles
  /\ stream # "off" /\ ~pat_lost /\ ~InFlight(PatNotice)
  /\ pat_lost' = TRUE
  /\ Post(<<PatNotice>>)
  /\ UNCHANGED <<batch, due, deferred, locked_by, viewing, fibers, people, handler,
                 svcq, tuner, tuned, stream>>

-----------------------------------------------------------------------------
(* tuner_service, in the order of the requests.  While it tunes, data       *)
(* already flows.  A stop ends when the tune thread has ended the stream.   *)
(* close does not look at the owner.                                        *)
First(request) == svcq # <<>> /\ Head(svcq) = request
ServiceOnly == UNCHANGED <<batch, due, deferred, locked_by, viewing, fibers, people, handler>>

ServiceOpens(ok) ==
  /\ First("open")
  /\ ok => tuner = "free"
  /\ tuner' = IF ok THEN "mine" ELSE tuner
  /\ svcq' = Tail(svcq)
  /\ Post(<<Reply(ok)>>)
  /\ ServiceOnly /\ UNCHANGED <<tuned, stream, pat_lost>>

ServiceTunes ==
  /\ First("tune")
  /\ IF tuner = "mine" /\ ~tuned
     THEN svcq' = <<"tuning">> \o Tail(svcq) /\ stream' = "on" /\ pat_lost' = FALSE
          /\ UNCHANGED inbox
     ELSE svcq' = Tail(svcq) /\ Post(<<Reply(FALSE)>>) /\ UNCHANGED <<stream, pat_lost>>
  /\ ServiceOnly /\ UNCHANGED <<tuner, tuned>>

StreamStops == ~Inside("tune") /\ stream' = "off" /\ pat_lost' = FALSE

ServiceTuned(ok) ==
  /\ First("tuning")
  /\ svcq' = Tail(svcq)
  /\ tuned' = ok
  /\ IF ok THEN UNCHANGED <<stream, pat_lost>> ELSE StreamStops
  /\ Post(<<Reply(ok)>>)
  /\ ServiceOnly /\ UNCHANGED tuner

ServiceStops ==
  /\ First("tune_stop")
  /\ svcq' = Tail(svcq)
  /\ IF tuner = "mine" /\ tuned
     THEN StreamStops /\ tuned' = FALSE
     ELSE UNCHANGED <<tuned, stream, pat_lost>>
  /\ ServiceOnly /\ UNCHANGED <<inbox, tuner>>

ServiceCloses ==
  /\ First("close")
  /\ svcq' = Tail(svcq)
  /\ tuner' = IF tuned THEN tuner ELSE "free"
  /\ ServiceOnly /\ UNCHANGED <<inbox, tuned, stream, pat_lost>>

(* Another client has the tuner for a while.  Its data reaches this handler *)
(* as well.                                                                 *)
OtherOpens ==
  /\ "other_client" \in Troubles
  /\ tuner = "free"
  /\ tuner' = "other"
  /\ ServiceOnly /\ UNCHANGED <<inbox, svcq, tuned, stream, pat_lost>>

OtherTunes ==
  /\ tuner = "other" /\ ~tuned
  /\ tuned' = TRUE /\ stream' = "on" /\ pat_lost' = FALSE
  /\ ServiceOnly /\ UNCHANGED <<inbox, svcq, tuner>>

OtherCloses ==
  /\ tuner = "other"
  /\ tuner' = "free" /\ tuned' = FALSE /\ StreamStops
  /\ ServiceOnly /\ UNCHANGED <<inbox, svcq>>

(* channel_manager and psisi_manager answer the start fiber.                *)
PeerAnswers(ok) ==
  /\ peer # "none"
  /\ peer' = "none"
  /\ Post(<<Reply(ok)>>)
  /\ UNCHANGED <<batch, due, deferred, locked_by, viewing, start, people, handler, service>>

-----------------------------------------------------------------------------
(* The scheduler of viewing_manager, which waits while its thread is in the *)
(* handler.  on_check_loop waits all the time; the seconds in which it      *)
(* would find nothing to do are left out.                                   *)
Scheduling == ~Inside("viewing")
HasTimer ==
  (IF start.pc = "event_timer" THEN {"start"} ELSE {})
    \cup (IF child = "dead" \/ (used /\ auto) THEN {"loop"} ELSE {})

Turn(expired) ==
  /\ BeginTurn(expired)
  /\ UNCHANGED <<viewing, fibers, people, handler, service>>

TimerSkipped(f) ==
  /\ SkipTimer(f)
  /\ UNCHANGED <<viewing, fibers, people, handler, service>>

DeferEvent(e) ==
  /\ Defer(e, Owner(e))
  /\ UNCHANGED <<viewing, fibers, people, handler, service>>

Starts(e, seq) == Take(e, NoFiber) /\ e.type = "START" /\ e.seq = seq
Replied(e, pc) == Take(e, "start") /\ e.type = "REPLY" /\ start.pc = pc

(* Both end a viewing: viewings_[g].clear, then send tune_stop, send close. *)
Clear == used' = FALSE /\ auto' = FALSE
GiveBack == svcq' = svcq \o <<"tune_stop", "close">>

(* on_start_viewing.  Before a tuner is open, an error gives nothing back.  *)
OnStart(e) ==
  /\ Starts(e, "start")
  /\ LockFor("start")
  /\ start' = [pc |-> "channel", u |-> e.u, tries |-> 0]
  /\ peer' = "channel"
  /\ UNCHANGED <<inbox, viewing, people, handler, service>>

(* Mutant: the lock is kept.                                                *)
StartOverLocked ==
  /\ start' = NoStart
  /\ Answer(start.u)
  /\ UNCHANGED locked_by

StartOver ==
  /\ start' = NoStart
  /\ Answer(start.u)
  /\ locked_by' = Released("start")

(* The fiber has a tuner, and gives it back if it fails.                    *)
Opened == start.pc \in {"tune", "event", "event_timer", "name"}

StartGoes(pc) ==
  /\ start' = [start EXCEPT !.pc = pc]
  /\ UNCHANGED <<locked_by, people>>

ChannelAnswered(e) ==
  /\ Replied(e, "channel")
  /\ \/ e.ok /\ StartGoes("open") /\ svcq' = Append(svcq, "open")
     \/ ~e.ok /\ StartOver /\ UNCHANGED svcq
  /\ UNCHANGED <<inbox, peer, viewing, handler, tuner, tuned, stream, pat_lost>>

OpenAnswered(e) ==
  /\ Replied(e, "open")
  /\ \/ e.ok /\ StartGoes("tune") /\ svcq' = Append(svcq, "tune") /\ Clear
     \/ ~e.ok /\ StartOver /\ UNCHANGED <<svcq, used, auto>>
  /\ UNCHANGED <<inbox, peer, child, handler, tuner, tuned, stream, pat_lost>>

StartFails ==
  /\ StartOver
  /\ Clear
  /\ GiveBack
  /\ UNCHANGED <<inbox, peer, child, handler, tuner, tuned, stream, pat_lost>>

AsksFor(what) ==
  /\ StartGoes(what)
  /\ peer' = what
  /\ UNCHANGED <<inbox, viewing, handler, service>>

TuneAnswered(e) ==
  /\ Replied(e, "tune")
  /\ (e.ok /\ AsksFor("event")) \/ (~e.ok /\ StartFails)

EventAnswered(e) ==
  /\ Replied(e, "event")
  /\ \/ e.ok /\ AsksFor("name")
     \/ ~e.ok /\ StartGoes("event_timer")
        /\ UNCHANGED <<inbox, peer, viewing, handler, service>>

EventTimer ==
  /\ Scheduling
  /\ ResumeTimer("start")
  /\ \/ /\ start.tries < EventTries
        /\ start' = [start EXCEPT !.pc = "event", !.tries = @ + 1]
        /\ peer' = "event"
        /\ UNCHANGED <<inbox, locked_by, people, viewing, handler, service>>
     \/ start.tries = EventTries /\ StartFails

(* The viewing is entered in the table, then the handler must be idle, and  *)
(* the pipes and the fork must succeed.  The name itself is optional.       *)
NameAnswered(e) ==
  /\ Replied(e, "name")
  /\ \/ StartFails
     \/ /\ progress = "init"
        /\ used' = TRUE /\ child' = "alive"
        /\ progress' = "pre_process"
        /\ StartOver
        /\ UNCHANGED <<inbox, peer, auto, h, races, service>>

(* on_stop_viewing, for a user or for the loop.                             *)
OnStop(e) ==
  /\ Starts(e, "stop")
  /\ IF used THEN Set("process_end_success") ELSE UNCHANGED <<progress, races>>
  /\ Answer(e.u)
  /\ UNCHANGED <<inbox, locked_by, viewing, fibers, h, service>>

(* on_set_option                                                            *)
OnSetOption(e) ==
  /\ Starts(e, "set_option")
  /\ auto' = (auto \/ used)
  /\ Answer(e.u)
  /\ UNCHANGED <<inbox, locked_by, used, child, fibers, handler, service>>

(* Mutant: the child is left alone.                                         *)
OnNoticeChildLeft(e) ==
  /\ Starts(e, "notice")
  /\ Clear
  /\ GiveBack
  /\ UNCHANGED <<inbox, locked_by, child, fibers, people, handler, tuner, tuned, stream, pat_lost>>

(* on_notice_by_stream_handler: the child is killed and waited for.         *)
OnNotice(e) ==
  /\ Starts(e, "notice")
  /\ child' = "none"
  /\ Clear
  /\ GiveBack
  /\ UNCHANGED <<inbox, locked_by, fibers, people, handler, tuner, tuned, stream, pat_lost>>

(* on_check_loop, each second: past its time the viewing is asked to stop   *)
(* (again and again, but one such request at a time is under way), and a    *)
(* dead child ends it by force.                                             *)
CheckLoop ==
  /\ Scheduling
  /\ ResumeTimer("loop")
  /\ \E past \in {FALSE, used /\ auto /\ ~InFlight(AutoStop)} :
       Post(IF past THEN <<AutoStop>> ELSE <<>>)
  /\ IF child = "dead"
     THEN child' = "none" /\ Set("post_process_forcibly")
     ELSE UNCHANGED <<child, progress, races>>
  /\ UNCHANGED <<locked_by, used, auto, fibers, people, h, service>>

(* Mutant: the handler is left to the tune thread.                          *)
OnPatLostUncalled(e) ==
  /\ Take(e, NoFiber) /\ e.type = "NOTIFY"
  /\ IF used THEN Set("post_process_forcibly") ELSE UNCHANGED <<progress, races>>
  /\ UNCHANGED <<inbox, locked_by, viewing, fibers, people, h, service>>

(* on_receive_notify, PAT lost: progress_ is set and the handler called on  *)
(* this thread, which enters it with the next step.                         *)
OnPatLost(e) ==
  /\ Take(e, NoFiber) /\ e.type = "NOTIFY"
  /\ IF used
     THEN Set("post_process_forcibly") /\ h' = [h EXCEPT !["viewing"].pc = "call"]
     ELSE /\ races' = races \cup (IF Opened THEN {"early"} ELSE {})
          /\ UNCHANGED <<progress, h>>
  /\ UNCHANGED <<inbox, locked_by, viewing, fibers, people, service>>

CallHandler ==
  /\ h["viewing"].pc = "call"
  /\ Enter("viewing")
  /\ UNCHANGED <<inbox, batch, due, deferred, locked_by, viewing, fibers, people, progress, service>>

Handle(e) ==
  \/ DeferEvent(e)
  \/ OnStart(e) \/ OnStop(e) \/ OnSetOption(e) \/ OnNotice(e) \/ OnPatLost(e)
  \/ ChannelAnswered(e) \/ OpenAnswered(e) \/ TuneAnswered(e)
  \/ EventAnswered(e) \/ NameAnswered(e)

Scheduler ==
  /\ Scheduling
  /\ \/ \E expired \in SUBSET HasTimer : Turn(expired)
     \/ CheckLoop \/ EventTimer
     \/ \E f \in HasTimer : TimerSkipped(f)
     \/ batch # <<>> /\ Handle(Head(batch))

InHandler(t) == Notify(t) \/ Leave(t)

Service ==
  \/ \E ok \in BOOLEAN : ServiceOpens(ok) \/ ServiceTuned(ok)
  \/ ServiceTunes \/ ServiceStops \/ ServiceCloses

Next ==
  \/ \E u \in Users, seq \in {"start", "stop", "set_option"} : Ask(u, seq)
  \/ Scheduler \/ CallHandler
  \/ DataArrives \/ \E t \in Threads : InHandler(t)
  \/ ChildDies \/ StreamDries \/ PatLost
  \/ Service \/ OtherOpens \/ OtherTunes \/ OtherCloses
  \/ \E ok \in BOOLEAN : PeerAnswers(ok)

Spec == Init /\ [][Next]_vars

(* Both threads run and the peers answer.  Every timer expires in the end   *)
(* (strong, because a turn begins only between two turns).  A stream that   *)
(* is on brings data, and far more often than the automatic stop is asked   *)
(* for again; psisi_manager looks at the PAT every other second.            *)
Fairness ==
  /\ WF_vars(Scheduler \/ CallHandler)
  /\ \A f \in {"start", "loop"} :
       SF_vars(Scheduling /\ \E expired \in SUBSET HasTimer : f \in expired /\ Turn(expired))
  /\ \A t \in Threads : WF_vars(InHandler(t))
  /\ WF_vars(DataArrives)
  /\ SF_vars(progress = "post_process" /\ DataArrives)
  /\ WF_vars(stream = "silent" /\ PatLost)
  /\ SF_vars(Service)
  /\ WF_vars(\E ok \in BOOLEAN : PeerAnswers(ok))

FairSpec == Spec /\ Fairness

-----------------------------------------------------------------------------
Progress == Ends \cup {"init", "pre_process", "processing", "process_end_success"}
StartPcs == {"none", "channel", "open", "tune", "event", "event_timer", "name"}
Event ==
  [type : {"START"}, seq : {"start", "stop", "set_option", "notice"}, u : Users \cup {"nobody"}]
  \cup [type : {"REPLY"}, ok : BOOLEAN] \cup {PatNotice}

TypeOK ==
  /\ inbox \in Seq(Event) /\ batch \in Seq(Event) /\ deferred \in Seq(Event)
  /\ due \subseteq {"start", "loop"}
  /\ locked_by \in {"start", NoFiber}
  /\ used \in BOOLEAN /\ auto \in BOOLEAN /\ child \in {"none", "alive", "dead"}
  /\ start \in [pc : StartPcs, u : Users \cup {"nobody"}, tries : 0..EventTries]
  /\ peer \in {"none", "channel", "event", "name"}
  /\ user \in [Users -> {"none", "start", "stop", "set_option"}] /\ asked \in 0..MaxAsks
  /\ progress \in Progress
  /\ h \in [Threads -> [pc : {"out", "call", "work", "noticed"}, case : Progress]]
  /\ svcq \in Seq({"open", "tune", "tuning", "tune_stop", "close"})
  /\ tuner \in {"free", "mine", "other"} /\ tuned \in BOOLEAN
  /\ stream \in {"off", "on", "silent"} /\ pat_lost \in BOOLEAN
  /\ races \subseteq {"torn", "late", "both", "early"}

Count(q, e) == Cardinality({i \in DOMAIN q : q[i] = e})
Notices == Count(flight, EndNotice)
             + Cardinality({t \in Threads : h[t].pc = "work" /\ h[t].case \in Ends})
Closes  == Count(svcq, "close")
Holds   == (IF used THEN 1 ELSE 0) + (IF Opened THEN 1 ELSE 0)

(* A viewing in the table has its tuner, tuned, whatever races the notices  *)
(* of earlier viewings: a notice that comes late finds the lock taken or    *)
(* the table entry, and ends the new viewing with it.                       *)
ViewingHasTuner == used => tuner = "mine" /\ tuned /\ Closes = 0

(* An ffmpeg that runs, or has to be waited for, belongs to a viewing: no   *)
(* fork overwrites the pid of another child.                                *)
ChildHasViewing == child # "none" => used

(* Whatever races, a viewing and what it uses are in the table together:    *)
(* neither is ever left behind by the end of the other.                     *)
ViewingIsWhole == ViewingHasTuner /\ ChildHasViewing

(* Each viewing ends once.  The notice of an end is that of the viewing in  *)
(* the table, and a close is sent for a tuner that nobody in this module    *)
(* holds any more: the discipline that tuner_service, which checks no owner *)
(* in close, needs from its clients.  Only a race on progress_ breaks it.   *)
EndsOnce == races = {} => Holds + Closes <= 1 /\ Notices <= Holds

(* The handler of a tuner that a start has opened is idle, unless a race on *)
(* progress_ has left it behind in the end of an earlier viewing.           *)
HandlerReadyUnlessRaced == races = {} /\ Opened => progress = "init"

(* An accepted stop ends the viewing, if not with the next data then when   *)
(* the PAT is lost.                                                         *)
StopEnds == progress = "process_end_success" ~> ~used \/ races # {}

(* Every user is answered, also while the lock is held over a start.        *)
UserIsAnswered == \A u \in Users : user[u] # "none" ~> user[u] = "none"

-----------------------------------------------------------------------------
(* What a viewing leaves behind when it ends, and that it ends.             *)
EndIsClean == EndsOnce /\ HandlerReadyUnlessRaced
EndsAndAnswers == StopEnds /\ UserIsAnswered
=============================================================================
