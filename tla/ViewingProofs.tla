---------------------------- MODULE ViewingProofs ---------------------------
(***************************************************************************)
(* Theorems about live viewing, for any users and any number of retries: a *)
(* viewing in the table has its tuner and its ffmpeg, whatever races on    *)
(* progress_, and each viewing ends once as long as nothing has raced.     *)
(*                                                                         *)
(* The first rests on where a start is (Base): the requests that           *)
(* tuner_service has yet to serve are those of its place, behind the stops *)
(* and closes of earlier viewings, and nobody else holds the tuner then.   *)
(* The second rests on the stream handler (Sound): progress_ is the        *)
(* case that a thread is in, only one thread is in it, and the notice of   *)
(* the end is for the viewing in the table until it is handled.            *)
(***************************************************************************)
EXTENDS Viewing, CoseqProofs, FiniteSetTheorems

(* What is sent: only the handler gives notice of an end.                   *)
Answers == {Reply(TRUE), Reply(FALSE)}
Sent ==
  [type : {"START"}, seq : {"start", "stop", "set_option"}, u : Users \cup {"nobody"}]
    \cup {EndNotice, PatNotice} \cup Answers

Answered  == InTransit \cap Answers # {}
Announced == EndNotice \in InTransit
Backs     == Seq({"tune_stop", "close"})

-----------------------------------------------------------------------------
(* Whatever races.                                                          *)
StateType ==
  /\ due \subseteq {"start", "loop"} /\ ("start" \in due => start.pc = "event_timer")
  /\ locked_by \in {"start", NoFiber}
  /\ used \in BOOLEAN /\ auto \in BOOLEAN /\ child \in {"none", "alive", "dead"}
  /\ start \in [pc : StartPcs, u : Users \cup {"nobody"}, tries : 0..EventTries]
  /\ peer \in {"none", "channel", "event", "name"}
  /\ user \in [Users -> {"none", "start", "stop", "set_option"}] /\ asked \in 0..MaxAsks
  /\ progress \in Progress
  /\ h \in [Threads -> [pc : {"out", "call", "work", "noticed"}, case : Progress]]
  /\ svcq \in Seq({"open", "tune", "tuning", "tune_stop", "close"})
  /\ tuner \in {"free", "mine", "other"} /\ tuned \in BOOLEAN
  /\ stream \in {"off", "on", "silent"} /\ pat_lost \in BOOLEAN
  /\ races \subseteq {"torn", "late", "both", "early"}

Lock == locked_by = "start" <=> start.pc # "none"

(* The start fiber waits for one answer.                                    *)
Waits ==
  /\ AtMostOnce(flight, Answers)
  /\ peer = IF start.pc \in {"channel", "event", "name"} /\ ~Answered THEN start.pc ELSE "none"
  /\ start.pc \in {"none", "event_timer"} => ~Answered

Tuned == start.pc \in {"event", "event_timer", "name"}

(* What tuner_service has yet to serve.                                     *)
Queue ==
  /\ start.pc \in {"none", "channel"} => svcq \in Backs
  /\ start.pc = "open" /\ ~Answered => \E q \in Backs : svcq = Append(q, "open")
  /\ start.pc = "tune" /\ ~Answered => svcq \in {<<"tune">>, <<"tuning">>}
  /\ (start.pc \in {"open", "tune"} /\ Answered) \/ Tuned => svcq = <<>>

(* Whose the tuner is.                                                      *)
Holding ==
  /\ tuner = "free" => ~tuned
  /\ start.pc = "open" /\ Reply(TRUE) \in InTransit => tuner = "mine" /\ ~tuned /\ ~used
  /\ Opened => tuner = "mine" /\ ~used
  /\ start.pc = "tune" /\ ~Answered => ~tuned
  /\ start.pc = "tune" /\ Reply(TRUE) \in InTransit => tuned
  /\ Tuned => tuned
  /\ used => tuner = "mine" /\ tuned /\ svcq \in {<<>>, <<"open">>}
  /\ child # "none" => used

At(t)     == h[t].pc \in {"work", "noticed"}
Ending(t) == h[t].pc = "work" /\ h[t].case \in Ends
Ended(t)  == h[t].pc = "noticed" /\ h[t].case \in Ends
Writing(t) == h[t].pc = "work" /\ h[t].case = "processing"

Handling ==
  /\ Inside("viewing") => used
  /\ \A t \in Threads : /\ At(t) => h[t].case # "init"
                        /\ h[t].pc = "noticed" => h[t].case # "processing"

Base == QueuesIn(Sent) /\ StateType /\ Lock /\ Waits /\ Queue /\ Holding /\ Handling

-----------------------------------------------------------------------------
(* As long as nothing has raced.                                            *)
Alone ==
  /\ \A t \in Threads : At(t) => progress # "init"
  /\ ~(At("tune") /\ At("viewing"))
  /\ \A t \in Threads : At(t) /\ ~Ended(t) /\ ~Writing(t) => progress = h[t].case

Announcing ==
  /\ AtMostOnce(flight, {EndNotice})
  /\ Announced => /\ used
                  /\ progress = "init" \/ \E t \in Threads : Ended(t)
                  /\ \A t \in Threads : ~Ending(t)
  /\ \A t \in Threads : Ending(t) => used

GoneBack ==
  /\ ~used => progress = "init" \/ Ended("tune")
  /\ ~used /\ Inside("tune") => tuner = "mine" /\ tuned /\ svcq # <<>> /\ Head(svcq) = "tune_stop"
  /\ AtMostOnce(svcq, {"close"})

Sound == Alone /\ Announcing /\ GoneBack

IInv == Base /\ (races = {} => Sound)

-----------------------------------------------------------------------------
(* The requests at tuner_service.                                           *)
LEMMA BackTail ==
  ASSUME NEW q \in Backs, q # <<>>
  PROVE  Tail(q) \in Backs /\ Head(q) \in {"tune_stop", "close"}
BY HeadTailProperties DEF Backs

LEMMA OpenLast ==
  ASSUME NEW q \in Backs, NEW w, w = Append(q, "open")
  PROVE  /\ w \in Seq({"open", "tune_stop", "close"}) /\ w # <<>>
         /\ Head(w) = "open" => q = <<>> /\ w = <<"open">> /\ Tail(w) = <<>>
         /\ Head(w) # "open" => /\ Head(w) \in {"tune_stop", "close"}
                                /\ Tail(q) \in Backs /\ Tail(w) = Append(Tail(q), "open")
         /\ q # <<>> => Head(w) = Head(q)
<1> DEFINE S == {"open", "tune_stop", "close"}
<1>1. Len(q) \in Nat /\ q \in Seq({"tune_stop", "close"}) /\ q \in Seq(S)
  BY DEF Backs
<1>2. /\ w \in Seq(S) /\ Len(w) = Len(q) + 1 /\ w[Len(q) + 1] = "open"
      /\ \A i \in 1..Len(q) : w[i] = q[i]
  BY <1>1, AppendProperties
<1>3. w # <<>> /\ Head(w) = w[1]
  BY <1>1, <1>2, EmptySeq, HeadTailProperties
<1>4. CASE q = <<>>
  <2>1. w = <<"open">> /\ Tail(w) = <<>>
    BY <1>4
  <2>2. QED BY <1>2, <1>3, <1>4, <2>1
<1>5. CASE q # <<>>
  <2>1. Len(q) > 0 /\ Head(q) = q[1] /\ Head(q) \in {"tune_stop", "close"} /\ Tail(q) \in Backs
    BY <1>1, <1>5, EmptySeq, HeadTailProperties, BackTail
  <2>2. Head(w) = Head(q)
    BY <1>1, <1>2, <1>3, <2>1
  <2>3. Tail(w) = Append(Tail(q), "open")
    <3>1. /\ Tail(q) \in Seq(S) /\ Len(Tail(q)) = Len(q) - 1
          /\ \A i \in 1..Len(Tail(q)) : Tail(q)[i] = q[i + 1]
      BY <1>1, <1>5, HeadTailProperties
    <3>2. /\ Tail(w) \in Seq(S) /\ Len(Tail(w)) = Len(q)
          /\ \A i \in 1..Len(Tail(w)) : Tail(w)[i] = w[i + 1]
      BY <1>1, <1>2, <1>3, HeadTailProperties
    <3> DEFINE v == Append(Tail(q), "open")
               tq == Tail(q)
               tw == Tail(w)
    <3>0. Len(tq) = Len(q) - 1 /\ \A i \in 1..Len(tq) : tq[i] = q[i + 1]
      BY <3>1
    <3> HIDE DEF tq, tw
    <3>3. /\ v \in Seq(S) /\ Len(v) = Len(q) /\ v[Len(q)] = "open"
          /\ \A i \in 1..Len(tq) : v[i] = tq[i]
      BY <1>1, <2>1, <3>1, AppendProperties DEF tq
    <3> HIDE DEF v
    <3>4. ASSUME NEW i \in 1..Len(q)
          PROVE  tw[i] = v[i]
      <4>1. tw[i] = w[i + 1]
        BY <3>2 DEF tw
      <4>2. CASE i = Len(q)
        BY <1>2, <3>3, <4>1, <4>2
      <4>3. CASE i # Len(q)
        <5>1. i \in 1..Len(tq) /\ i + 1 \in 1..Len(q) /\ tq[i] = q[i + 1]
          BY <1>1, <3>0, <4>3
        <5>2. QED BY <1>2, <3>3, <4>1, <5>1
      <4>4. QED BY <4>2, <4>3
    <3>5. tw = v
      BY <3>2, <3>3, <3>4, SeqEqual DEF tw
    <3>6. QED BY <3>5 DEF tw, v, tq
  <2>4. QED BY <1>2, <1>3, <1>5, <2>1, <2>2, <2>3
<1>6. QED BY <1>4, <1>5

LEMMA BackGrows ==
  ASSUME NEW q \in Backs
  PROVE  q \o <<"tune_stop", "close">> \in Backs
BY ConcatProperties DEF Backs

LEMMA TailOnce ==
  ASSUME NEW S, NEW q \in Seq(S), q # <<>>, NEW M, AtMostOnce(q, M)
  PROVE  AtMostOnce(Tail(q), M)
<1>1. Len(q) \in Nat /\ Len(Tail(q)) = Len(q) - 1
      /\ \A i \in 1..Len(Tail(q)) : Tail(q)[i] = q[i + 1]
  BY HeadTailProperties
<1>2. \A i \in 1..Len(Tail(q)) : i + 1 \in 1..Len(q)
  BY <1>1
<1>3. ASSUME NEW i \in 1..Len(Tail(q)), NEW j \in 1..Len(Tail(q)),
             Tail(q)[i] \in M, Tail(q)[j] \in M
      PROVE  i = j
  <2>1. i + 1 \in 1..Len(q) /\ j + 1 \in 1..Len(q) /\ q[i + 1] \in M /\ q[j + 1] \in M
    BY <1>1, <1>2, <1>3
  <2>2. i + 1 = j + 1
    BY <2>1 DEF AtMostOnce
  <2>3. QED BY <1>1, <2>2
<1>4. QED BY <1>3 DEF AtMostOnce

LEMMA PairOnce ==
  /\ <<>> \o <<"tune_stop", "close">> = <<"tune_stop", "close">>
  /\ <<"tune_stop", "close">> # <<>> /\ Head(<<"tune_stop", "close">>) = "tune_stop"
  /\ AtMostOnce(<<"tune_stop", "close">>, {"close"})
  /\ AtMostOnce(<<>>, {"close"})
BY DEF AtMostOnce

-----------------------------------------------------------------------------
(* The mail of the module: what a step does to the events of a kind M.      *)
Kept(M) ==
  /\ InTransit' \cap M = InTransit \cap M
  /\ AtMostOnce(flight, M) => AtMostOnce(flight', M)

LEMMA Quiet ==
  ASSUME flight' = flight, NEW M
  PROVE  Kept(M)
BY DEF Kept, InTransit

LEMMA Posted ==
  ASSUME QueuesIn(Sent), NEW n \in Sent, Post(<<n>>), UNCHANGED <<batch, deferred>>
  PROVE  /\ QueuesIn(Sent)'
         /\ \A M : n \notin M => Kept(M)
         /\ \A M : n \in M /\ InTransit \cap M = {} /\ AtMostOnce(flight, M)
                     => InTransit' \cap M = {n} /\ AtMostOnce(flight', M)
<1>1. QueuesIn(Sent)' /\ TransitWith({n}) /\ Stays({}, {n})
  BY PostTransits, PostStays
<1>2. QED BY <1>1 DEF Kept, TransitWith, Stays

LEMMA NothingPosted ==
  ASSUME QueuesIn(Sent), Post(<<>>), UNCHANGED <<batch, deferred>>
  PROVE  QueuesIn(Sent)' /\ \A M : Kept(M)
<1>1. inbox' = inbox
  BY ConcatEmptySeq DEF Post, QueuesIn
<1>2. flight' = flight /\ QueuesIn(Sent)'
  BY <1>1 DEF flight, QueuesIn
<1>3. QED BY <1>2, Quiet

LEMMA Taken ==
  ASSUME QueuesIn(Sent), NEW e, NEW o, Take(e, o), inbox' = inbox
  PROVE  /\ QueuesIn(Sent)' /\ e \in Sent /\ e \in InTransit /\ due' = {}
         /\ \A M : e \notin M => Kept(M)
         /\ \A M : e \in M /\ AtMostOnce(flight, M)
                     => InTransit' \cap M = {} /\ AtMostOnce(flight', M)
<1>1. QueuesIn(Sent)' /\ e \in Sent /\ due' = {} /\ TransitAfter(e, {}) /\ Stays({e}, {})
  BY TakeTransits, TakeStays
<1>2. e \in InTransit /\ InTransit' \subseteq InTransit /\ InTransit \ {e} \subseteq InTransit'
  BY <1>1 DEF TransitAfter, Stays
<1>3. ASSUME NEW M, e \notin M
      PROVE  Kept(M)
  BY <1>1, <1>2, <1>3 DEF TransitAfter, Kept
<1>4. ASSUME NEW M, e \in M, AtMostOnce(flight, M)
      PROVE  InTransit' \cap M = {} /\ AtMostOnce(flight', M)
  BY <1>1, <1>4 DEF TransitAfter
<1>5. QED BY <1>1, <1>2, <1>3, <1>4

-----------------------------------------------------------------------------
(* A part of the invariant that a step does not touch.                      *)
LEMMA WaitsFrame ==
  ASSUME Waits, Kept(Answers), UNCHANGED <<start, peer>>
  PROVE  Waits'
BY DEF Waits, Kept, Answered

LEMMA QueueFrame ==
  ASSUME Queue, Kept(Answers), UNCHANGED <<start, svcq>>
  PROVE  Queue'
<1>1. Answered' <=> Answered
  BY DEF Kept, Answered
<1>2. QED BY <1>1 DEF Queue, Tuned

LEMMA HoldingFrame ==
  ASSUME Holding, Kept(Answers), UNCHANGED <<start, svcq, tuner, tuned, used, child>>
  PROVE  Holding'
<1>1. (Answered' <=> Answered) /\ (Reply(TRUE) \in InTransit' <=> Reply(TRUE) \in InTransit)
  BY DEF Kept, Answered, Answers
<1>2. QED BY <1>1 DEF Holding, Tuned, Opened

LEMMA HandlingFrame ==
  ASSUME Handling, UNCHANGED <<h, used>>
  PROVE  Handling'
BY DEF Handling, Inside, At

LEMMA SoundFrame ==
  ASSUME Sound, Kept({EndNotice}), UNCHANGED <<h, used, progress, svcq, tuner, tuned>>
  PROVE  Sound'
<1>1. (Announced' <=> Announced) /\ (AtMostOnce(flight, {EndNotice}) => AtMostOnce(flight', {EndNotice}))
  BY DEF Kept, Announced
<1>2. QED BY <1>1 DEF Sound, Alone, Announcing, GoneBack, At, Ending, Ended, Writing, Inside

(* A step that touches only the mail, and none of the kinds that matter.    *)
LEMMA MailFrame ==
  ASSUME IInv, QueuesIn(Sent)', StateType', Kept(Answers), Kept({EndNotice}),
         UNCHANGED <<locked_by, start, peer, svcq, tuner, tuned, used, child, h, progress, races>>
  PROVE  IInv'
<1>1. Lock'
  BY DEF IInv, Base, Lock
<1>2. Waits' /\ Queue' /\ Holding' /\ Handling'
  BY WaitsFrame, QueueFrame, HoldingFrame, HandlingFrame DEF IInv, Base
<1>3. races' = {} => Sound'
  BY SoundFrame DEF IInv
<1>4. QED BY <1>1, <1>2, <1>3 DEF IInv, Base

LEMMA Idle == ASSUME IInv, UNCHANGED vars PROVE IInv'
<1>1. flight' = flight /\ QueuesIn(Sent)'
  BY DEF vars, flight, QueuesIn, IInv, Base
<1>2. StateType'
  BY DEF IInv, Base, StateType, vars, viewing, fibers, people, handler, service
<1>3. QED BY <1>1, <1>2, Quiet, MailFrame DEF vars, viewing, fibers, people, handler, service

LEMMA AskKeeps == ASSUME IInv, NEW u \in Users, NEW s \in {"start", "stop", "set_option"}, Ask(u, s) PROVE IInv'
<1> DEFINE n == Request(s, u)
<1>1. n \in Sent /\ n \notin Answers /\ n # EndNotice
  BY DEF Sent, Answers, EndNotice, Request, Reply
<1>2. Post(<<n>>) /\ UNCHANGED <<batch, deferred>> /\ QueuesIn(Sent)
  BY DEF Ask, IInv, Base
<1> HIDE DEF n
<1>3. QueuesIn(Sent)' /\ Kept(Answers) /\ Kept({EndNotice})
  BY <1>1, <1>2, Posted
<1>4. StateType'
  BY ViewingAssumption DEF IInv, Base, StateType, Ask, viewing, fibers, handler, service
<1>5. QED BY <1>3, <1>4, MailFrame DEF Ask, viewing, fibers, handler, service

LEMMA TurnStep == ASSUME IInv, NEW expired \in SUBSET HasTimer, Turn(expired) PROVE IInv'
<1>1. flight' = flight /\ QueuesIn(Sent)'
  BY TurnKeeps DEF Turn, IInv, Base
<1>2. StateType'
  BY DEF IInv, Base, StateType, Turn, BeginTurn, HasTimer, viewing, fibers, people, handler, service
<1>3. QED BY <1>1, <1>2, Quiet, MailFrame DEF Turn, BeginTurn, viewing, fibers, people, handler, service

LEMMA SkipStep == ASSUME IInv, NEW f \in HasTimer, TimerSkipped(f) PROVE IInv'
<1>1. flight' = flight /\ QueuesIn(Sent)'
  BY DEF TimerSkipped, SkipTimer, flight, QueuesIn, IInv, Base
<1>2. StateType'
  BY DEF IInv, Base, StateType, TimerSkipped, SkipTimer, viewing, fibers, people, handler, service
<1>3. QED BY <1>1, <1>2, Quiet, MailFrame DEF TimerSkipped, SkipTimer, viewing, fibers, people, handler, service

LEMMA DeferStep == ASSUME IInv, NEW e, DeferEvent(e) PROVE IInv'
<1>1. flight' = flight /\ QueuesIn(Sent)'
  BY DeferKeeps DEF DeferEvent, IInv, Base
<1>2. StateType'
  BY DEF IInv, Base, StateType, DeferEvent, Defer, viewing, fibers, people, handler, service
<1>3. QED BY <1>1, <1>2, Quiet, MailFrame DEF DeferEvent, Defer, viewing, fibers, people, handler, service

LEMMA PatLostKeeps == ASSUME IInv, PatLost PROVE IInv'
<1>1. PatNotice \in Sent /\ PatNotice \notin Answers /\ PatNotice \notin {EndNotice}
  BY DEF Sent, Answers, EndNotice, PatNotice, Request, Reply
<1>2. QueuesIn(Sent)' /\ Kept(Answers) /\ Kept({EndNotice})
  BY <1>1, Posted DEF PatLost, IInv, Base
<1>3. StateType'
  BY DEF IInv, Base, StateType, PatLost, viewing, fibers, people, handler
<1>4. QED BY <1>2, <1>3, MailFrame DEF PatLost, viewing, fibers, people, handler

LEMMA StreamDriesKeeps == ASSUME IInv, StreamDries PROVE IInv'
<1>1. flight' = flight /\ QueuesIn(Sent)'
  BY DEF StreamDries, flight, QueuesIn, IInv, Base
<1>2. StateType'
  BY DEF IInv, Base, StateType, StreamDries, viewing, fibers, people, handler
<1>3. QED BY <1>1, <1>2, Quiet, MailFrame DEF StreamDries, viewing, fibers, people, handler

LEMMA ChildDiesKeeps == ASSUME IInv, ChildDies PROVE IInv'
<1>1. flight' = flight /\ QueuesIn(Sent)'
  BY DEF ChildDies, flight, QueuesIn, IInv, Base
<1>2. StateType' /\ Lock'
  BY DEF IInv, Base, StateType, Lock, ChildDies, fibers, people, handler, service
<1>3. Waits' /\ Queue' /\ Handling'
  BY <1>1, Quiet, WaitsFrame, QueueFrame, HandlingFrame
  DEF IInv, Base, ChildDies, fibers, people, handler, service
<1>4. Holding'
  <2>1. child # "none" => used
    BY DEF IInv, Base, Holding
  <2>2. (Answered' <=> Answered) /\ InTransit' = InTransit
    BY <1>1 DEF Answered, InTransit
  <2>3. QED BY <2>1, <2>2 DEF IInv, Base, Holding, Tuned, Opened, ChildDies, fibers, people, handler, service
<1>5. races' = {} => Sound'
  BY <1>1, Quiet, SoundFrame DEF IInv, ChildDies, fibers, people, handler, service
<1>6. QED BY <1>1, <1>2, <1>3, <1>4, <1>5 DEF IInv, Base

-----------------------------------------------------------------------------
(* The handler.  A thread that enters finds nobody in it, or it is a race.  *)
LEMMA Entered ==
  ASSUME IInv, NEW t \in Threads, h[t].pc \in {"out", "call"}, Enter(t), races' = {}, Sound,
         flight' = flight, UNCHANGED <<progress, used, svcq, tuner, tuned>>,
         Inside("viewing") => used, t = "viewing" => used
  PROVE  Sound'
<1>1. /\ \A o \in Threads : progress # "init" => ~At(o)
      /\ races = {}
  BY DEF Enter, At, Threads, IInv, Base, StateType
<1>2. h \in [Threads -> [pc : {"out", "call", "work", "noticed"}, case : Progress]]
  BY DEF IInv, Base, StateType
<1>3. \A o \in Threads : h'[o] = IF o = t THEN (IF progress = "init" THEN Outside ELSE [pc |-> "work", case |-> progress]) ELSE h[o]
  BY <1>2 DEF Enter
<1>4. Announced' <=> Announced
  BY DEF Announced, InTransit
<1>5. CASE progress = "init"
  <2>1. \A o \in Threads : ~At(o) /\ ~At(o)' /\ ~Ended(o)' /\ ~Ending(o)'
    BY <1>3, <1>5 DEF Sound, Alone, At, Ended, Ending, Outside
  <2>2. Alone' /\ Announcing'
    BY <1>4, <1>5, <2>1 DEF Sound, Alone, Announcing, Threads
  <2>3. ~used /\ Inside("tune")' => Inside("tune")
    BY <1>3, <1>5 DEF Inside, Outside, Threads
  <2>4. QED BY <1>5, <2>2, <2>3 DEF Sound, GoneBack
<1>6. CASE progress # "init"
  <2>1. used
    BY <1>1, <1>6 DEF Sound, GoneBack, At, Ended, Threads
  <2>2. ~Announced
    BY <1>1, <1>6 DEF Sound, Announcing, At, Ended
  <2>3. \A o \in Threads : At(o)' => o = t /\ h'[o].pc = "work" /\ h'[o].case = progress
    BY <1>1, <1>3, <1>6 DEF At
  <2>4. Alone'
    BY <1>6, <2>3 DEF Alone, At, Threads
  <2>5. Announcing' /\ GoneBack'
    BY <1>4, <2>1, <2>2 DEF Sound, Announcing, GoneBack
  <2>6. QED BY <2>4, <2>5 DEF Sound
<1>7. QED BY <1>5, <1>6

LEMMA DataKeeps == ASSUME IInv, DataArrives PROVE IInv'
<1>1. flight' = flight /\ QueuesIn(Sent)'
  BY DEF DataArrives, flight, QueuesIn, IInv, Base
<1>2. h["tune"].pc = "out" /\ progress # "init" /\ Enter("tune") /\ "tune" \in Threads
  BY DEF DataArrives, Inside, Threads
<1>3. UNCHANGED <<inbox, batch, due, deferred, locked_by, viewing, fibers, people, progress, service>>
  BY DEF DataArrives
<1>4. StateType' /\ Lock'
  BY <1>2, <1>3 DEF IInv, Base, StateType, Lock, Enter, viewing, fibers, people, service, Progress, Outside
<1>5. Waits' /\ Queue' /\ Holding'
  BY <1>1, <1>3, Quiet, WaitsFrame, QueueFrame, HoldingFrame DEF IInv, Base, viewing, fibers, service
<1>6. Handling'
  BY <1>2, <1>3 DEF IInv, Base, StateType, Handling, Enter, Inside, At, viewing, Threads
<1>7. races' = {} => Sound'
  BY <1>1, <1>2, <1>3, Entered DEF IInv, Base, Handling, viewing, service, Enter
<1>8. QED BY <1>1, <1>4, <1>5, <1>6, <1>7 DEF IInv, Base

LEMMA CallKeeps == ASSUME IInv, CallHandler PROVE IInv'
<1>1. flight' = flight /\ QueuesIn(Sent)'
  BY DEF CallHandler, flight, QueuesIn, IInv, Base
<1>2. h["viewing"].pc = "call" /\ Enter("viewing") /\ "viewing" \in Threads
  BY DEF CallHandler, Threads
<1>3. UNCHANGED <<inbox, batch, due, deferred, locked_by, viewing, fibers, people, progress, service>>
  BY DEF CallHandler
<1>4. StateType' /\ Lock'
  BY <1>2, <1>3 DEF IInv, Base, StateType, Lock, Enter, viewing, fibers, people, service, Progress, Outside
<1>5. Waits' /\ Queue' /\ Holding'
  BY <1>1, <1>3, Quiet, WaitsFrame, QueueFrame, HoldingFrame DEF IInv, Base, viewing, fibers, service
<1>0. used
  BY <1>2 DEF IInv, Base, Handling, Inside
<1>6. Handling'
  BY <1>0, <1>2, <1>3 DEF IInv, Base, StateType, Handling, Enter, Inside, At, viewing, Threads, Outside
<1>7. races' = {} => Sound'
  BY <1>0, <1>1, <1>2, <1>3, Entered DEF IInv, viewing, service, Enter
<1>8. QED BY <1>1, <1>4, <1>5, <1>6, <1>7 DEF IInv, Base

LEMMA NotifyKeeps == ASSUME IInv, NEW t \in Threads, Notify(t) PROVE IInv'
<1>1. /\ h[t].pc = "work" /\ h[t].case # "processing"
      /\ h' = [h EXCEPT ![t].pc = "noticed"]
      /\ Post(IF progress \in Ends THEN <<EndNotice>> ELSE <<>>)
      /\ UNCHANGED <<batch, due, deferred, locked_by, viewing, fibers, people, progress, races, service>>
  BY DEF Notify
<1>2. EndNotice \in Sent /\ EndNotice \notin Answers
  BY DEF Sent, EndNotice, Answers, Request, Reply
<1>3. QueuesIn(Sent)' /\ Kept(Answers)
  BY <1>1, <1>2, Posted, NothingPosted DEF IInv, Base
<1>4. StateType' /\ Lock'
  BY <1>1 DEF IInv, Base, StateType, Lock, viewing, fibers, people, service
<1>5. Waits' /\ Queue' /\ Holding'
  BY <1>1, <1>3, WaitsFrame, QueueFrame, HoldingFrame DEF IInv, Base, viewing, fibers, service
<1>h. \A o \in Threads : h'[o] = IF o = t THEN [pc |-> "noticed", case |-> h[t].case] ELSE h[o]
  BY <1>1 DEF IInv, Base, StateType
<1>6. Handling'
  BY <1>1, <1>h DEF IInv, Base, Handling, Inside, At, viewing, Threads
<1>7. ASSUME races' = {} PROVE Sound'
  <2>1. Sound /\ At(t) /\ h[t].case = progress /\ progress # "init"
    BY <1>1, <1>7 DEF IInv, Sound, Alone, At, Ended, Writing
  <2>2. \A o \in Threads : o # t => ~At(o) /\ ~At(o)'
    BY <1>h, <2>1 DEF Sound, Alone, At, Threads
  <2>3. UNCHANGED <<used, progress, svcq, tuner, tuned>>
    BY <1>1 DEF viewing, service
  <2>4. used
    <3>1. t = "viewing" => used
      BY <1>1 DEF IInv, Base, Handling, Inside
    <3>2. t = "tune" => ~Ended("tune")
      BY <1>1 DEF Ended
    <3>3. QED BY <2>1, <3>1, <3>2 DEF Sound, GoneBack, Threads
  <2>5. At(t)' /\ ~Ending(t)' /\ (Ended(t)' <=> progress \in Ends) /\ ~Writing(t)' /\ h'[t].case = progress
    BY <1>h, <2>1 DEF At, Ending, Ended, Writing
  <2>6. Alone'
    BY <2>1, <2>2, <2>3, <2>5 DEF Alone, Threads
  <2>7. \A o \in Threads : ~Ending(o)'
    BY <2>2, <2>5 DEF At, Ending
  <2>8. ~Announced
    <3>1. \A o \in Threads : ~Ended(o)
      BY <1>1, <2>2 DEF Ended, At
    <3>2. QED BY <2>1, <3>1 DEF Sound, Announcing
  <2>9. AtMostOnce(flight', {EndNotice}) /\ (Announced' => progress \in Ends)
    <3>1. CASE progress \in Ends
      <4>1. InTransit \cap {EndNotice} = {} /\ AtMostOnce(flight, {EndNotice})
        BY <2>1, <2>8 DEF Announced, Sound, Announcing
      <4>2. QED BY <1>1, <1>2, <3>1, <4>1, Posted DEF IInv, Base
    <3>2. CASE progress \notin Ends
      <4>1. Kept({EndNotice})
        BY <1>1, <3>2, NothingPosted DEF IInv, Base
      <4>2. QED BY <2>1, <2>8, <4>1 DEF Kept, Announced, Sound, Announcing
    <3>3. QED BY <3>1, <3>2
  <2>10. Announcing' /\ GoneBack'
    BY <2>1, <2>3, <2>4, <2>5, <2>7, <2>9 DEF Announcing, GoneBack, Sound
  <2>11. QED BY <2>6, <2>10 DEF Sound
<1>8. QED BY <1>3, <1>4, <1>5, <1>6, <1>7 DEF IInv, Base

LEMMA LeaveKeeps == ASSUME IInv, NEW t \in Threads, Leave(t) PROVE IInv'
<1>1. /\ \/ h[t].pc = "noticed" /\ progress' = AfterCase(h[t].case)
         \/ h[t].pc = "work" /\ h[t].case = "processing" /\ UNCHANGED progress
      /\ h' = [h EXCEPT ![t] = Outside]
      /\ UNCHANGED <<inbox, batch, due, deferred, locked_by, viewing, fibers, people, races, service>>
  BY DEF Leave
<1>2. flight' = flight /\ QueuesIn(Sent)'
  BY <1>1 DEF flight, QueuesIn, IInv, Base
<1>t. h[t].pc = "noticed" => /\ h[t].case \in Ends \cup {"pre_process", "process_end_success"}
                             /\ AfterCase(h[t].case) \in Progress
                             /\ h[t].case \in Ends => AfterCase(h[t].case) = "init"
  <2>1. ASSUME h[t].pc = "noticed"
        PROVE  h[t].case \in Ends \cup {"pre_process", "process_end_success"}
    BY <2>1 DEF IInv, Base, StateType, Handling, At, Progress, Ends
  <2>2. QED BY <2>1 DEF AfterCase, Progress, Ends
<1>3. StateType' /\ Lock'
  BY <1>1, <1>t DEF IInv, Base, StateType, Lock, viewing, fibers, people, service, Outside, Progress
<1>4. Waits' /\ Queue' /\ Holding'
  BY <1>1, <1>2, Quiet, WaitsFrame, QueueFrame, HoldingFrame DEF IInv, Base, viewing, fibers, service
<1>h. \A o \in Threads : h'[o] = IF o = t THEN Outside ELSE h[o]
  BY <1>1 DEF IInv, Base, StateType
<1>5. Handling'
  BY <1>1, <1>h DEF IInv, Base, Handling, Inside, At, viewing, Threads, Outside
<1>6. ASSUME races' = {} PROVE Sound'
  <2>1. Sound /\ At(t) /\ progress # "init"
    BY <1>1, <1>6 DEF IInv, Sound, Alone, At
  <2>2. \A o \in Threads : ~At(o)' /\ ~Ending(o)'
    BY <1>h, <2>1 DEF Sound, Alone, At, Ending, Threads, Outside
  <2>3. UNCHANGED <<used, svcq, tuner, tuned>>
    BY <1>1 DEF viewing, service
  <2>4. Announced' <=> Announced
    BY <1>2 DEF Announced, InTransit
  <2>5. \A o \in Threads : Ended(o) => o = t
    BY <2>1 DEF Sound, Alone, At, Ended, Threads
  <2>6. Ended(t) => progress' = "init"
    BY <1>1, <1>t DEF Ended
  <2>7. ~used => t = "tune"
    BY <2>1 DEF IInv, Base, Handling, Inside, At, Threads
  <2>8. Alone'
    BY <2>2 DEF Alone, Threads
  <2>9. Announcing'
    BY <1>2, <2>1, <2>2, <2>3, <2>4, <2>5, <2>6 DEF Sound, Announcing
  <2>10. ~used => progress' = "init"
    BY <2>1, <2>5, <2>6 DEF Sound, GoneBack, Threads
  <2>11. ~used => ~Inside("tune")'
    BY <1>h, <2>7 DEF Inside, Outside
  <2>12. QED BY <2>1, <2>3, <2>8, <2>9, <2>10, <2>11 DEF Sound, GoneBack
<1>7. QED BY <1>2, <1>3, <1>4, <1>5, <1>6 DEF IInv, Base

-----------------------------------------------------------------------------
(* The requests.  set_next_progress that does not race comes while the tune *)
(* thread writes data, or has announced the end.                            *)
LEMMA SetKeepsSound ==
  ASSUME IInv, used, NEW p \in Progress \ {"init"}, Set(p), races' = {}, ~Inside("viewing"),
         UNCHANGED <<used, svcq, tuner, tuned>>, Kept({EndNotice}),
         h'["tune"] = h["tune"], h'["viewing"].pc \in {"out", "call"}
  PROVE  Sound'
<1>1. /\ progress' = p /\ progress # "init" /\ races = {}
      /\ ~(h["tune"].pc = "work" /\ h["tune"].case # "processing")
      /\ ~(h["tune"].pc = "noticed" /\ h["tune"].case \notin Ends)
  BY DEF Set
<1>2. Sound
  BY <1>1 DEF IInv
<1>3. ~At("viewing")' /\ ~Ended("viewing")' /\ ~Ending("viewing")' /\ ~Ended("viewing")
  BY DEF At, Ended, Ending, Inside
<1>4. /\ At("tune")' => Ended("tune")' \/ Writing("tune")'
      /\ (Ended("tune")' <=> Ended("tune")) /\ ~Ending("tune")'
  BY <1>1 DEF At, Ended, Ending, Writing, Ends
<1>5. (Announced' <=> Announced) /\ (AtMostOnce(flight, {EndNotice}) => AtMostOnce(flight', {EndNotice}))
  BY DEF Kept, Announced
<1>6. Alone'
  BY <1>1, <1>3, <1>4 DEF Alone, Threads
<1>7. Announcing'
  BY <1>1, <1>2, <1>3, <1>4, <1>5 DEF Sound, Announcing, Threads
<1>8. GoneBack'
  BY <1>2 DEF Sound, GoneBack
<1>9. QED BY <1>6, <1>7, <1>8 DEF Sound

LEMMA StartsUnlocked ==
  ASSUME IInv, NEW e, NEW s, Starts(e, s)
  PROVE  e.type = "START" /\ e.seq = s /\ locked_by = NoFiber /\ start.pc = "none" /\ Take(e, NoFiber)
<1>1. Take(e, NoFiber) /\ e.type = "START" /\ e.seq = s
  BY DEF Starts
<1>2. locked_by = NoFiber
  BY <1>1 DEF Take, Deferrable
<1>3. QED BY <1>1, <1>2 DEF IInv, Base, Lock, NoFiber

LEMMA StartEvent ==
  ASSUME NEW e \in Sent, e.type = "START"
  PROVE  /\ e \notin Answers /\ e.u \in Users \cup {"nobody"}
         /\ e.seq = "notice" <=> e = EndNotice
<1>1. \/ e \in [type : {"START"}, seq : {"start", "stop", "set_option"}, u : Users \cup {"nobody"}]
      \/ e = EndNotice
  BY DEF Sent, Answers, PatNotice, Reply
<1>2. e \notin Answers
  BY DEF Answers, Reply
<1>3. EndNotice.seq = "notice" /\ EndNotice.u = "nobody"
  BY DEF EndNotice, Request
<1>4. QED BY <1>1, <1>2, <1>3

LEMMA ReplyEvent ==
  ASSUME NEW e \in Sent, e.type = "REPLY"
  PROVE  /\ e \in Answers /\ e # EndNotice /\ e.ok \in BOOLEAN /\ e = Reply(e.ok)
<1>0. EndNotice.type = "START" /\ PatNotice.type = "NOTIFY"
  BY DEF EndNotice, Request, PatNotice
<1>1. e = Reply(TRUE) \/ e = Reply(FALSE)
  BY <1>0 DEF Sent, Answers
<1>2. Reply(TRUE).ok = TRUE /\ Reply(FALSE).ok = FALSE
  BY DEF Reply
<1>3. e # EndNotice
  BY <1>0
<1>4. QED BY <1>1, <1>2, <1>3 DEF Answers

LEMMA NotifyEvent ==
  ASSUME NEW e \in Sent, e.type = "NOTIFY"
  PROVE  /\ e \notin Answers /\ e # EndNotice
BY DEF Sent, Answers, EndNotice, Request, PatNotice, Reply

LEMMA AnswerTyped ==
  ASSUME IInv, NEW u, Answer(u)
  PROVE  user' \in [Users -> {"none", "start", "stop", "set_option"}] /\ asked' = asked
BY DEF Answer, IInv, Base, StateType

LEMMA OnStartKeeps == ASSUME IInv, NEW e, OnStart(e) PROVE IInv'
<1>1. e.type = "START" /\ e.seq = "start" /\ locked_by = NoFiber /\ start.pc = "none" /\ Take(e, NoFiber)
  BY StartsUnlocked DEF OnStart
<1>2. /\ locked_by' = "start" /\ start' = [pc |-> "channel", u |-> e.u, tries |-> 0] /\ peer' = "channel"
      /\ UNCHANGED <<inbox, viewing, people, handler, service>>
  BY DEF OnStart, LockFor
<1>3. QueuesIn(Sent)' /\ e \in Sent /\ due' = {}
  BY <1>1, <1>2, Taken DEF IInv, Base
<1>4. e \notin Answers /\ e.u \in Users \cup {"nobody"} /\ e # EndNotice
  BY <1>1, <1>3, StartEvent
<1>5. Kept(Answers) /\ Kept({EndNotice})
  BY <1>1, <1>2, <1>4, Taken DEF IInv, Base
<1>6. StateType' /\ Lock'
  BY <1>2, <1>3, <1>4, ViewingAssumption
  DEF IInv, Base, StateType, Lock, viewing, people, handler, service, NoFiber, StartPcs
<1>7. ~Answered /\ ~Answered' /\ AtMostOnce(flight', Answers) /\ Reply(TRUE) \notin InTransit'
  BY <1>1, <1>5 DEF IInv, Base, Waits, Answered, Kept, Answers
<1>8. Waits' /\ Queue'
  BY <1>1, <1>2, <1>7 DEF IInv, Base, Waits, Queue, Tuned, service
<1>9. Holding' /\ Handling'
  BY <1>1, <1>2, <1>7 DEF IInv, Base, Holding, Handling, Opened, Tuned, viewing, handler, service, Inside, At
<1>10. races' = {} => Sound'
  BY <1>2, <1>5, SoundFrame DEF IInv, viewing, handler, service
<1>11. QED BY <1>3, <1>6, <1>8, <1>9, <1>10 DEF IInv, Base

LEMMA OnStopKeeps == ASSUME IInv, ~Inside("viewing"), NEW e, OnStop(e) PROVE IInv'
<1>1. e.type = "START" /\ e.seq = "stop" /\ Take(e, NoFiber)
  BY StartsUnlocked DEF OnStop
<1>2. /\ IF used THEN Set("process_end_success") ELSE UNCHANGED <<progress, races>>
      /\ Answer(e.u)
      /\ UNCHANGED <<inbox, locked_by, viewing, fibers, h, service>>
  BY DEF OnStop
<1>3. QueuesIn(Sent)' /\ e \in Sent /\ due' = {}
  BY <1>1, <1>2, Taken DEF IInv, Base
<1>4. e \notin Answers /\ e # EndNotice
  BY <1>1, <1>3, StartEvent
<1>5. Kept(Answers) /\ Kept({EndNotice})
  BY <1>1, <1>2, <1>4, Taken DEF IInv, Base
<1>6. progress' \in Progress /\ races' \subseteq {"torn", "late", "both", "early"}
  BY <1>2 DEF Set, IInv, Base, StateType, Progress
<1>7. StateType' /\ Lock'
  BY <1>2, <1>3, <1>6, AnswerTyped DEF IInv, Base, StateType, Lock, viewing, fibers, service
<1>8. Waits' /\ Queue' /\ Holding' /\ Handling'
  BY <1>2, <1>5, WaitsFrame, QueueFrame, HoldingFrame, HandlingFrame DEF IInv, Base, viewing, fibers, service
<1>9. ASSUME races' = {} PROVE Sound'
  <2>1. CASE used
    <3>1. "process_end_success" \in Progress \ {"init"}
      BY DEF Progress, Ends
    <3>2. QED BY <1>2, <1>5, <1>9, <2>1, <3>1, SetKeepsSound DEF viewing, service, Inside
  <2>2. CASE ~used
    BY <1>2, <1>5, <1>9, <2>2, SoundFrame DEF IInv, viewing, service
  <2>3. QED BY <2>1, <2>2
<1>10. QED BY <1>3, <1>7, <1>8, <1>9 DEF IInv, Base

LEMMA OnSetOptionKeeps == ASSUME IInv, NEW e, OnSetOption(e) PROVE IInv'
<1>1. e.type = "START" /\ e.seq = "set_option" /\ Take(e, NoFiber)
  BY StartsUnlocked DEF OnSetOption
<1>2. /\ auto' = (auto \/ used) /\ Answer(e.u)
      /\ UNCHANGED <<inbox, locked_by, used, child, fibers, handler, service>>
  BY DEF OnSetOption
<1>3. QueuesIn(Sent)' /\ e \in Sent /\ due' = {}
  BY <1>1, <1>2, Taken DEF IInv, Base
<1>4. e \notin Answers /\ e # EndNotice
  BY <1>1, <1>3, StartEvent
<1>5. Kept(Answers) /\ Kept({EndNotice})
  BY <1>1, <1>2, <1>4, Taken DEF IInv, Base
<1>6. auto' \in BOOLEAN
  BY <1>2 DEF IInv, Base, StateType
<1>7. StateType'
  BY <1>2, <1>3, <1>6, AnswerTyped DEF IInv, Base, StateType, fibers, handler, service
<1>8. QED BY <1>2, <1>3, <1>5, <1>7, MailFrame DEF fibers, handler, service

LEMMA OnPatLostKeeps == ASSUME IInv, ~Inside("viewing"), NEW e, OnPatLost(e) PROVE IInv'
<1>1. Take(e, NoFiber) /\ e.type = "NOTIFY"
  BY DEF OnPatLost
<1>2. /\ IF used
         THEN Set("post_process_forcibly") /\ h' = [h EXCEPT !["viewing"].pc = "call"]
         ELSE /\ races' = races \cup (IF Opened THEN {"early"} ELSE {})
              /\ UNCHANGED <<progress, h>>
      /\ UNCHANGED <<inbox, locked_by, viewing, fibers, people, service>>
  BY DEF OnPatLost
<1>3. QueuesIn(Sent)' /\ e \in Sent /\ due' = {}
  BY <1>1, <1>2, Taken DEF IInv, Base
<1>4. e \notin Answers /\ e # EndNotice
  BY <1>1, <1>3, NotifyEvent
<1>5. Kept(Answers) /\ Kept({EndNotice})
  BY <1>1, <1>2, <1>4, Taken DEF IInv, Base
<1>6. progress' \in Progress /\ races' \subseteq {"torn", "late", "both", "early"}
  BY <1>2 DEF Set, IInv, Base, StateType, Progress, Ends
<1>h. /\ h' \in [Threads -> [pc : {"out", "call", "work", "noticed"}, case : Progress]]
      /\ used => h'["tune"] = h["tune"] /\ h'["viewing"] = [pc |-> "call", case |-> h["viewing"].case]
      /\ ~used => h' = h
  BY <1>2 DEF IInv, Base, StateType, Threads
<1>7. StateType' /\ Lock'
  BY <1>2, <1>3, <1>6, <1>h DEF IInv, Base, StateType, Lock, viewing, fibers, people, service
<1>8. Waits' /\ Queue' /\ Holding'
  BY <1>2, <1>5, WaitsFrame, QueueFrame, HoldingFrame DEF IInv, Base, viewing, fibers, service
<1>9. Handling'
  <2>1. Handling /\ used' = used
    BY <1>2 DEF IInv, Base, viewing
  <2>2. CASE used
    BY <1>h, <2>1, <2>2 DEF Handling, Inside, At, Threads
  <2>3. CASE ~used
    BY <1>h, <2>1, <2>3 DEF Handling, Inside, At
  <2>4. QED BY <2>2, <2>3
<1>10. ASSUME races' = {} PROVE Sound'
  <2>1. CASE used
    <3>1. "post_process_forcibly" \in Progress \ {"init"}
      BY DEF Progress, Ends
    <3>2. UNCHANGED <<used, svcq, tuner, tuned>>
      BY <1>2 DEF viewing, service
    <3>3. h'["tune"] = h["tune"] /\ h'["viewing"].pc \in {"out", "call"}
      BY <1>h, <2>1
    <3>4. Set("post_process_forcibly")
      BY <1>2, <2>1
    <3>5. QED BY <1>5, <1>10, <2>1, <3>1, <3>2, <3>3, <3>4, SetKeepsSound
  <2>2. CASE ~used
    BY <1>2, <1>5, <1>10, <2>2, SoundFrame DEF IInv, viewing, service
  <2>3. QED BY <2>1, <2>2
<1>11. QED BY <1>3, <1>7, <1>8, <1>9, <1>10 DEF IInv, Base

LEMMA CheckLoopKeeps == ASSUME IInv, ~Inside("viewing"), CheckLoop PROVE IInv'
<1>1. PICK past \in {FALSE, used /\ auto /\ ~InFlight(AutoStop)} :
        Post(IF past THEN <<AutoStop>> ELSE <<>>)
  BY DEF CheckLoop
<1>2. /\ IF child = "dead"
         THEN child' = "none" /\ Set("post_process_forcibly")
         ELSE UNCHANGED <<child, progress, races>>
      /\ due' = due \ {"loop"} /\ UNCHANGED <<batch, deferred>>
      /\ UNCHANGED <<locked_by, used, auto, fibers, people, h, service>>
  BY DEF CheckLoop, ResumeTimer
<1>3. AutoStop \in Sent /\ AutoStop \notin Answers /\ AutoStop \notin {EndNotice}
  BY DEF Sent, Answers, EndNotice, AutoStop, Request, Reply
<1>4. QueuesIn(Sent)' /\ Kept(Answers) /\ Kept({EndNotice})
  <2>1. QueuesIn(Sent)
    BY DEF IInv, Base
  <2>2. CASE past
    <3>1. Post(<<AutoStop>>)
      BY <1>1, <2>2
    <3>2. QED BY <1>2, <1>3, <2>1, <3>1, Posted
  <2>3. CASE ~past
    <3>1. Post(<<>>)
      BY <1>1, <2>3
    <3>2. QED BY <1>2, <2>1, <3>1, NothingPosted
  <2>4. QED BY <2>2, <2>3
<1>5. progress' \in Progress /\ races' \subseteq {"torn", "late", "both", "early"}
  BY <1>2 DEF Set, IInv, Base, StateType, Progress, Ends
<1>6. StateType' /\ Lock'
  BY <1>2, <1>5 DEF IInv, Base, StateType, Lock, fibers, people, service
<1>7. Waits' /\ Queue' /\ Handling'
  BY <1>2, <1>4, WaitsFrame, QueueFrame, HandlingFrame DEF IInv, Base, fibers, service
<1>8. Holding'
  <2>1. (Answered' <=> Answered) /\ (Reply(TRUE) \in InTransit' <=> Reply(TRUE) \in InTransit)
    BY <1>4 DEF Kept, Answered, Answers
  <2>2. QED BY <1>2, <2>1 DEF IInv, Base, Holding, Opened, Tuned, fibers, service
<1>9. ASSUME races' = {} PROVE Sound'
  <2>1. CASE child = "dead"
    <3>1. "post_process_forcibly" \in Progress \ {"init"}
      BY DEF Progress, Ends
    <3>2. used /\ UNCHANGED <<used, svcq, tuner, tuned>>
      BY <1>2, <2>1 DEF service, IInv, Base, Holding
    <3>3. QED BY <1>2, <1>4, <1>9, <2>1, <3>1, <3>2, SetKeepsSound DEF Inside
  <2>2. CASE child # "dead"
    BY <1>2, <1>4, <1>9, <2>2, SoundFrame DEF IInv, service
  <2>3. QED BY <2>1, <2>2
<1>10. QED BY <1>4, <1>6, <1>7, <1>8, <1>9 DEF IInv, Base

LEMMA OnNoticeKeeps == ASSUME IInv, ~Inside("viewing"), NEW e, OnNotice(e) PROVE IInv'
<1>1. e.type = "START" /\ e.seq = "notice" /\ locked_by = NoFiber /\ start.pc = "none" /\ Take(e, NoFiber)
  BY StartsUnlocked DEF OnNotice
<1>2. /\ child' = "none" /\ used' = FALSE /\ auto' = FALSE
      /\ svcq' = svcq \o <<"tune_stop", "close">>
      /\ UNCHANGED <<inbox, locked_by, fibers, people, handler, tuner, tuned, stream, pat_lost>>
  BY DEF OnNotice, Clear, GiveBack
<1>3. QueuesIn(Sent)' /\ e \in Sent /\ due' = {}
  BY <1>1, <1>2, Taken DEF IInv, Base
<1>4. e \notin Answers /\ e = EndNotice /\ e \in InTransit
  BY <1>1, <1>2, <1>3, StartEvent, Taken DEF IInv, Base
<1>5. Kept(Answers)
  BY <1>1, <1>2, <1>4, Taken DEF IInv, Base
<1>6. svcq \in Backs /\ svcq' \in Backs
  BY <1>1, <1>2, BackGrows DEF IInv, Base, Queue
<1>7. svcq' \in Seq({"open", "tune", "tuning", "tune_stop", "close"})
  BY <1>6 DEF Backs
<1>8. StateType' /\ Lock'
  <2>1. StateType /\ Lock
    BY DEF IInv, Base
  <2>2. Lock'
    BY <2>1, <1>2 DEF Lock, fibers, people
  <2>3. UNCHANGED <<inbox, locked_by, fibers, people, handler, tuner, tuned, stream, pat_lost>>
    BY <1>2
  <2>4. child' \in {"none", "alive", "dead"} /\ used' \in BOOLEAN /\ auto' \in BOOLEAN
    BY <1>2
  <2>5. StateType'
    BY <2>1, <2>3, <2>4, <1>1, <1>3, <1>7 DEF StateType, fibers, people, handler
  <2>6. QED BY <2>2, <2>5
<1>9. Waits' /\ Queue'
  BY <1>1, <1>2, <1>5, <1>6, WaitsFrame DEF IInv, Base, Queue, Tuned, fibers
<1>10. Holding' /\ Handling'
  BY <1>1, <1>2 DEF IInv, Base, Holding, Handling, Opened, Tuned, fibers, handler, Inside, At
<1>11. ASSUME races' = {} PROVE Sound'
  <2>1. Sound /\ Announced /\ used /\ UNCHANGED <<h, progress>>
    BY <1>2, <1>4, <1>11 DEF IInv, Sound, Announcing, Announced, handler
  <2>2. svcq = <<>>
    <3>1. svcq \in {<<>>, <<"open">>}
      BY <2>1 DEF IInv, Base, Holding
    <3>2. svcq # <<"open">>
      BY <1>6, BackTail
    <3>3. QED BY <3>1, <3>2
  <2>3. svcq' # <<>> /\ Head(svcq') = "tune_stop" /\ AtMostOnce(svcq', {"close"})
    BY <1>2, <2>2, PairOnce
  <2>4. ~Announced' /\ AtMostOnce(flight', {EndNotice})
    <3>1. e \in {EndNotice} /\ AtMostOnce(flight, {EndNotice})
      BY <1>4, <2>1 DEF Sound, Announcing
    <3>2. QED BY <1>1, <1>2, <3>1, Taken DEF IInv, Base, Announced
  <2>5. tuner' = "mine" /\ tuned'
    BY <1>2, <2>1 DEF IInv, Base, Holding
  <2>6. progress = "init" \/ Ended("tune")
    BY <2>1 DEF Sound, Announcing, Ended, Inside, Threads
  <2>7. Alone'
    BY <2>1 DEF Sound, Alone, At, Ended, Writing
  <2>8. Announcing'
    BY <2>1, <2>4 DEF Sound, Announcing, Ending
  <2>9. GoneBack'
    BY <2>1, <2>3, <2>5, <2>6 DEF GoneBack, Ended
  <2>10. QED BY <2>7, <2>8, <2>9 DEF Sound
<1>12. QED BY <1>3, <1>8, <1>9, <1>10, <1>11 DEF IInv, Base

-----------------------------------------------------------------------------
(* The start fiber.  While it has a tuner, and while its open has been      *)
(* answered, nothing waits at tuner_service, so the handler is idle.        *)
LEMMA HandlerIdle ==
  ASSUME IInv, races = {}, ~used, svcq = <<>> \/ Head(svcq) # "tune_stop"
  PROVE  /\ Sound /\ ~Inside("tune") /\ ~Inside("viewing") /\ progress = "init" /\ ~Announced
         /\ \A t \in Threads : ~At(t) /\ ~Ended(t) /\ ~Ending(t)
<1>1. Sound /\ ~Inside("viewing") /\ ~Inside("tune")
  BY DEF IInv, Base, Handling, Sound, GoneBack
<1>2. \A t \in Threads : ~At(t) /\ ~Ended(t) /\ ~Ending(t)
  BY <1>1 DEF Inside, At, Ended, Ending, Threads
<1>3. QED BY <1>1, <1>2 DEF Sound, GoneBack, Announcing, Threads

(* A start that ends.                                                       *)
LEMMA OverTyped ==
  ASSUME IInv, start.pc # "none", StartOver
  PROVE  /\ start' = NoStart /\ start'.pc = "none" /\ locked_by' = NoFiber
         /\ start' \in [pc : StartPcs, u : Users \cup {"nobody"}, tries : 0..EventTries]
         /\ user' \in [Users -> {"none", "start", "stop", "set_option"}] /\ asked' = asked
<1>1. Answer(start.u) /\ start' = NoStart /\ locked_by' = Released("start")
  BY DEF StartOver
<1>2. locked_by = "start"
  BY DEF IInv, Base, Lock
<1>3. QED BY <1>1, <1>2, AnswerTyped, ViewingAssumption DEF Released, NoStart, NoFiber, StartPcs

(* An error behind the tuner's opening gives it back.                       *)
LEMMA FailKeeps ==
  ASSUME IInv, start.pc # "none", ~used, svcq = <<>>, StartFails, peer = "none",
         QueuesIn(Sent)', due' \subseteq {"loop"},
         InTransit' \cap Answers = {}, AtMostOnce(flight', Answers), Kept({EndNotice})
  PROVE  IInv'
<1>1. /\ StartOver /\ used' = FALSE /\ auto' = FALSE
      /\ svcq' = <<>> \o <<"tune_stop", "close">>
      /\ UNCHANGED <<inbox, peer, child, handler, tuner, tuned, stream, pat_lost>>
  BY DEF StartFails, Clear, GiveBack
<1>2. /\ start'.pc = "none" /\ locked_by' = NoFiber
      /\ start' \in [pc : StartPcs, u : Users \cup {"nobody"}, tries : 0..EventTries]
      /\ user' \in [Users -> {"none", "start", "stop", "set_option"}] /\ asked' = asked
  BY <1>1, OverTyped
<1>3. svcq' \in Backs /\ svcq' \in Seq({"open", "tune", "tuning", "tune_stop", "close"})
  <2>1. <<>> \in Backs
    BY DEF Backs
  <2>2. svcq' \in Backs
    BY <1>1, <2>1, BackGrows
  <2>3. QED BY <2>2 DEF Backs
<1>4. StateType' /\ Lock'
  BY <1>1, <1>2, <1>3 DEF IInv, Base, StateType, Lock, handler, NoFiber
<1>5. Waits' /\ Queue'
  BY <1>1, <1>2, <1>3 DEF Waits, Queue, Answered, Tuned
<1>6. Holding' /\ Handling'
  BY <1>1, <1>2 DEF IInv, Base, Holding, Handling, Opened, Tuned, handler, Inside, At
<1>7. ASSUME races' = {} PROVE Sound'
  <2>1. races = {}
    BY <1>1, <1>7 DEF handler
  <2>2. /\ Sound /\ ~Inside("tune") /\ progress = "init"
    BY <2>1, HandlerIdle
  <2>3. ~Announced /\ ~Announced' /\ AtMostOnce(flight', {EndNotice})
    BY <2>1, <2>2, HandlerIdle DEF Kept, Announced, Sound, Announcing
  <2>4. \A t \in Threads : ~At(t)' /\ ~Ending(t)'
    BY <1>1, <2>1, HandlerIdle DEF At, Ending, handler
  <2>5. AtMostOnce(svcq', {"close"}) /\ ~Inside("tune")' /\ progress' = "init"
    BY <1>1, <2>2, PairOnce DEF handler, Inside
  <2>6. QED BY <2>3, <2>4, <2>5 DEF Sound, Alone, Announcing, GoneBack, Threads
<1>8. QED BY <1>4, <1>5, <1>6, <1>7 DEF IInv, Base

(* The answer that the fiber waits for is the only one.                     *)
LEMMA AnswerTaken ==
  ASSUME IInv, NEW e, NEW pc \in StartPcs, Replied(e, pc), inbox' = inbox
  PROVE  /\ start.pc = pc /\ pc \notin {"none", "event_timer"} /\ peer = "none"
         /\ QueuesIn(Sent)' /\ due' = {}
         /\ e.ok \in BOOLEAN /\ e = Reply(e.ok) /\ e \in InTransit /\ Answered
         /\ InTransit' \cap Answers = {} /\ ~Answered' /\ Reply(TRUE) \notin InTransit'
         /\ AtMostOnce(flight', Answers) /\ Kept({EndNotice})
<1>1. Take(e, "start") /\ e.type = "REPLY" /\ start.pc = pc
  BY DEF Replied
<1>2. QueuesIn(Sent)' /\ e \in Sent /\ e \in InTransit /\ due' = {}
  BY <1>1, Taken DEF IInv, Base
<1>3. e \in Answers /\ e \notin {EndNotice} /\ e.ok \in BOOLEAN /\ e = Reply(e.ok)
  BY <1>1, <1>2, ReplyEvent
<1>4. Kept({EndNotice})
  BY <1>1, <1>3, Taken DEF IInv, Base
<1>5. InTransit' \cap Answers = {} /\ AtMostOnce(flight', Answers)
  BY <1>1, <1>3, Taken DEF IInv, Base, Waits
<1>6. Answered
  BY <1>2, <1>3 DEF Answered
<1>7. QED BY <1>1, <1>2, <1>3, <1>4, <1>5, <1>6 DEF IInv, Base, Waits, Answered, Answers

LEMMA GoesTyped ==
  ASSUME IInv, NEW pc \in StartPcs \ {"none"}, start.pc # "none", StartGoes(pc)
  PROVE  /\ start'.pc = pc /\ Lock' /\ UNCHANGED <<locked_by, people>>
         /\ start' \in [pc : StartPcs, u : Users \cup {"nobody"}, tries : 0..EventTries]
BY DEF IInv, Base, StateType, Lock, StartGoes

LEMMA ChannelKeeps == ASSUME IInv, NEW e, ChannelAnswered(e) PROVE IInv'
<1>1. /\ Replied(e, "channel") /\ "channel" \in StartPcs
      /\ \/ StartGoes("open") /\ svcq' = Append(svcq, "open")
         \/ StartOver /\ UNCHANGED svcq
      /\ UNCHANGED <<inbox, peer, viewing, handler, tuner, tuned, stream, pat_lost>>
  BY DEF ChannelAnswered, StartPcs
<1>2. /\ start.pc = "channel" /\ peer = "none" /\ QueuesIn(Sent)' /\ due' = {} /\ ~Answered'
      /\ Reply(TRUE) \notin InTransit' /\ AtMostOnce(flight', Answers) /\ Kept({EndNotice})
  BY <1>1, AnswerTaken
<1>3. svcq \in Backs
  BY <1>2 DEF IInv, Base, Queue
<1>4. used => svcq = <<>>
  <2>1. <<"open">> \notin Backs
    BY BackTail
  <2>2. QED BY <1>3, <2>1 DEF IInv, Base, Holding
<1>5. CASE StartGoes("open") /\ svcq' = Append(svcq, "open")
  <2>1. start'.pc = "open" /\ Lock' /\ UNCHANGED <<locked_by, people>>
        /\ start' \in [pc : StartPcs, u : Users \cup {"nobody"}, tries : 0..EventTries]
    BY <1>2, <1>5, GoesTyped DEF StartPcs
  <2>2. StateType'
    BY <1>1, <1>2, <1>5, <2>1 DEF IInv, Base, StateType, viewing, handler, people
  <2>3. Waits' /\ Queue'
    BY <1>1, <1>2, <1>3, <1>5, <2>1 DEF Waits, Queue, Tuned
  <2>4. used => svcq' = <<"open">>
    BY <1>4, <1>5
  <2>5. Holding' /\ Handling'
    BY <1>1, <1>2, <2>1, <2>4 DEF IInv, Base, Holding, Handling, Opened, Tuned, viewing, handler, Inside, At
  <2>6. ASSUME races' = {} PROVE Sound'
    <3>1. Sound /\ UNCHANGED <<h, progress, used, tuner, tuned>>
      BY <1>1, <2>6 DEF IInv, handler, viewing
    <3>2. svcq # <<>> => svcq' # <<>> /\ Head(svcq') = Head(svcq)
      BY <1>3, <1>5, OpenLast
    <3>3. AtMostOnce(svcq', {"close"})
      <4>1. AtMostOnce(svcq, {"close"})
        BY <3>1 DEF Sound, GoneBack
      <4>2. svcq \in Seq({"open", "tune", "tuning", "tune_stop", "close"})
        BY DEF IInv, Base, StateType
      <4>3. QED BY <1>5, <4>1, <4>2, AppendedOnce
    <3>4. (Announced' <=> Announced) /\ (AtMostOnce(flight, {EndNotice}) => AtMostOnce(flight', {EndNotice}))
      BY <1>2 DEF Kept, Announced
    <3>5. Alone' /\ Announcing'
      BY <3>1, <3>4 DEF Sound, Alone, Announcing, At, Ended, Ending, Writing
    <3>6. GoneBack'
      BY <3>1, <3>2, <3>3 DEF Sound, GoneBack, Ended, Inside
    <3>7. QED BY <3>5, <3>6 DEF Sound
  <2>7. QED BY <1>2, <2>1, <2>2, <2>3, <2>5, <2>6 DEF IInv, Base
<1>6. CASE StartOver /\ UNCHANGED svcq
  <2>1. /\ start'.pc = "none" /\ locked_by' = NoFiber
        /\ start' \in [pc : StartPcs, u : Users \cup {"nobody"}, tries : 0..EventTries]
        /\ user' \in [Users -> {"none", "start", "stop", "set_option"}] /\ asked' = asked
    BY <1>2, <1>6, OverTyped
  <2>2. StateType' /\ Lock'
    BY <1>1, <1>2, <1>6, <2>1 DEF IInv, Base, StateType, Lock, viewing, handler, NoFiber
  <2>3. Waits' /\ Queue'
    BY <1>1, <1>2, <1>3, <1>6, <2>1 DEF Waits, Queue, Tuned
  <2>4. Holding' /\ Handling'
    BY <1>1, <1>2, <1>6, <2>1 DEF IInv, Base, Holding, Handling, Opened, Tuned, viewing, handler, Inside, At
  <2>5. races' = {} => Sound'
    BY <1>1, <1>2, <1>6, SoundFrame DEF IInv, viewing, handler
  <2>6. QED BY <1>2, <2>2, <2>3, <2>4, <2>5 DEF IInv, Base
<1>7. QED BY <1>1, <1>5, <1>6

LEMMA OpenKeeps == ASSUME IInv, NEW e, OpenAnswered(e) PROVE IInv'
<1>1. /\ Replied(e, "open") /\ "open" \in StartPcs
      /\ \/ e.ok /\ StartGoes("tune") /\ svcq' = Append(svcq, "tune") /\ Clear
         \/ StartOver /\ UNCHANGED <<svcq, used, auto>>
      /\ UNCHANGED <<inbox, peer, child, handler, tuner, tuned, stream, pat_lost>>
  BY DEF OpenAnswered, StartPcs
<1>2. /\ start.pc = "open" /\ peer = "none" /\ QueuesIn(Sent)' /\ due' = {} /\ Answered /\ ~Answered'
      /\ e \in InTransit /\ e = Reply(e.ok) /\ e.ok \in BOOLEAN
      /\ Reply(TRUE) \notin InTransit' /\ AtMostOnce(flight', Answers) /\ Kept({EndNotice})
  BY <1>1, AnswerTaken
<1>3. svcq = <<>>
  BY <1>2 DEF IInv, Base, Queue
<1>5. CASE e.ok /\ StartGoes("tune") /\ svcq' = Append(svcq, "tune") /\ Clear
  <2>0. tuner = "mine" /\ ~tuned /\ ~used /\ used' = FALSE /\ auto' = FALSE /\ svcq' = <<"tune">>
    <3>1. e = Reply(TRUE)
      BY <1>2, <1>5
    <3>2. tuner = "mine" /\ ~tuned /\ ~used
      BY <1>2, <3>1 DEF IInv, Base, Holding
    <3>3. QED BY <1>3, <1>5, <3>2 DEF Clear
  <2>1. start'.pc = "tune" /\ Lock' /\ UNCHANGED <<locked_by, people>>
        /\ start' \in [pc : StartPcs, u : Users \cup {"nobody"}, tries : 0..EventTries]
    BY <1>2, <1>5, GoesTyped DEF StartPcs
  <2>2. StateType'
    <3>1. svcq' \in Seq({"open", "tune", "tuning", "tune_stop", "close"})
      BY <2>0
    <3>2. QED BY <1>1, <1>2, <2>0, <2>1, <3>1 DEF IInv, Base, StateType, handler, people
  <2>3. Waits' /\ Queue'
    BY <1>1, <1>2, <2>0, <2>1 DEF Waits, Queue, Tuned
  <2>5. Holding' /\ Handling'
    BY <1>1, <1>2, <2>0, <2>1 DEF IInv, Base, Holding, Handling, Opened, Tuned, handler, Inside, At
  <2>6. ASSUME races' = {} PROVE Sound'
    <3>1. races = {} /\ UNCHANGED <<h, progress>>
      BY <1>1, <2>6 DEF handler
    <3>2. /\ Sound /\ ~Inside("tune") /\ progress = "init" /\ ~Announced
          /\ \A t \in Threads : ~At(t) /\ ~Ended(t) /\ ~Ending(t)
      BY <1>3, <2>0, <3>1, HandlerIdle
    <3>3. ~Announced' /\ AtMostOnce(flight', {EndNotice})
      BY <1>2, <3>2 DEF Kept, Announced, Sound, Announcing
    <3>4. AtMostOnce(svcq', {"close"})
      BY <2>0 DEF AtMostOnce
    <3>5. QED BY <3>1, <3>2, <3>3, <3>4 DEF Sound, Alone, Announcing, GoneBack, At, Ended, Ending, Inside, Threads
  <2>7. QED BY <1>2, <2>1, <2>2, <2>3, <2>5, <2>6 DEF IInv, Base
<1>6. CASE StartOver /\ UNCHANGED <<svcq, used, auto>>
  <2>1. /\ start'.pc = "none" /\ locked_by' = NoFiber
        /\ start' \in [pc : StartPcs, u : Users \cup {"nobody"}, tries : 0..EventTries]
        /\ user' \in [Users -> {"none", "start", "stop", "set_option"}] /\ asked' = asked
    BY <1>2, <1>6, OverTyped
  <2>2. StateType' /\ Lock'
    BY <1>1, <1>2, <1>6, <2>1 DEF IInv, Base, StateType, Lock, handler, NoFiber
  <2>3. Waits' /\ Queue'
    <3>1. <<>> \in Backs
      BY DEF Backs
    <3>2. QED BY <1>1, <1>2, <1>3, <1>6, <2>1, <3>1 DEF Waits, Queue, Tuned
  <2>4. Holding' /\ Handling'
    BY <1>1, <1>2, <1>6, <2>1 DEF IInv, Base, Holding, Handling, Opened, Tuned, handler, Inside, At
  <2>5. races' = {} => Sound'
    BY <1>1, <1>2, <1>6, SoundFrame DEF IInv, handler
  <2>6. QED BY <1>2, <2>2, <2>3, <2>4, <2>5 DEF IInv, Base
<1>7. QED BY <1>1, <1>5, <1>6

(* Behind the tune the fiber holds a tuned tuner.                           *)
LEMMA AsksKeeps ==
  ASSUME IInv, NEW what \in {"event", "name"}, start.pc # "none", AsksFor(what), peer = "none",
         svcq = <<>>, tuner = "mine", tuned, ~used,
         QueuesIn(Sent)', due' = {}, ~Answered', AtMostOnce(flight', Answers), Kept({EndNotice})
  PROVE  IInv'
<1>1. start'.pc = what /\ Lock' /\ UNCHANGED <<locked_by, people>>
      /\ start' \in [pc : StartPcs, u : Users \cup {"nobody"}, tries : 0..EventTries]
  BY GoesTyped DEF StartPcs, AsksFor
<1>2. peer' = what /\ UNCHANGED <<inbox, viewing, handler, service>>
  BY DEF AsksFor
<1>3. StateType'
  BY <1>1, <1>2 DEF IInv, Base, StateType, viewing, handler, people, service
<1>4. Waits' /\ Queue'
  BY <1>1, <1>2 DEF Waits, Queue, Tuned, service
<1>5. Holding' /\ Handling'
  BY <1>1, <1>2 DEF IInv, Base, Holding, Handling, Opened, Tuned, viewing, handler, service, Inside, At
<1>6. races' = {} => Sound'
  BY <1>2, SoundFrame DEF IInv, viewing, handler, service
<1>7. QED BY <1>1, <1>3, <1>4, <1>5, <1>6 DEF IInv, Base

LEMMA TuneKeeps == ASSUME IInv, NEW e, TuneAnswered(e) PROVE IInv'
<1>1. Replied(e, "tune") /\ "tune" \in StartPcs /\ inbox' = inbox
  BY DEF TuneAnswered, AsksFor, StartFails, StartPcs
<1>2. /\ start.pc = "tune" /\ peer = "none" /\ QueuesIn(Sent)' /\ due' = {} /\ Answered /\ ~Answered'
      /\ e \in InTransit /\ e = Reply(e.ok) /\ e.ok \in BOOLEAN
      /\ InTransit' \cap Answers = {} /\ AtMostOnce(flight', Answers) /\ Kept({EndNotice})
  BY <1>1, AnswerTaken
<1>3. svcq = <<>> /\ tuner = "mine" /\ ~used
  BY <1>2 DEF IInv, Base, Queue, Holding, Opened
<1>4. CASE e.ok /\ AsksFor("event")
  <2>1. e = Reply(TRUE)
    BY <1>2, <1>4
  <2>2. tuned
    BY <1>2, <2>1 DEF IInv, Base, Holding
  <2>3. QED BY <1>2, <1>3, <1>4, <2>2, AsksKeeps
<1>5. CASE StartFails
  BY <1>2, <1>3, <1>5, FailKeeps
<1>6. QED BY <1>4, <1>5 DEF TuneAnswered

LEMMA EventKeeps == ASSUME IInv, NEW e, EventAnswered(e) PROVE IInv'
<1>1. Replied(e, "event") /\ "event" \in StartPcs /\ inbox' = inbox
  BY DEF EventAnswered, AsksFor, StartPcs
<1>2. /\ start.pc = "event" /\ peer = "none" /\ QueuesIn(Sent)' /\ due' = {} /\ ~Answered'
      /\ AtMostOnce(flight', Answers) /\ Kept({EndNotice})
  BY <1>1, AnswerTaken
<1>3. svcq = <<>> /\ tuner = "mine" /\ tuned /\ ~used
  BY <1>2 DEF IInv, Base, Queue, Holding, Opened, Tuned
<1>4. CASE AsksFor("name")
  BY <1>2, <1>3, <1>4, AsksKeeps
<1>5. CASE StartGoes("event_timer") /\ UNCHANGED <<inbox, peer, viewing, handler, service>>
  <2>1. start'.pc = "event_timer" /\ Lock' /\ UNCHANGED <<locked_by, people>>
        /\ start' \in [pc : StartPcs, u : Users \cup {"nobody"}, tries : 0..EventTries]
    BY <1>2, <1>5, GoesTyped DEF StartPcs
  <2>2. StateType'
    BY <1>2, <1>5, <2>1 DEF IInv, Base, StateType, viewing, handler, people, service
  <2>3. Waits' /\ Queue'
    BY <1>2, <1>3, <1>5, <2>1 DEF Waits, Queue, Tuned, service
  <2>4. Holding' /\ Handling'
    BY <1>3, <1>5, <2>1 DEF IInv, Base, Holding, Handling, Opened, Tuned, viewing, handler, service, Inside, At
  <2>5. races' = {} => Sound'
    BY <1>2, <1>5, SoundFrame DEF IInv, viewing, handler, service
  <2>6. QED BY <1>2, <2>1, <2>2, <2>3, <2>4, <2>5 DEF IInv, Base
<1>6. QED BY <1>4, <1>5 DEF EventAnswered

LEMMA EventTimerKeeps == ASSUME IInv, EventTimer PROVE IInv'
<1>1. /\ "start" \in due /\ due' = due \ {"start"} /\ UNCHANGED <<batch, deferred>>
      /\ inbox' = inbox
  BY DEF EventTimer, ResumeTimer, StartFails
<1>2. flight' = flight /\ QueuesIn(Sent)' /\ due' \subseteq {"loop"}
  BY <1>1 DEF flight, QueuesIn, IInv, Base, StateType
<1>0. start.pc = "event_timer"
  BY <1>1 DEF IInv, Base, StateType
<1>3. svcq = <<>> /\ tuner = "mine" /\ tuned /\ ~used /\ peer = "none" /\ ~Answered
  BY <1>0 DEF IInv, Base, Queue, Holding, Opened, Tuned, Waits
<1>4. InTransit' \cap Answers = {} /\ AtMostOnce(flight', Answers) /\ ~Answered' /\ \A M : Kept(M)
  BY <1>2, <1>3, Quiet DEF Answered, InTransit, IInv, Base, Waits
<1>5. CASE /\ start.tries < EventTries
           /\ start' = [start EXCEPT !.pc = "event", !.tries = @ + 1]
           /\ peer' = "event"
           /\ UNCHANGED <<inbox, locked_by, people, viewing, handler, service>>
  <2>1. start'.pc = "event"
        /\ start' \in [pc : StartPcs, u : Users \cup {"nobody"}, tries : 0..EventTries]
    <3>1. start \in [pc : StartPcs, u : Users \cup {"nobody"}, tries : 0..EventTries]
      BY DEF IInv, Base, StateType
    <3>2. start.tries + 1 \in 0..EventTries /\ "event" \in StartPcs
      BY <1>5, <3>1, ViewingAssumption DEF StartPcs
    <3>3. start' = [pc |-> "event", u |-> start.u, tries |-> start.tries + 1]
      BY <1>5, <3>1
    <3>4. QED BY <3>1, <3>2, <3>3
  <2>2. StateType' /\ Lock'
    BY <1>0, <1>2, <1>5, <2>1 DEF IInv, Base, StateType, Lock, viewing, handler, people, service
  <2>3. Waits' /\ Queue'
    BY <1>3, <1>4, <1>5, <2>1 DEF Waits, Queue, Tuned, service
  <2>4. Holding' /\ Handling'
    BY <1>3, <1>5, <2>1 DEF IInv, Base, Holding, Handling, Opened, Tuned, viewing, handler, service, Inside, At
  <2>5. races' = {} => Sound'
    BY <1>4, <1>5, SoundFrame DEF IInv, viewing, handler, service
  <2>6. QED BY <1>2, <2>2, <2>3, <2>4, <2>5 DEF IInv, Base
<1>6. CASE StartFails
  BY <1>0, <1>2, <1>3, <1>4, <1>6, FailKeeps
<1>7. QED BY <1>5, <1>6 DEF EventTimer

(* The viewing is entered in the table while the handler is idle.           *)
LEMMA NameKeeps == ASSUME IInv, NEW e, NameAnswered(e) PROVE IInv'
<1>1. Replied(e, "name") /\ "name" \in StartPcs /\ inbox' = inbox
  BY DEF NameAnswered, StartFails, StartPcs
<1>2. /\ start.pc = "name" /\ peer = "none" /\ QueuesIn(Sent)' /\ due' = {} /\ ~Answered'
      /\ InTransit' \cap Answers = {} /\ Reply(TRUE) \notin InTransit'
      /\ AtMostOnce(flight', Answers) /\ Kept({EndNotice})
  BY <1>1, AnswerTaken
<1>3. svcq = <<>> /\ tuner = "mine" /\ tuned /\ ~used
  BY <1>2 DEF IInv, Base, Queue, Holding, Opened, Tuned
<1>4. CASE StartFails
  BY <1>2, <1>3, <1>4, FailKeeps
<1>5. CASE /\ progress = "init"
           /\ used' = TRUE /\ child' = "alive"
           /\ progress' = "pre_process"
           /\ StartOver
           /\ UNCHANGED <<inbox, peer, auto, h, races, service>>
  <2>1. /\ start'.pc = "none" /\ locked_by' = NoFiber
        /\ start' \in [pc : StartPcs, u : Users \cup {"nobody"}, tries : 0..EventTries]
        /\ user' \in [Users -> {"none", "start", "stop", "set_option"}] /\ asked' = asked
    BY <1>2, <1>5, OverTyped
  <2>2. StateType' /\ Lock'
    BY <1>2, <1>5, <2>1 DEF IInv, Base, StateType, Lock, service, NoFiber, Progress
  <2>3. Waits' /\ Queue'
    <3>1. <<>> \in Backs
      BY DEF Backs
    <3>2. QED BY <1>2, <1>3, <1>5, <2>1, <3>1 DEF Waits, Queue, Tuned, service
  <2>4. Holding' /\ Handling'
    BY <1>2, <1>3, <1>5, <2>1 DEF IInv, Base, Holding, Handling, Opened, Tuned, service, Inside, At
  <2>5. ASSUME races' = {} PROVE Sound'
    <3>1. races = {} /\ used' /\ UNCHANGED <<h, svcq>>
      BY <1>5, <2>5 DEF service
    <3>2. /\ Sound /\ ~Announced
          /\ \A t \in Threads : ~At(t) /\ ~Ended(t) /\ ~Ending(t)
      BY <1>3, <3>1, HandlerIdle
    <3>3. ~Announced' /\ AtMostOnce(flight', {EndNotice})
      BY <1>2, <3>2 DEF Kept, Announced, Sound, Announcing
    <3>4. QED BY <3>1, <3>2, <3>3 DEF Sound, Alone, Announcing, GoneBack, At, Ended, Ending, Threads
  <2>6. QED BY <1>2, <2>2, <2>3, <2>4, <2>5 DEF IInv, Base
<1>6. QED BY <1>4, <1>5 DEF NameAnswered

-----------------------------------------------------------------------------
(* tuner_service, other clients and the peers.                              *)

(* What is first in its queue says where the start is.                      *)
LEMMA FirstSays ==
  ASSUME IInv, svcq # <<>>
  PROVE  /\ Head(svcq) = "open" => start.pc = "open" /\ ~Answered /\ svcq = <<"open">>
         /\ Head(svcq) = "tune" => start.pc = "tune" /\ ~Answered /\ svcq = <<"tune">>
         /\ Head(svcq) = "tuning" => start.pc = "tune" /\ ~Answered /\ svcq = <<"tuning">>
         /\ Head(svcq) \in {"tune_stop", "close"} =>
              /\ ~used /\ start.pc \in {"none", "channel", "open"}
              /\ start.pc = "open" => ~Answered
              /\ start.pc \in {"none", "channel"} => Tail(svcq) \in Backs
              /\ start.pc = "open" => \E q \in Backs : Tail(svcq) = Append(q, "open")
<1>0. start.pc \in StartPcs
  BY DEF IInv, Base, StateType
<1>1. CASE start.pc \in {"none", "channel"}
  <2>1. svcq \in Backs
    BY <1>1 DEF IInv, Base, Queue
  <2>2. Tail(svcq) \in Backs /\ Head(svcq) \in {"tune_stop", "close"}
    BY <2>1, BackTail
  <2>3. Head(<<"open">>) = "open"
    OBVIOUS
  <2>4. ~used
    BY <2>2, <2>3 DEF IInv, Base, Holding
  <2>5. QED BY <1>1, <2>2, <2>4
<1>2. CASE start.pc = "open"
  <2>1. ~Answered
    BY <1>2 DEF IInv, Base, Queue
  <2>2. PICK q \in Backs : svcq = Append(q, "open")
    BY <1>2, <2>1 DEF IInv, Base, Queue
  <2>3. /\ Head(svcq) = "open" => svcq = <<"open">>
        /\ Head(svcq) # "open" => /\ Head(svcq) \in {"tune_stop", "close"}
                                  /\ Tail(q) \in Backs /\ Tail(svcq) = Append(Tail(q), "open")
    BY <2>2, OpenLast
  <2>4. Head(<<"open">>) = "open"
    OBVIOUS
  <2>5. Head(svcq) \in {"tune_stop", "close"} => ~used
    BY <2>4 DEF IInv, Base, Holding
  <2>6. QED BY <1>2, <2>1, <2>3, <2>5
<1>3. CASE start.pc = "tune"
  <2>1. ~Answered /\ svcq \in {<<"tune">>, <<"tuning">>}
    BY <1>3 DEF IInv, Base, Queue
  <2>2. Head(<<"tune">>) = "tune" /\ Head(<<"tuning">>) = "tuning"
    OBVIOUS
  <2>3. QED BY <1>3, <2>1, <2>2
<1>4. CASE Tuned
  BY <1>4 DEF IInv, Base, Queue
<1>5. QED BY <1>0, <1>1, <1>2, <1>3, <1>4 DEF StartPcs, Tuned

LEMMA AnswerPosted ==
  ASSUME IInv, NEW ok \in BOOLEAN, Post(<<Reply(ok)>>), UNCHANGED <<batch, deferred>>, ~Answered
  PROVE  /\ QueuesIn(Sent)' /\ Kept({EndNotice}) /\ AtMostOnce(flight', Answers)
         /\ Answered' /\ (Reply(TRUE) \in InTransit' => ok)
<1>1. Reply(ok) \in Sent /\ Reply(ok) \in Answers /\ Reply(ok) \notin {EndNotice}
  <2>1. Reply(ok) \in Answers
    BY DEF Answers
  <2>2. Reply(ok) # EndNotice
    BY DEF Reply, EndNotice, Request
  <2>3. QED BY <2>1, <2>2 DEF Sent
<1>2. QueuesIn(Sent) /\ InTransit \cap Answers = {} /\ AtMostOnce(flight, Answers)
  BY DEF IInv, Base, Waits, Answered
<1>3. QueuesIn(Sent)' /\ Kept({EndNotice})
  BY <1>1, <1>2, Posted
<1>4. InTransit' \cap Answers = {Reply(ok)} /\ AtMostOnce(flight', Answers)
  BY <1>1, <1>2, Posted
<1>5. Reply(TRUE).ok = TRUE /\ Reply(ok).ok = ok /\ Reply(TRUE) \in Answers
  BY DEF Reply, Answers
<1>6. QED BY <1>3, <1>4, <1>5 DEF Answered

LEMMA OpensKeeps == ASSUME IInv, NEW ok \in BOOLEAN, ServiceOpens(ok) PROVE IInv'
<1>1. /\ svcq # <<>> /\ Head(svcq) = "open"
      /\ ok => tuner = "free"
      /\ tuner' = IF ok THEN "mine" ELSE tuner
      /\ svcq' = Tail(svcq) /\ Post(<<Reply(ok)>>)
      /\ UNCHANGED <<batch, due, deferred, locked_by, viewing, fibers, people, handler, tuned, stream, pat_lost>>
  BY DEF ServiceOpens, First, ServiceOnly
<1>2. start.pc = "open" /\ ~Answered /\ svcq' = <<>>
  <2>1. start.pc = "open" /\ ~Answered /\ svcq = <<"open">>
    BY <1>1, FirstSays
  <2>2. QED BY <1>1, <2>1
<1>3. /\ QueuesIn(Sent)' /\ Kept({EndNotice}) /\ AtMostOnce(flight', Answers)
      /\ Answered' /\ (Reply(TRUE) \in InTransit' => ok)
  BY <1>1, <1>2, AnswerPosted
<1>4. StateType' /\ Lock'
  <2>1. svcq' \in Seq({"open", "tune", "tuning", "tune_stop", "close"})
    BY <1>2
  <2>2. QED BY <1>1, <2>1 DEF IInv, Base, StateType, Lock, viewing, fibers, people, handler
<1>5. Waits' /\ Queue'
  BY <1>1, <1>2, <1>3 DEF IInv, Base, Waits, Queue, Tuned, fibers
<1>6. Holding' /\ Handling'
  BY <1>1, <1>2, <1>3 DEF IInv, Base, Holding, Handling, Opened, Tuned, viewing, fibers, handler, Inside, At
<1>7. ASSUME races' = {} PROVE Sound'
  <2>1. Sound /\ UNCHANGED <<h, progress, used, tuned>>
    BY <1>1, <1>7 DEF IInv, handler, viewing
  <2>2. ~used => ~Inside("tune")
    BY <1>1, <2>1 DEF Sound, GoneBack
  <2>3. (Announced' <=> Announced) /\ (AtMostOnce(flight, {EndNotice}) => AtMostOnce(flight', {EndNotice}))
    BY <1>3 DEF Kept, Announced
  <2>4. Alone' /\ Announcing'
    BY <2>1, <2>3 DEF Sound, Alone, Announcing, At, Ended, Ending, Writing
  <2>5. GoneBack'
    BY <1>2, <2>1, <2>2, PairOnce DEF Sound, GoneBack, Ended, Inside
  <2>6. QED BY <2>4, <2>5 DEF Sound
<1>8. QED BY <1>3, <1>4, <1>5, <1>6, <1>7 DEF IInv, Base

LEMMA TunesKeeps == ASSUME IInv, ServiceTunes PROVE IInv'
<1>1. /\ svcq # <<>> /\ Head(svcq) = "tune"
      /\ UNCHANGED <<batch, due, deferred, locked_by, viewing, fibers, people, handler, tuner, tuned>>
  BY DEF ServiceTunes, First, ServiceOnly
<1>2. start.pc = "tune" /\ ~Answered /\ svcq = <<"tune">>
  BY <1>1, FirstSays
<1>3. tuner = "mine" /\ ~tuned /\ ~used
  BY <1>2 DEF IInv, Base, Holding, Opened
<1>4. svcq' = <<"tuning">> /\ stream' = "on" /\ pat_lost' = FALSE /\ inbox' = inbox
  <2>1. svcq' = <<"tuning">> \o Tail(svcq) /\ stream' = "on" /\ pat_lost' = FALSE /\ inbox' = inbox
    BY <1>3 DEF ServiceTunes
  <2>2. Tail(svcq) = <<>> /\ <<"tuning">> \in Seq({"tuning"})
    BY <1>2
  <2>3. QED BY <2>1, <2>2, ConcatEmptySeq
<1>5. flight' = flight /\ QueuesIn(Sent)'
  BY <1>1, <1>4 DEF flight, QueuesIn, IInv, Base
<1>6. StateType' /\ Lock'
  <2>1. svcq' \in Seq({"open", "tune", "tuning", "tune_stop", "close"})
    BY <1>4
  <2>2. stream' = "on" /\ pat_lost' \in BOOLEAN
    BY <1>4
  <2>3. UNCHANGED <<due, locked_by, viewing, fibers, people, handler, tuner, tuned>>
    BY <1>1
  <2>4. QED BY <2>1, <2>2, <2>3 DEF IInv, Base, StateType, Lock, viewing, fibers, people, handler
<1>7. Waits' /\ Queue' /\ Answered' = Answered /\ InTransit' = InTransit
  BY <1>1, <1>2, <1>4, <1>5, Quiet, WaitsFrame DEF IInv, Base, Queue, Tuned, fibers, Answered, InTransit
<1>8. Holding' /\ Handling'
  BY <1>1, <1>3, <1>7 DEF IInv, Base, Holding, Handling, Opened, Tuned, viewing, fibers, handler, Inside, At
<1>9. ASSUME races' = {} PROVE Sound'
  <2>1. races = {} /\ UNCHANGED <<h, progress, used, tuner, tuned>>
    BY <1>1, <1>9 DEF handler, viewing
  <2>2. Sound /\ ~Inside("tune")
    BY <1>1, <1>3, <2>1, HandlerIdle
  <2>3. Alone' /\ Announcing'
    BY <1>5, <2>1, <2>2 DEF Sound, Alone, Announcing, Announced, InTransit, At, Ended, Ending, Writing
  <2>4. AtMostOnce(svcq', {"close"})
    BY <1>4 DEF AtMostOnce
  <2>5. GoneBack'
    BY <2>1, <2>2, <2>4 DEF Sound, GoneBack, Ended, Inside
  <2>6. QED BY <2>3, <2>5 DEF Sound
<1>10. QED BY <1>5, <1>6, <1>7, <1>8, <1>9 DEF IInv, Base

LEMMA TunedKeeps == ASSUME IInv, NEW ok \in BOOLEAN, ServiceTuned(ok) PROVE IInv'
<1>1. /\ svcq # <<>> /\ Head(svcq) = "tuning"
      /\ svcq' = Tail(svcq) /\ tuned' = ok
      /\ stream' \in {stream, "off"} /\ pat_lost' \in {pat_lost, FALSE}
      /\ Post(<<Reply(ok)>>)
      /\ UNCHANGED <<batch, due, deferred, locked_by, viewing, fibers, people, handler, tuner>>
  BY DEF ServiceTuned, First, ServiceOnly, StreamStops
<1>2. start.pc = "tune" /\ ~Answered /\ svcq' = <<>>
  <2>1. start.pc = "tune" /\ ~Answered /\ svcq = <<"tuning">>
    BY <1>1, FirstSays
  <2>2. QED BY <1>1, <2>1
<1>h. tuner = "mine" /\ ~used
  BY <1>2 DEF IInv, Base, Holding, Opened
<1>3. /\ QueuesIn(Sent)' /\ Kept({EndNotice}) /\ AtMostOnce(flight', Answers)
      /\ Answered' /\ (Reply(TRUE) \in InTransit' => ok)
  BY <1>1, <1>2, AnswerPosted
<1>4. StateType' /\ Lock'
  <2>1. svcq' \in Seq({"open", "tune", "tuning", "tune_stop", "close"})
    BY <1>2
  <2>2. tuned' \in BOOLEAN
    BY <1>1
  <2>3. stream' \in {"off", "on", "silent"} /\ pat_lost' \in BOOLEAN
    BY <1>1 DEF IInv, Base, StateType
  <2>4. UNCHANGED <<due, locked_by, viewing, fibers, people, handler, tuner>>
    BY <1>1
  <2>5. QED BY <2>1, <2>2, <2>3, <2>4 DEF IInv, Base, StateType, Lock, viewing, fibers, people, handler
<1>5. Waits' /\ Queue'
  BY <1>1, <1>2, <1>3 DEF IInv, Base, Waits, Queue, Tuned, fibers
<1>6. Holding' /\ Handling'
  BY <1>1, <1>2, <1>3, <1>h DEF IInv, Base, Holding, Handling, Opened, Tuned, viewing, fibers, handler, Inside, At
<1>7. ASSUME races' = {} PROVE Sound'
  <2>1. races = {} /\ UNCHANGED <<h, progress, used>>
    BY <1>1, <1>7 DEF handler, viewing
  <2>2. Sound /\ ~Inside("tune")
    BY <1>1, <1>h, <2>1, HandlerIdle
  <2>3. (Announced' <=> Announced) /\ (AtMostOnce(flight, {EndNotice}) => AtMostOnce(flight', {EndNotice}))
    BY <1>3 DEF Kept, Announced
  <2>4. Alone' /\ Announcing'
    BY <2>1, <2>2, <2>3 DEF Sound, Alone, Announcing, At, Ended, Ending, Writing
  <2>5. GoneBack'
    BY <1>2, <2>1, <2>2, PairOnce DEF Sound, GoneBack, Ended, Inside
  <2>6. QED BY <2>4, <2>5 DEF Sound
<1>8. QED BY <1>3, <1>4, <1>5, <1>6, <1>7 DEF IInv, Base

(* A stop and a close are served for nobody who holds a viewing.            *)
LEMMA BackServed ==
  ASSUME IInv, svcq # <<>>, Head(svcq) \in {"tune_stop", "close"}, svcq' = Tail(svcq), inbox' = inbox,
         UNCHANGED <<batch, due, deferred, locked_by, viewing, fibers, people, handler>>,
         tuner' \in {tuner, "free"}, tuned' \in {tuned, FALSE}, tuner' = "free" => ~tuned',
         stream' \in {stream, "off"}, pat_lost' \in {pat_lost, FALSE},
         races = {} /\ Sound => ~Inside("tune")
  PROVE  IInv'
<1>1. /\ ~used /\ start.pc \in {"none", "channel", "open"}
      /\ start.pc = "open" => ~Answered
      /\ start.pc \in {"none", "channel"} => Tail(svcq) \in Backs
      /\ start.pc = "open" => \E q \in Backs : Tail(svcq) = Append(q, "open")
  BY FirstSays
<1>2. flight' = flight /\ QueuesIn(Sent)'
  BY DEF flight, QueuesIn, IInv, Base
<1>3. StateType' /\ Lock'
  <2>1. svcq' \in Seq({"open", "tune", "tuning", "tune_stop", "close"})
    BY HeadTailProperties DEF IInv, Base, StateType
  <2>2. StateType /\ Lock
    BY DEF IInv, Base
  <2>3. tuner' \in {"free", "mine", "other"} /\ tuned' \in BOOLEAN
    BY <2>2 DEF StateType
  <2>4. stream' \in {"off", "on", "silent"} /\ pat_lost' \in BOOLEAN
    BY <2>2 DEF StateType
  <2>5. UNCHANGED <<due, locked_by, viewing, fibers, people, handler>>
    OBVIOUS
  <2>6. QED BY <2>1, <2>2, <2>3, <2>4, <2>5 DEF StateType, Lock, viewing, fibers, people, handler
<1>4. Waits' /\ InTransit' = InTransit /\ Answered' = Answered
  BY <1>2, Quiet, WaitsFrame DEF IInv, Base, fibers, InTransit, Answered
<1>5. Queue'
  BY <1>1, <1>4 DEF Queue, Tuned, fibers
<1>6. Holding' /\ Handling'
  BY <1>1, <1>4 DEF IInv, Base, Holding, Handling, Answered, Answers, Opened, Tuned, viewing, fibers, handler, Inside, At
<1>7. ASSUME races' = {} PROVE Sound'
  <2>1. Sound /\ ~Inside("tune") /\ UNCHANGED <<h, progress, used>>
    BY <1>7 DEF IInv, handler, viewing
  <2>2. Alone' /\ Announcing'
    BY <1>2, <2>1 DEF Sound, Alone, Announcing, Announced, InTransit, At, Ended, Ending, Writing
  <2>3. AtMostOnce(svcq', {"close"})
    <3>1. AtMostOnce(svcq, {"close"}) /\ svcq \in Seq({"open", "tune", "tuning", "tune_stop", "close"})
      BY <2>1 DEF Sound, GoneBack, IInv, Base, StateType
    <3>2. QED BY <3>1, TailOnce
  <2>4. GoneBack'
    BY <2>1, <2>3 DEF Sound, GoneBack, Ended, Inside
  <2>5. QED BY <2>2, <2>4 DEF Sound
<1>8. QED BY <1>2, <1>3, <1>4, <1>5, <1>6, <1>7 DEF IInv, Base

LEMMA StopsKeeps == ASSUME IInv, ServiceStops PROVE IInv'
<1>1. /\ svcq # <<>> /\ Head(svcq) = "tune_stop" /\ svcq' = Tail(svcq)
      /\ IF tuner = "mine" /\ tuned
         THEN ~Inside("tune") /\ stream' = "off" /\ pat_lost' = FALSE /\ tuned' = FALSE
         ELSE UNCHANGED <<tuned, stream, pat_lost>>
      /\ UNCHANGED <<inbox, batch, due, deferred, locked_by, viewing, fibers, people, handler, tuner>>
  BY DEF ServiceStops, First, ServiceOnly, StreamStops
<1>2. ~used
  BY <1>1, FirstSays
<1>3. races = {} /\ Sound => ~Inside("tune")
  BY <1>1, <1>2 DEF Sound, GoneBack
<1>4. tuner' = "free" => ~tuned'
  BY <1>1 DEF IInv, Base, Holding
<1>5. tuned' \in {tuned, FALSE} /\ stream' \in {stream, "off"} /\ pat_lost' \in {pat_lost, FALSE}
  BY <1>1
<1>6. QED BY <1>1, <1>3, <1>4, <1>5, BackServed

LEMMA ClosesKeeps == ASSUME IInv, ServiceCloses PROVE IInv'
<1>1. /\ svcq # <<>> /\ Head(svcq) = "close" /\ svcq' = Tail(svcq)
      /\ tuner' = IF tuned THEN tuner ELSE "free"
      /\ UNCHANGED <<inbox, batch, due, deferred, locked_by, viewing, fibers, people, handler, tuned, stream, pat_lost>>
  BY DEF ServiceCloses, First, ServiceOnly
<1>2. ~used
  BY <1>1, FirstSays
<1>3. races = {} /\ Sound => ~Inside("tune")
  BY <1>1, <1>2 DEF Sound, GoneBack
<1>4. (tuner' = "free" => ~tuned') /\ tuner' \in {tuner, "free"}
  BY <1>1 DEF IInv, Base, Holding
<1>6. QED BY <1>1, <1>3, <1>4, BackServed

(* What another client does with a tuner that is not this module's.         *)
LEMMA OtherKeeps ==
  ASSUME IInv, OtherOpens \/ OtherTunes \/ OtherCloses
  PROVE  IInv'
<1>1. /\ tuner # "mine" /\ tuner' \in {"other", "free"} /\ (tuner' = "free" => ~tuned')
      /\ tuned' \in BOOLEAN /\ stream' \in {"off", "on", "silent"} /\ pat_lost' \in BOOLEAN
      /\ UNCHANGED <<inbox, svcq, batch, due, deferred, locked_by, viewing, fibers, people, handler>>
  <2>1. StateType
    BY DEF IInv, Base
  <2>2. CASE OtherOpens
    BY <2>1, <2>2 DEF OtherOpens, ServiceOnly, StateType
  <2>3. CASE OtherTunes
    BY <2>1, <2>3 DEF OtherTunes, ServiceOnly, StateType
  <2>4. CASE OtherCloses
    BY <2>1, <2>4 DEF OtherCloses, ServiceOnly, StateType, StreamStops
  <2>5. QED BY <2>2, <2>3, <2>4
<1>2. flight' = flight /\ QueuesIn(Sent)'
  BY <1>1 DEF flight, QueuesIn, IInv, Base
<1>3. StateType' /\ Lock'
  BY <1>1 DEF IInv, Base, StateType, Lock, viewing, fibers, people, handler
<1>4. Waits' /\ Queue' /\ InTransit' = InTransit /\ Answered' = Answered
  BY <1>1, <1>2, Quiet, WaitsFrame, QueueFrame DEF IInv, Base, fibers, InTransit, Answered
<1>h. start.pc = "tune" => FALSE
  BY <1>1 DEF IInv, Base, Holding, Opened
<1>5. Holding' /\ Handling'
  BY <1>1, <1>4, <1>h DEF IInv, Base, Holding, Handling, Opened, Tuned, viewing, fibers, handler, Inside, At
<1>6. ASSUME races' = {} PROVE Sound'
  <2>1. Sound /\ UNCHANGED <<h, progress, used, svcq>>
    BY <1>1, <1>6 DEF IInv, handler, viewing
  <2>2. ~used /\ ~Inside("tune")
    BY <1>1, <2>1 DEF IInv, Base, Holding, Sound, GoneBack
  <2>3. Alone' /\ Announcing'
    BY <1>2, <2>1 DEF Sound, Alone, Announcing, Announced, InTransit, At, Ended, Ending, Writing
  <2>4. GoneBack'
    BY <2>1, <2>2 DEF Sound, GoneBack, Ended, Inside
  <2>5. QED BY <2>3, <2>4 DEF Sound
<1>7. QED BY <1>2, <1>3, <1>4, <1>5, <1>6 DEF IInv, Base

LEMMA PeerKeeps == ASSUME IInv, NEW ok \in BOOLEAN, PeerAnswers(ok) PROVE IInv'
<1>1. /\ peer # "none" /\ peer' = "none" /\ Post(<<Reply(ok)>>)
      /\ UNCHANGED <<batch, due, deferred, locked_by, viewing, start, people, handler, service>>
  BY DEF PeerAnswers
<1>2. start.pc \in {"channel", "event", "name"} /\ ~Answered
  BY <1>1 DEF IInv, Base, Waits
<1>3. QueuesIn(Sent)' /\ Kept({EndNotice}) /\ AtMostOnce(flight', Answers) /\ Answered'
  BY <1>1, <1>2, AnswerPosted
<1>4. StateType' /\ Lock'
  BY <1>1 DEF IInv, Base, StateType, Lock, viewing, people, handler, service
<1>5. Waits' /\ Queue'
  BY <1>1, <1>2, <1>3 DEF IInv, Base, Waits, Queue, Tuned, service
<1>6. Holding' /\ Handling'
  BY <1>1, <1>2 DEF IInv, Base, Holding, Handling, Opened, Tuned, viewing, handler, service, Inside, At
<1>7. races' = {} => Sound'
  BY <1>1, <1>3, SoundFrame DEF IInv, viewing, handler, service
<1>8. QED BY <1>3, <1>4, <1>5, <1>6, <1>7 DEF IInv, Base

-----------------------------------------------------------------------------
(* The steps together.                                                      *)
LEMMA InitHolds == ASSUME Init PROVE IInv
<1>1. flight = <<>> /\ QueuesIn(Sent) /\ <<>> \in Backs
  BY ConcatEmptySeq DEF Init, CoseqInit, flight, QueuesIn, Backs
<1>2. InTransit = {} /\ AtMostOnce(flight, Answers) /\ AtMostOnce(flight, {EndNotice})
  BY <1>1 DEF InTransit, AtMostOnce
<1>3. StateType
  <2>1. start \in [pc : StartPcs, u : Users \cup {"nobody"}, tries : 0..EventTries] /\ 0 \in 0..MaxAsks
    BY ViewingAssumption DEF Init, NoStart, StartPcs
  <2>2. h \in [Threads -> [pc : {"out", "call", "work", "noticed"}, case : Progress]] /\ progress \in Progress
    BY DEF Init, Outside, Progress
  <2>3. user \in [Users -> {"none", "start", "stop", "set_option"}] /\ asked \in 0..MaxAsks
    BY <2>1 DEF Init
  <2>4. svcq \in Seq({"open", "tune", "tuning", "tune_stop", "close"}) /\ due = {} /\ locked_by = NoFiber
    BY DEF Init, CoseqInit
  <2>5. /\ used \in BOOLEAN /\ auto \in BOOLEAN /\ child = "none" /\ peer = "none"
        /\ tuner = "free" /\ tuned \in BOOLEAN /\ stream = "off" /\ pat_lost \in BOOLEAN /\ races = {}
    BY DEF Init
  <2>6. QED BY <2>1, <2>2, <2>3, <2>4, <2>5 DEF StateType, NoFiber
<1>4. Lock /\ Waits /\ Queue /\ Holding
  BY <1>1, <1>2
  DEF Init, CoseqInit, Lock, Waits, Queue, Holding, Answered, NoStart, NoFiber, Opened, Tuned
<1>5. Handling /\ Alone
  BY DEF Init, Handling, Alone, Inside, At, Threads, Outside
<1>6. Announcing /\ GoneBack
  BY <1>2, PairOnce DEF Init, Announcing, GoneBack, Announced, Ending, Inside, Threads, Outside
<1>7. QED BY <1>1, <1>3, <1>4, <1>5, <1>6 DEF IInv, Base, Sound

LEMMA SchedulerKeeps == ASSUME IInv, Scheduler PROVE IInv'
<1>1. ~Inside("viewing")
  BY DEF Scheduler, Scheduling
<1>2. CASE \E expired \in SUBSET HasTimer : Turn(expired)
  BY <1>2, TurnStep
<1>3. CASE CheckLoop \/ EventTimer
  BY <1>1, <1>3, CheckLoopKeeps, EventTimerKeeps
<1>4. CASE \E f \in HasTimer : TimerSkipped(f)
  BY <1>4, SkipStep
<1>5. CASE Handle(Head(batch))
  BY <1>1, <1>5, DeferStep, OnStartKeeps, OnStopKeeps, OnSetOptionKeeps, OnNoticeKeeps, OnPatLostKeeps,
     ChannelKeeps, OpenKeeps, TuneKeeps, EventKeeps, NameKeeps DEF Handle
<1>6. QED BY <1>2, <1>3, <1>4, <1>5 DEF Scheduler

LEMMA NextKeeps == ASSUME IInv, [Next]_vars PROVE IInv'
<1>1. CASE \E u \in Users, seq \in {"start", "stop", "set_option"} : Ask(u, seq)
  BY <1>1, AskKeeps
<1>2. CASE Scheduler \/ CallHandler
  BY <1>2, SchedulerKeeps, CallKeeps
<1>3. CASE DataArrives \/ \E t \in Threads : InHandler(t)
  BY <1>3, DataKeeps, NotifyKeeps, LeaveKeeps DEF InHandler
<1>4. CASE ChildDies \/ StreamDries \/ PatLost
  BY <1>4, ChildDiesKeeps, StreamDriesKeeps, PatLostKeeps
<1>5. CASE Service
  BY <1>5, OpensKeeps, TunedKeeps, TunesKeeps, StopsKeeps, ClosesKeeps DEF Service
<1>6. CASE OtherOpens \/ OtherTunes \/ OtherCloses
  BY <1>6, OtherKeeps
<1>7. CASE \E ok \in BOOLEAN : PeerAnswers(ok)
  BY <1>7, PeerKeeps
<1>8. CASE UNCHANGED vars
  BY <1>8, Idle
<1>9. QED BY <1>1, <1>2, <1>3, <1>4, <1>5, <1>6, <1>7, <1>8 DEF Next

(* All of it holds in every behaviour.                                      *)
THEOREM Inductive == Spec => []IInv
<1>1. Init => IInv
  BY InitHolds
<1>2. IInv /\ [Next]_vars => IInv'
  BY NextKeeps
<1>3. QED BY <1>1, <1>2, PTL DEF Spec

-----------------------------------------------------------------------------
(* How many there are of what there is at most one of.                      *)
LEMMA OneAtMost ==
  ASSUME NEW S, \A a, b \in S : a = b
  PROVE  Cardinality(S) \in {0, 1} /\ (S = {} => Cardinality(S) = 0)
<1>1. CASE S = {}
  BY <1>1, FS_EmptySet
<1>2. CASE S # {}
  <2>1. PICK a \in S : S = {a}
    BY <1>2
  <2>2. QED BY <1>2, <2>1, FS_Singleton
<1>3. QED BY <1>1, <1>2

LEMMA CountOnce ==
  ASSUME NEW S, NEW q \in Seq(S), NEW e, AtMostOnce(q, {e})
  PROVE  /\ Count(q, e) \in {0, 1}
         /\ (\A i \in 1..Len(q) : q[i] # e) => Count(q, e) = 0
<1> DEFINE T == {i \in DOMAIN q : q[i] = e}
<1>1. DOMAIN q = 1..Len(q)
  OBVIOUS
<1>2. \A a, b \in T : a = b
  BY <1>1 DEF AtMostOnce
<1>3. (\A i \in 1..Len(q) : q[i] # e) => T = {}
  BY <1>1
<1> HIDE DEF T
<1>4. Cardinality(T) \in {0, 1} /\ (T = {} => Cardinality(T) = 0)
  BY <1>2, OneAtMost
<1>5. Count(q, e) = Cardinality(T)
  BY DEF Count, T
<1>6. QED BY <1>3, <1>4, <1>5

LEMMA NoClose ==
  ASSUME svcq \in {<<>>, <<"open">>, <<"tune">>, <<"tuning">>}
  PROVE  Closes = 0
<1>0. svcq = <<>> \/ \E s \in {"open", "tune", "tuning"} : svcq = <<s>>
  OBVIOUS
<1>1. svcq \in Seq({"open", "tune", "tuning"}) /\ Len(svcq) \in {0, 1}
      /\ \A i \in 1..Len(svcq) : svcq[i] # "close"
  <2>1. CASE svcq = <<>>
    BY <2>1
  <2>2. ASSUME NEW s \in {"open", "tune", "tuning"}, svcq = <<s>>
        PROVE  /\ svcq \in Seq({"open", "tune", "tuning"}) /\ Len(svcq) = 1
               /\ svcq[1] = s /\ s # "close"
    BY <2>2
  <2>3. QED BY <1>0, <2>1, <2>2
<1>2. AtMostOnce(svcq, {"close"})
  BY <1>1 DEF AtMostOnce
<1>3. QED BY <1>1, <1>2, CountOnce DEF Closes

(* A viewing in the table has its tuner, tuned and not about to be closed,  *)
(* and an ffmpeg has its viewing, whatever races on progress_.              *)
THEOREM ViewingHasAll == Spec => []ViewingIsWhole
<1>1. IInv => ViewingIsWhole
  <2>1. SUFFICES ASSUME IInv PROVE ViewingIsWhole
    OBVIOUS
  <2>2. /\ used => tuner = "mine" /\ tuned /\ svcq \in {<<>>, <<"open">>}
        /\ child # "none" => used
    BY <2>1 DEF IInv, Base, Holding
  <2>3. used => Closes = 0
    BY <2>2, NoClose
  <2>4. QED BY <2>2, <2>3 DEF ViewingIsWhole, ViewingHasTuner, ChildHasViewing
<1>2. QED BY <1>1, Inductive, PTL

(* While the fiber holds a tuner, no close waits.                           *)
LEMMA OpenedNoClose ==
  ASSUME IInv, Opened
  PROVE  ~used /\ Closes = 0 /\ (svcq = <<>> \/ Head(svcq) # "tune_stop")
<1>1. ~used
  BY DEF IInv, Base, Holding
<1>2. svcq \in {<<>>, <<"tune">>, <<"tuning">>}
  BY DEF IInv, Base, Queue, Opened, Tuned
<1>3. Head(<<"tune">>) = "tune" /\ Head(<<"tuning">>) = "tuning"
  OBVIOUS
<1>4. QED BY <1>1, <1>2, <1>3, NoClose

(* Each viewing ends once, with its own notice and its own close, and the   *)
(* handler of a tuner that a start has opened is idle, as long as nothing   *)
(* has raced on progress_.                                                  *)
THEOREM EndsOnceWithoutRaces == Spec => []EndIsClean
<1>1. IInv => EndIsClean
  <2>1. SUFFICES ASSUME IInv, races = {} PROVE EndIsClean
    BY DEF EndIsClean, EndsOnce, HandlerReadyUnlessRaced
  <2>2. Sound /\ svcq \in Seq({"open", "tune", "tuning", "tune_stop", "close"})
    BY <2>1 DEF IInv, Base, StateType
  <2>3. HandlerReadyUnlessRaced
    BY <2>1, OpenedNoClose, HandlerIdle DEF HandlerReadyUnlessRaced
  <2>4. Holds + Closes <= 1
    <3>1. Closes \in {0, 1}
      BY <2>2, CountOnce DEF Closes, Sound, GoneBack
    <3>2. Opened => ~used /\ Closes = 0
      BY <2>1, OpenedNoClose
    <3>3. used => Closes = 0
      BY <2>1, NoClose DEF IInv, Base, Holding
    <3>4. CASE Opened
      BY <3>2, <3>4 DEF Holds
    <3>5. CASE ~Opened /\ used
      BY <3>3, <3>5 DEF Holds
    <3>6. CASE ~Opened /\ ~used
      BY <3>1, <3>6 DEF Holds
    <3>7. QED BY <3>4, <3>5, <3>6
  <2>5. Notices <= Holds
    <3> DEFINE T == {t \in Threads : h[t].pc = "work" /\ h[t].case \in Ends}
    <3>1. \A t \in T : Ending(t) /\ At(t) /\ t \in Threads
      BY DEF Ending, At
    <3>2. \A a, b \in T : a = b
      BY <2>2, <3>1 DEF Sound, Alone, Threads
    <3>3. T # {} => used /\ ~Announced
      BY <2>2, <3>1 DEF Sound, Announcing
    <3> HIDE DEF T
    <3>4. Cardinality(T) \in {0, 1} /\ (T = {} => Cardinality(T) = 0)
      BY <3>2, OneAtMost
    <3>5. flight \in Seq(Sent) /\ AtMostOnce(flight, {EndNotice})
      BY <2>1, <2>2, FlightTyped DEF IInv, Base, Sound, Announcing
    <3>6. Count(flight, EndNotice) \in {0, 1} /\ (~Announced => Count(flight, EndNotice) = 0)
      BY <3>5, CountOnce DEF Announced, InTransit
    <3>7. Notices = Count(flight, EndNotice) + Cardinality(T)
      BY DEF Notices, T
    <3>8. Announced => used
      BY <2>2 DEF Sound, Announcing
    <3>9. used => Holds >= 1
      BY <2>1, OpenedNoClose DEF Holds
    <3>10. Holds >= 0
      BY DEF Holds
    <3>11. CASE T # {}
      <4>1. Notices = 0 + Cardinality(T) /\ used
        BY <3>3, <3>6, <3>7, <3>11
      <4>2. QED BY <3>4, <3>9, <4>1 DEF Holds
    <3>12. CASE T = {} /\ used
      BY <3>4, <3>6, <3>7, <3>9, <3>12 DEF Holds
    <3>13. CASE T = {} /\ ~used
      BY <3>4, <3>6, <3>7, <3>8, <3>10, <3>13
    <3>14. QED BY <3>11, <3>12, <3>13
  <2>6. QED BY <2>1, <2>3, <2>4, <2>5 DEF EndIsClean, EndsOnce
<1>2. QED BY <1>1, Inductive, PTL

(* The types of the run's type invariant.                                   *)
THEOREM ViewingTypes == Spec => []TypeOK
<1>1. IInv => TypeOK
  <2>1. Sent \subseteq Event
    <3>1. EndNotice \in [type : {"START"}, seq : {"start", "stop", "set_option", "notice"}, u : Users \cup {"nobody"}]
      BY DEF EndNotice, Request
    <3>2. Answers \subseteq [type : {"REPLY"}, ok : BOOLEAN]
      BY DEF Answers, Reply
    <3>3. QED BY <3>1, <3>2 DEF Sent, Event
  <2>2. \A q : q \in Seq(Sent) => q \in Seq(Event)
    <3>1. ASSUME NEW q \in Seq(Sent)
          PROVE  q \in Seq(Event)
      BY <2>1
    <3>2. QED BY <3>1
  <2>3. QED BY <2>2 DEF IInv, Base, QueuesIn, StateType, TypeOK
<1>2. QED BY <1>1, Inductive, PTL
=============================================================================
