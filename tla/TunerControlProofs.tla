------------------------- MODULE TunerControlProofs -------------------------
(***************************************************************************)
(* For any frequencies, fibers, polls and commands of the console: the     *)
(* state of a tuner has its type, a request to stop does not outlive its   *)
(* fibers, and unless a stream is missed or two callers tune at once, the  *)
(* tuner stays usable (TunerIsUsable).                                     *)
(*                                                                         *)
(* A tune request must not find tune_thread with a stream.  Nothing in     *)
(* on_tune_start looks; what keeps them apart is that the steps of one     *)
(* request of a caller follow each other.  At any time the request of a    *)
(* caller is in one place: an event on its way, an on_tune_stop that       *)
(* waits, or the on_tune_start.  The proof carries that place along for    *)
(* each caller (InOnePlace) with what it tells about its on_tune (Tells),  *)
(* and that only one caller has an on_tune (Alone).                        *)
(***************************************************************************)
EXTENDS TunerControl, CoseqProofs

(* The events the fibers exchange: only callers tune, and tune_start is one *)
(* of on_tune's own requests.                                               *)
GoodEvent ==
  {e \in Event :
     e.type = "START" =>
          /\ e.seq = "tune" => e.from = "caller"
          /\ e.seq = "tune_start" => e.from = "tune"
          /\ e.from = "tune" => e.seq \in {"tune_stop", "tune_start"}
          /\ e.from = "send" => e.seq = "tune_stop"}

StartRec == [pc : {"none", "request", "timer"}, c : Callers,
             freq : Freqs \cup {NoFreq}, polls : 0..StartPolls]
StopRec  == [pc : {"none", "wait"}, from : Froms, c : Callers, half : BOOLEAN]
TuneRec  == [pc : {"none", "stop", "start"}, freq : Freqs \cup {NoFreq}]

Locals ==
  /\ locked_by \in {"start", NoFiber}
  /\ freq \in Freqs \cup {NoFreq}
  /\ state \in {"tuning_begin", "tuning_success", "tuning_error_stop", "tune_stop"}
  /\ is_req_stop \in BOOLEAN
  /\ tune \in [Callers -> TuneRec]
  /\ start \in StartRec
  /\ stop \in [StopFibers -> StopRec]
  /\ tt \in Running \cup {"closed", "tune_ended"}
  /\ stream \in Freqs \cup {NoFreq}
  /\ ttq \in Seq({"tune", "force_kill"})
  /\ asks \in [Callers -> {"none", "tune", "tune_stop"}]
  /\ svc \in {"down", "up", "unsure"}
  /\ raced \in BOOLEAN

Queues == QueuesIn(GoodEvent) /\ due \subseteq HasTimer

(* What holds whatever the callers do.                                      *)
Base == Locals /\ Queues /\ NoStaleStop

(* Where the request of a caller can be.                                    *)
Of(c) == {e \in GoodEvent :
            \/ e.type = "START" /\ e.c = c /\ e.from \in {"caller", "tune"}
            \/ e.type = "REPLY" /\ e.to = c}
StopsFor(s, c) == stop[s].pc = "wait" /\ stop[s].from \in {"caller", "tune"} /\ stop[s].c = c
StartsFor(c) == start.pc # "none" /\ start.c = c

ToStart == {e \in GoodEvent : e.type = "REPLY" /\ e.to = "start"}
TuneWaits == \E i \in 1..Len(ttq) : ttq[i] = "tune"

InOnePlace(c) ==
  /\ AtMostOnce(flight, Of(c))
  /\ \A s, u \in StopFibers : StopsFor(s, c) /\ StopsFor(u, c) => s = u
  /\ InTransit \cap Of(c) # {} => ~StartsFor(c) /\ \A s \in StopFibers : ~StopsFor(s, c)
  /\ StartsFor(c) => \A s \in StopFibers : ~StopsFor(s, c)

(* So is the request of on_tune_start to tune_thread.                       *)
ThreadInOnePlace ==
  /\ AtMostOnce(flight, ToStart)
  /\ AtMostOnce(ttq, {"tune"})
  /\ TuneWaits => start.pc = "request" /\ InTransit \cap ToStart = {}
  /\ InTransit \cap ToStart # {} => start.pc = "request"

ThreadIsFree == tt \notin Running

(* What the caller's on_tune is at while event e is on its way.             *)
Tells(c, e) ==
  LET pc == tune[c].pc
  IN /\ e.type = "START" /\ e.from = "caller" => pc = "none" /\ (e.seq = "tune" => asks[c] = "tune")
     /\ e.type = "START" /\ e.from = "tune" /\ e.seq = "tune_stop" => pc = "stop"
     /\ e.type = "START" /\ e.seq = "tune_start" => pc = "start" /\ ThreadIsFree
     /\ e.type = "REPLY" => pc # "none" /\ (e.ok /\ pc = "stop" => ThreadIsFree)

Follows(c) ==
  /\ \A e \in InTransit \cap Of(c) : Tells(c, e)
  /\ \A s \in StopFibers :
       StopsFor(s, c) => tune[c].pc = IF stop[s].from = "tune" THEN "stop" ELSE "none"
  /\ StartsFor(c) => tune[c].pc = "start"
  /\ tune[c].pc # "none" => asks[c] = "tune"
  /\ asks[c] = "none" =>
       /\ InTransit \cap Of(c) = {}
       /\ \A s \in StopFibers : ~StopsFor(s, c)

Place(c) == InOnePlace(c) /\ Follows(c)

Alone == \A c, d \in Callers : asks[c] = "tune" /\ asks[d] = "tune" => c = d

Sound ==
  /\ \A c \in Callers : Place(c)
  /\ ThreadInOnePlace
  /\ TuneWaits => ThreadIsFree
  /\ Alone

IInv == Base /\ (~raced => Sound)

LEMMA LocalsAreTyped == Base => TypeOK
<1>1. SUFFICES ASSUME Base PROVE TypeOK
  OBVIOUS
<1>2. Seq(GoodEvent) \subseteq Seq(Event)
  BY DEF GoodEvent
<1>3. QED BY <1>1, <1>2 DEF TypeOK, Base, Locals, Queues, QueuesIn, HasTimer, StartRec, StopRec, TuneRec

-----------------------------------------------------------------------------
(* Of the events of M, none is new and at most one is left.                 *)
Keeps(M) == InTransit' \cap M \subseteq InTransit /\ AtMostOnce(flight', M)

(* A step that leaves a caller's request where it is.                       *)
SameStop(s) == stop'[s].pc = stop[s].pc /\ stop'[s].from = stop[s].from /\ stop'[s].c = stop[s].c

Untouched(c) ==
  /\ Keeps(Of(c))
  /\ tune'[c] = tune[c] /\ asks'[c] = asks[c]
  /\ StartsFor(c)' <=> StartsFor(c)
  /\ \A s \in StopFibers : SameStop(s) \/ (~StopsFor(s, c) /\ ~StopsFor(s, c)')

LEMMA UntouchedStays ==
  ASSUME NEW c \in Callers, Place(c), Untouched(c),
         ThreadIsFree => ThreadIsFree' \/ tune[c].pc = "none"
  PROVE  Place(c)'
<1>1. \A s \in StopFibers : /\ StopsFor(s, c)' <=> StopsFor(s, c)
                            /\ StopsFor(s, c) => stop'[s].from = stop[s].from
  BY DEF StopsFor, Untouched, SameStop
<1>2. InOnePlace(c)'
  BY <1>1 DEF Place, InOnePlace, Untouched, Keeps
<1>3. \A e \in InTransit' \cap Of(c) : Tells(c, e)'
  BY DEF Place, Follows, Tells, Untouched, Keeps
<1>4. Follows(c)'
  BY <1>1, <1>3 DEF Place, Follows, Untouched, Keeps, Of
<1>5. QED BY <1>2, <1>4 DEF Place

(* A step that ends it, and one after which it is the event x.              *)
LEMMA DonePlace ==
  ASSUME NEW c \in Callers, InTransit' \cap Of(c) = {}, tune'[c].pc = "none", ~StartsFor(c)',
         \A s \in StopFibers : ~StopsFor(s, c)'
  PROVE  Place(c)'
<1>1. AtMostOnce(flight', Of(c))
  BY DEF InTransit, AtMostOnce
<1>2. QED BY <1>1 DEF Place, InOnePlace, Follows, Of

LEMMA MovedPlace ==
  ASSUME NEW c \in Callers, NEW x, InTransit' \cap Of(c) \subseteq {x}, AtMostOnce(flight', Of(c)),
         Tells(c, x)', asks'[c] # "none", tune'[c].pc # "none" => asks'[c] = "tune", ~StartsFor(c)',
         \A s \in StopFibers : ~StopsFor(s, c)'
  PROVE  Place(c)'
BY DEF Place, InOnePlace, Follows, Of

(* on_tune_start and its request to the thread left alone.                  *)
LEMMA ThreadStays ==
  ASSUME ThreadInOnePlace, Keeps(ToStart), start' = start, ttq' = ttq
  PROVE  ThreadInOnePlace' /\ (TuneWaits' <=> TuneWaits)
BY DEF ThreadInOnePlace, Keeps, TuneWaits, ToStart

(* Of a step at most one caller's request is moved.                         *)
LEMMA SoundStays ==
  ASSUME Sound, NEW c \in Callers, Place(c)', \A d \in Callers \ {c} : Untouched(d),
         ThreadIsFree => ThreadIsFree' \/ \A d \in Callers \ {c} : tune[d].pc = "none",
         ThreadInOnePlace', TuneWaits' => ThreadIsFree',
         asks'[c] = "tune" => asks[c] = "tune"
  PROVE  Sound'
<1>1. ASSUME NEW d \in Callers \ {c} PROVE Place(d)'
  BY <1>1, UntouchedStays DEF Sound
<1>2. Alone'
  BY DEF Sound, Alone, Untouched
<1>3. QED BY <1>1, <1>2 DEF Sound

LEMMA SoundUntouched ==
  ASSUME Sound, \A d \in Callers : Untouched(d), ThreadIsFree => ThreadIsFree',
         ThreadInOnePlace', TuneWaits' => TuneWaits
  PROVE  Sound'
<1>1. ASSUME NEW d \in Callers PROVE Place(d)'
  BY <1>1, UntouchedStays DEF Sound
<1>2. Alone'
  BY DEF Sound, Alone, Untouched
<1>3. QED BY <1>1, <1>2 DEF Sound

(* What is left in flight when e was taken and n posted.                    *)
LEMMA AfterTake ==
  ASSUME ThreadInOnePlace, NEW c \in Callers, Place(c), NEW e, NEW n, TransitAfter(e, n)
  PROVE  /\ e \in InTransit
         /\ InTransit' \subseteq InTransit \cup n
         /\ e \in Of(c) /\ n \cap Of(c) = {} => InTransit' \cap Of(c) = {}
         /\ e \in Of(c) => AtMostOnce(flight', Of(c)) /\ InTransit' \cap Of(c) \subseteq n
         /\ n \cap Of(c) = {} => Keeps(Of(c))
         /\ n \cap ToStart = {} => Keeps(ToStart)
         /\ n \cap ToStart = {} /\ e \in ToStart => InTransit' \cap ToStart = {}
<1>1. AtMostOnce(flight, Of(c)) /\ AtMostOnce(flight, ToStart)
  BY DEF Place, InOnePlace, ThreadInOnePlace
<1>2. e \in InTransit /\ InTransit' \subseteq InTransit \cup n
  BY DEF TransitAfter
<1>3. /\ e \in Of(c) => InTransit' \cap Of(c) \subseteq n
      /\ (n \cap Of(c) = {} \/ e \in Of(c)) => AtMostOnce(flight', Of(c))
  BY <1>1 DEF TransitAfter
<1>4. /\ e \in ToStart => InTransit' \cap ToStart \subseteq n
      /\ n \cap ToStart = {} => AtMostOnce(flight', ToStart)
  BY <1>1 DEF TransitAfter
<1>5. QED BY <1>1, <1>2, <1>3, <1>4 DEF Keeps

LEMMA FlightKept ==
  ASSUME Sound, flight' = flight
  PROVE  Keeps(ToStart) /\ \A c \in Callers : Keeps(Of(c))
BY DEF Sound, Place, InOnePlace, ThreadInOnePlace, Keeps, InTransit

(* The turns of the scheduler, and steps that only move timers.             *)
LEMMA SchedulerStep ==
  ASSUME IInv, flight' = flight, QueuesIn(GoodEvent)', due' \subseteq HasTimer, locked_by' = locked_by,
         UNCHANGED <<control, fibers, thread, world>>
  PROVE  IInv'
<1>1. Base'
  BY DEF IInv, Base, Locals, Queues, NoStaleStop, HasTimer, control, fibers, thread, world
<1>2. ASSUME ~raced' PROVE Sound'
  <2>1. Sound
    BY <1>2 DEF IInv, control
  <2>2. \A c \in Callers : Untouched(c)
    BY <2>1, FlightKept DEF Untouched, SameStop, StartsFor, fibers, world
  <2>3. ThreadInOnePlace' /\ (TuneWaits' <=> TuneWaits)
    BY <2>1, FlightKept, ThreadStays DEF Sound, fibers, thread
  <2>4. ThreadIsFree => ThreadIsFree'
    BY DEF ThreadIsFree, thread
  <2>5. QED BY <2>1, <2>2, <2>3, <2>4, SoundUntouched
<1>3. QED BY <1>1, <1>2 DEF IInv

LEMMA TurnStep ==
  ASSUME IInv, NEW expired \in SUBSET HasTimer, Turn(expired)
  PROVE  IInv'
<1>1. BeginTurn(expired) /\ UNCHANGED <<control, fibers, thread, world>>
  BY DEF Turn
<1>2. QueuesIn(GoodEvent)' /\ flight' = flight
  BY <1>1, TurnKeeps DEF IInv, Base, Queues
<1>3. due' = expired /\ locked_by' = locked_by
  BY <1>1 DEF BeginTurn
<1>4. QED BY <1>1, <1>2, <1>3, SchedulerStep

LEMMA DeferStep ==
  ASSUME IInv, NEW e, DeferEvent(e)
  PROVE  IInv'
<1>1. Defer(e, Owner(e)) /\ UNCHANGED <<control, fibers, thread, world>>
  BY DEF DeferEvent
<1>2. QueuesIn(GoodEvent)' /\ flight' = flight
  BY <1>1, DeferKeeps DEF IInv, Base, Queues
<1>3. due' \subseteq HasTimer /\ locked_by' = locked_by
  BY <1>1 DEF Defer, IInv, Base, Queues
<1>4. QED BY <1>1, <1>2, <1>3, SchedulerStep

LEMMA TimerSkippedStep ==
  ASSUME IInv, NEW s \in StopFibers, TimerSkipped(s)
  PROVE  IInv'
<1>1. /\ due' = due \ {s} /\ UNCHANGED <<inbox, batch, deferred, locked_by>>
      /\ UNCHANGED <<control, fibers, thread, world>>
  BY DEF TimerSkipped, SkipTimer
<1>2. QueuesIn(GoodEvent)' /\ flight' = flight /\ due' \subseteq HasTimer
  BY <1>1 DEF IInv, Base, Queues, QueuesIn, flight
<1>3. QED BY <1>1, <1>2, SchedulerStep

-----------------------------------------------------------------------------
(* tune_thread.                                                             *)
LEMMA ThreadGoesStep ==
  ASSUME IInv, FirstData \/ StreamEnds \/ StopSeen \/ ThreadCloses
  PROVE  IInv'
<1>1. /\ tt' \in Running \cup {"closed", "tune_ended"} /\ (tt' \in Running => tt \in Running)
      /\ UNCHANGED <<inbox, batch, due, deferred, locked_by, control, fibers, stream, ttq, world>>
  BY TunerControlAssumption DEF FirstData, StreamEnds, StopSeen, ThreadCloses, ThreadGoes, Running
<1>2. QueuesIn(GoodEvent)' /\ flight' = flight
  BY <1>1 DEF IInv, Base, Queues, QueuesIn, flight
<1>3. Base'
  BY <1>1, <1>2 DEF IInv, Base, Queues, HasTimer, Locals, NoStaleStop, control, fibers, world
<1>4. ASSUME ~raced' PROVE Sound'
  <2>1. Sound
    BY <1>1, <1>4 DEF IInv, control
  <2>2. \A c \in Callers : Untouched(c)
    BY <1>1, <1>2, <2>1, FlightKept DEF Untouched, SameStop, StartsFor, fibers, world
  <2>3. ThreadInOnePlace' /\ (TuneWaits' <=> TuneWaits)
    BY <1>1, <1>2, <2>1, FlightKept, ThreadStays DEF Sound, fibers
  <2>4. ThreadIsFree => ThreadIsFree'
    BY <1>1 DEF ThreadIsFree
  <2>5. QED BY <2>1, <2>2, <2>3, <2>4, SoundUntouched
<1>5. QED BY <1>3, <1>4 DEF IInv

(* Taking the first of the requests at the thread.                          *)
LEMMA TtqTail ==
  ASSUME Base, NEW request, Idle(request)
  PROVE  /\ ttq' \in Seq({"tune", "force_kill"})
         /\ AtMostOnce(ttq, {"tune"}) =>
              /\ AtMostOnce(ttq', {"tune"})
              /\ TuneWaits' => TuneWaits
              /\ request = "tune" => TuneWaits /\ ~TuneWaits'
<1>1. /\ ttq \in Seq({"tune", "force_kill"}) /\ ttq # <<>> /\ Head(ttq) = request
      /\ ttq' = Tail(ttq)
  BY DEF Base, Locals, Idle
<1>2. /\ ttq' \in Seq({"tune", "force_kill"}) /\ Len(ttq) \in Nat \ {0} /\ Len(ttq') = Len(ttq) - 1
      /\ \A i \in 1..Len(ttq') : ttq'[i] = ttq[i + 1] /\ i + 1 \in 1..Len(ttq)
      /\ ttq[1] = request
  BY <1>1, HeadTailProperties, EmptySeq
<1>3. SUFFICES ASSUME AtMostOnce(ttq, {"tune"})
               PROVE  /\ AtMostOnce(ttq', {"tune"})
                      /\ TuneWaits' => TuneWaits
                      /\ request = "tune" => TuneWaits /\ ~TuneWaits'
  BY <1>2
<1>4. AtMostOnce(ttq', {"tune"})
  BY <1>2, <1>3 DEF AtMostOnce
<1>5. TuneWaits' => TuneWaits
  BY <1>2 DEF TuneWaits
<1>6. request = "tune" => TuneWaits /\ ~TuneWaits'
  BY <1>2, <1>3 DEF TuneWaits, AtMostOnce
<1>7. QED BY <1>4, <1>5, <1>6

LEMMA ThreadKillsStep ==
  ASSUME IInv, ThreadKills
  PROVE  IInv'
<1>1. /\ Idle("force_kill")
      /\ UNCHANGED <<inbox, batch, due, deferred, locked_by, control, fibers, tt, stream, world>>
  BY DEF ThreadKills
<1>2. ttq' \in Seq({"tune", "force_kill"})
  BY <1>1, TtqTail DEF IInv
<1>3. QueuesIn(GoodEvent)' /\ flight' = flight
  BY <1>1 DEF IInv, Base, Queues, QueuesIn, flight
<1>4. Base'
  BY <1>1, <1>2, <1>3 DEF IInv, Base, Queues, HasTimer, Locals, NoStaleStop, control, fibers, world
<1>5. ASSUME ~raced' PROVE Sound'
  <2>1. Sound
    BY <1>1, <1>5 DEF IInv, control
  <2>2. \A c \in Callers : Untouched(c)
    BY <1>1, <1>3, <2>1, FlightKept DEF Untouched, SameStop, StartsFor, fibers, world
  <2>3. AtMostOnce(ttq', {"tune"}) /\ (TuneWaits' => TuneWaits)
    BY <1>1, <2>1, TtqTail DEF IInv, Sound, ThreadInOnePlace
  <2>4. ThreadInOnePlace'
    BY <1>1, <1>3, <2>1, <2>3, FlightKept DEF Sound, ThreadInOnePlace, Keeps, fibers
  <2>5. ThreadIsFree => ThreadIsFree'
    BY <1>1 DEF ThreadIsFree
  <2>6. QED BY <2>1, <2>2, <2>3, <2>4, <2>5, SoundUntouched
<1>6. QED BY <1>4, <1>5 DEF IInv

LEMMA ReplyIsGood ==
  ASSUME NEW to \in Callers \cup {"start"}, NEW ok \in BOOLEAN
  PROVE  /\ Reply(to, ok) \in GoodEvent
         /\ to = "start" => Reply(to, ok) \in ToStart
         /\ to # "start" => Reply(to, ok) \notin ToStart
         /\ \A c \in Callers : Reply(to, ok) \in Of(c) <=> to = c
BY DEF Reply, GoodEvent, Event, Callers, ToStart, Of

(* When the thread takes a tune request, on_tune_start has the request of   *)
(* the one caller that tunes: nothing else depends on the thread being free.*)
LEMMA ThreadTunesStep ==
  ASSUME IInv, NEW ok \in BOOLEAN, ThreadTunes(ok)
  PROVE  IInv'
<1> DEFINE n == Reply("start", ok)
<1>1. /\ Idle("tune") /\ tt' = (IF ok THEN "tune_begined" ELSE tt)
      /\ stream' = (IF ok THEN start.freq ELSE stream)
      /\ Post(<<n>>)
      /\ UNCHANGED <<batch, due, deferred, locked_by, control, fibers, world>>
  BY DEF ThreadTunes
<1>2. n \in GoodEvent /\ n \in ToStart /\ \A c \in Callers : n \notin Of(c)
  BY ReplyIsGood, TunerControlAssumption DEF Callers
<1> HIDE DEF n
<1>3. QueuesIn(GoodEvent)' /\ TransitWith({n})
  BY <1>1, <1>2, PostTransits DEF IInv, Base, Queues
<1>4. ttq' \in Seq({"tune", "force_kill"})
  BY <1>1, TtqTail DEF IInv
<1>5. Base'
  BY <1>1, <1>3, <1>4 DEF IInv, Base, Queues, HasTimer, Locals, NoStaleStop, control, fibers, world,
                          StartRec, Running
<1>6. ASSUME ~raced' PROVE Sound'
  <2>1. Sound
    BY <1>1, <1>6 DEF IInv, control
  <2>2. TuneWaits /\ ~TuneWaits' /\ AtMostOnce(ttq', {"tune"})
    BY <1>1, <2>1, TtqTail DEF IInv, Sound, ThreadInOnePlace
  <2>3. start.pc = "request" /\ InTransit \cap ToStart = {} /\ AtMostOnce(flight, ToStart)
    BY <2>1, <2>2 DEF Sound, ThreadInOnePlace
  <2>4. PICK c \in Callers : c = start.c
    BY DEF IInv, Base, Locals, StartRec
  <2>5. StartsFor(c) /\ asks[c] = "tune" /\ tune[c].pc = "start"
    BY <2>1, <2>3, <2>4 DEF StartsFor, Sound, Place, Follows
  <2>6. ASSUME NEW d \in Callers PROVE Untouched(d)
    <3>1. Keeps(Of(d))
      BY <1>2, <1>3, <2>1 DEF TransitWith, Keeps, Sound, Place, InOnePlace
    <3>2. QED BY <1>1, <3>1 DEF Untouched, SameStop, StartsFor, fibers, world
  <2>7. \A d \in Callers \ {c} : tune[d].pc = "none"
    BY <2>1, <2>5 DEF Sound, Place, Follows, Alone
  <2>8. Place(c)'
    <3>1. InTransit \cap Of(c) = {} /\ \A s \in StopFibers : ~StopsFor(s, c)
      BY <2>1, <2>5 DEF Sound, Place, InOnePlace
    <3>2. InTransit' \cap Of(c) = {}
      BY <2>6, <3>1 DEF Untouched, Keeps
    <3>3. QED BY <1>1, <2>1, <2>5, <2>6, <3>1, <3>2
              DEF Sound, Place, InOnePlace, Follows, Untouched, Keeps, StopsFor, StartsFor, Of, fibers, world
  <2>9. ThreadInOnePlace'
    <3>1. AtMostOnce(flight', ToStart)
      BY <1>3, <2>3 DEF TransitWith
    <3>2. QED BY <1>1, <2>2, <2>3, <3>1 DEF ThreadInOnePlace, fibers
  <2>10. asks' = asks
    BY <1>1 DEF world
  <2>11. QED BY <2>1, <2>2, <2>6, <2>7, <2>8, <2>9, <2>10, SoundStays
<1>7. QED BY <1>5, <1>6 DEF IInv

-----------------------------------------------------------------------------
(* Answer.                                                                  *)
Answered(x, ok) == IF x.from = "tune" THEN {Reply(x.c, ok)} ELSE {}

LEMMA AnswerDoes ==
  ASSUME Locals, NEW x, NEW ok \in BOOLEAN, Answer(x, ok), x.from \in Froms, x.c \in Callers
  PROVE  /\ asks' \in [Callers -> {"none", "tune", "tune_stop"}]
         /\ svc' \in {"down", "up", "unsure"}
         /\ x.from # "caller" => asks' = asks
         /\ \A d \in Callers \ {x.c} : asks'[d] = asks[d]
         /\ asks'[x.c] = "tune" => asks[x.c] = "tune"
         /\ x.from = "tune" => Post(<<Reply(x.c, ok)>>)
         /\ x.from # "tune" => inbox' = inbox
<1>1. CASE x.from = "caller"
  <2>1. Told(x.c, ok) /\ UNCHANGED inbox
    BY <1>1 DEF Answer
  <2>2. svc' \in {"down", "up", "unsure"}
    <3>1. Heard(ok) \in {"down", "up", "unsure"}
      BY DEF Heard
    <3>2. QED BY <2>1, <3>1 DEF Told, Locals
  <2>3. QED BY <1>1, <2>1, <2>2 DEF Told, Locals
<1>2. CASE x.from = "tune"
  <2>1. Post(<<Reply(x.c, ok)>>) /\ UNCHANGED world
    BY <1>2 DEF Answer
  <2>2. QED BY <1>2, <2>1 DEF Locals, world
<1>3. CASE x.from = "send"
  <2>1. UNCHANGED <<inbox, world>>
    BY <1>3 DEF Answer
  <2>2. QED BY <1>3, <2>1 DEF Locals, world
<1>4. QED BY <1>1, <1>2, <1>3 DEF Froms

(* An answer from the event pass, and one from the timer pass.              *)
LEMMA AnswerTakes ==
  ASSUME Base, NEW e, NEW o, Take(e, o), NEW ok \in BOOLEAN, Answer(e, ok),
         e.from \in Froms, e.c \in Callers
  PROVE  QueuesIn(GoodEvent)' /\ TransitAfter(e, Answered(e, ok)) /\ due = {} /\ due' = {}
<1>1. QueuesIn(GoodEvent) /\ Locals
  BY DEF Base, Queues
<1>2. CASE e.from = "tune"
  <2>1. Post(<<Reply(e.c, ok)>>) /\ Reply(e.c, ok) \in GoodEvent
    BY <1>1, <1>2, AnswerDoes, ReplyIsGood
  <2>2. QED BY <1>1, <1>2, <2>1, TakePostTransits DEF Answered
<1>3. CASE e.from # "tune"
  <2>1. inbox' = inbox
    BY <1>1, <1>3, AnswerDoes
  <2>2. QED BY <1>1, <1>3, <2>1, TakeTransits DEF Answered
<1>4. QED BY <1>2, <1>3

LEMMA AnswerSends ==
  ASSUME Base, NEW x, NEW ok \in BOOLEAN, Answer(x, ok), UNCHANGED <<batch, deferred>>,
         x.from \in Froms, x.c \in Callers
  PROVE  QueuesIn(GoodEvent)' /\ TransitWith(Answered(x, ok))
<1>1. QueuesIn(GoodEvent) /\ Locals
  BY DEF Base, Queues
<1>2. CASE x.from = "tune"
  <2>1. Post(<<Reply(x.c, ok)>>) /\ Reply(x.c, ok) \in GoodEvent
    BY <1>1, <1>2, AnswerDoes, ReplyIsGood
  <2>2. QED BY <1>1, <1>2, <2>1, PostTransits DEF Answered
<1>3. CASE x.from # "tune"
  <2>1. inbox' = inbox
    BY <1>1, <1>3, AnswerDoes
  <2>2. flight' = flight /\ QueuesIn(GoodEvent)'
    BY <1>1, <2>1 DEF flight, QueuesIn
  <2>3. QED BY <1>3, <2>2 DEF Answered, TransitWith, InTransit
<1>4. QED BY <1>2, <1>3

(* It is an event of the caller it is for.                                  *)
LEMMA AnsweredIs ==
  ASSUME NEW x, NEW ok \in BOOLEAN, x.c \in Callers
  PROVE  /\ Answered(x, ok) \cap ToStart = {}
         /\ \A d \in Callers \ {x.c} : Answered(x, ok) \cap Of(d) = {}
         /\ x.from # "tune" => Answered(x, ok) = {}
<1>1. x.c # "start"
  BY DEF Callers
<1>2. Reply(x.c, ok) \notin ToStart /\ \A d \in Callers : Reply(x.c, ok) \in Of(d) <=> x.c = d
  BY <1>1, ReplyIsGood
<1>3. QED BY <1>2 DEF Answered

(* The answer to a caller ends its request, the one to on_tune moves it on. *)
LEMMA CallerAnswered ==
  ASSUME NEW x, NEW ok \in BOOLEAN, NEW c \in Callers, x.c = c, Place(c),
         x.from \in {"caller", "tune"},
         InTransit' \cap Of(c) \subseteq Answered(x, ok), AtMostOnce(flight', Of(c)),
         tune' = tune, start' = start, ~StartsFor(c),
         tune[c].pc = (IF x.from = "tune" THEN "stop" ELSE "none"),
         x.from = "tune" => asks' = asks, ok => ThreadIsFree',
         \A s \in StopFibers : ~StopsFor(s, c)'
  PROVE  Place(c)'
<1>1. ~StartsFor(c)'
  BY DEF StartsFor
<1>2. CASE x.from = "caller"
  <2>1. InTransit' \cap Of(c) = {}
    BY <1>2 DEF Answered
  <2>2. QED BY <1>1, <1>2, <2>1, DonePlace
<1>3. CASE x.from = "tune"
  <2> DEFINE n == Reply(c, ok)
  <2>1. InTransit' \cap Of(c) \subseteq {n}
    BY <1>3 DEF Answered
  <2>2. asks'[c] = "tune"
    BY <1>3 DEF Place, Follows
  <2>3. Tells(c, n)'
    BY <1>3 DEF Tells, Reply
  <2> HIDE DEF n
  <2>4. QED BY <1>1, <2>1, <2>2, <2>3, MovedPlace
<1>4. QED BY <1>2, <1>3

(* What an event in the batch says.                                         *)
LEMMA StartFields ==
  ASSUME NEW e \in GoodEvent, e.type = "START"
  PROVE  /\ e.from \in Froms /\ e.c \in Callers /\ e.freq \in Freqs \cup {NoFreq}
         /\ e.seq \in {"tune", "tune_start", "tune_stop"}
         /\ e.from = "tune" => e.seq \in {"tune_start", "tune_stop"}
         /\ e.seq = "tune_start" => e.from = "tune"
         /\ e.seq = "tune" => e.from = "caller"
         /\ e.from = "send" => e.seq = "tune_stop"
         /\ e \notin ToStart
         /\ \A c \in Callers : e \in Of(c) <=> e.c = c /\ e.from \in {"caller", "tune"}
BY DEF GoodEvent, Event, ToStart, Of

(* The event of a caller's request: nothing else is on the way for it, and  *)
(* it tells where its on_tune is.                                           *)
LEMMA CallerEvent ==
  ASSUME Sound, NEW c \in Callers, NEW e \in InTransit, e \in Of(c)
  PROVE  /\ ~StartsFor(c) /\ \A s \in StopFibers : ~StopsFor(s, c)
         /\ Tells(c, e) /\ asks[c] # "none" /\ Place(c)
BY DEF Sound, Place, InOnePlace, Follows

(* A handler that takes an event of c's and posts only events of c's leaves *)
(* the others alone.                                                        *)
LEMMA OthersUntouched ==
  ASSUME Sound, NEW c \in Callers, NEW e, NEW n, TransitAfter(e, n),
         \A d \in Callers \ {c} : /\ n \cap Of(d) = {}
                                  /\ tune'[d] = tune[d] /\ asks'[d] = asks[d]
                                  /\ StartsFor(d)' <=> StartsFor(d),
         stop' = stop
  PROVE  \A d \in Callers \ {c} : Untouched(d)
<1>1. ASSUME NEW d \in Callers \ {c} PROVE Keeps(Of(d))
  BY AfterTake DEF Sound
<1>2. QED BY <1>1 DEF Untouched, SameStop

(* The events on_tune sends to its own module.                              *)
LEMMA StartIsGood ==
  ASSUME NEW c \in Callers, NEW f \in Freqs \cup {NoFreq}
  PROVE  /\ Start("tune_stop", "tune", c, NoFreq) \in GoodEvent \ ToStart
         /\ Start("tune_start", "tune", c, f) \in GoodEvent \ ToStart
         /\ Start("tune_stop", "send", c, NoFreq) \in GoodEvent \ ToStart
         /\ \A d \in Callers :
              /\ d # c => Start("tune_stop", "tune", c, NoFreq) \notin Of(d)
              /\ d # c => Start("tune_start", "tune", c, f) \notin Of(d)
              /\ Start("tune_stop", "send", c, NoFreq) \notin Of(d)
BY DEF Start, GoodEvent, Event, Froms, ToStart, Of

LEMMA TunePcTyped ==
  ASSUME Locals, NEW c \in Callers, NEW pc \in {"none", "stop", "start"}, NEW f \in Freqs \cup {NoFreq}
  PROVE  /\ [tune EXCEPT ![c] = [pc |-> pc, freq |-> f]] \in [Callers -> TuneRec]
         /\ [tune EXCEPT ![c].pc = pc] \in [Callers -> TuneRec]
BY DEF Locals, TuneRec

(* on_tune goes on with an event of its own.                                *)
LEMMA OnTuneGoes ==
  ASSUME Sound, Base, NEW c \in Callers, NEW e \in Of(c), NEW n, TransitAfter(e, {n}),
         n \notin ToStart, \A d \in Callers \ {c} : n \notin Of(d),
         tune' = [tune EXCEPT ![c] = tune'[c]], tune'[c].pc # "none", asks[c] = "tune", Tells(c, n)',
         UNCHANGED <<start, stop, asks, ttq, tt>>
  PROVE  Sound'
<1>1. e \in InTransit /\ AtMostOnce(flight', Of(c)) /\ InTransit' \cap Of(c) \subseteq {n} /\ Keeps(ToStart)
  BY AfterTake DEF Sound
<1>2. ~StartsFor(c) /\ \A s \in StopFibers : ~StopsFor(s, c)
  BY <1>1, CallerEvent
<1>3. Place(c)'
  BY <1>1, <1>2, MovedPlace DEF StopsFor, StartsFor
<1>4. \A d \in Callers \ {c} : tune'[d] = tune[d]
  BY DEF Base, Locals
<1>5. \A d \in Callers \ {c} : Untouched(d)
  BY <1>4, OthersUntouched DEF StartsFor
<1>6. ThreadInOnePlace' /\ (TuneWaits' => TuneWaits) /\ (ThreadIsFree <=> ThreadIsFree')
  BY <1>1, ThreadStays DEF Sound, ThreadIsFree
<1>7. QED BY <1>3, <1>5, <1>6, SoundStays DEF Sound

(* on_tune ends.                                                            *)
LEMMA OnTuneDone ==
  ASSUME Sound, Base, NEW c \in Callers, NEW e \in Of(c), NEW n, TransitAfter(e, n),
         n \cap ToStart = {}, \A d \in Callers : n \cap Of(d) = {},
         \A d \in Callers \ {c} : tune'[d] = tune[d] /\ asks'[d] = asks[d],
         tune'[c].pc = "none", asks'[c] = "tune" => asks[c] = "tune",
         UNCHANGED <<start, stop, ttq, tt>>
  PROVE  Sound'
<1>1. e \in InTransit /\ InTransit' \cap Of(c) = {} /\ Keeps(ToStart)
  BY AfterTake DEF Sound
<1>2. ~StartsFor(c) /\ \A s \in StopFibers : ~StopsFor(s, c)
  BY <1>1, CallerEvent
<1>3. Place(c)'
  BY <1>1, <1>2, DonePlace DEF StopsFor, StartsFor
<1>4. \A d \in Callers \ {c} : Untouched(d)
  BY OthersUntouched DEF StartsFor
<1>5. ThreadInOnePlace' /\ (TuneWaits' => TuneWaits) /\ (ThreadIsFree <=> ThreadIsFree')
  BY <1>1, ThreadStays DEF Sound, ThreadIsFree
<1>6. QED BY <1>3, <1>4, <1>5, SoundStays DEF Sound

LEMMA OnTuneStep ==
  ASSUME IInv, NEW e, OnTune(e)
  PROVE  IInv'
<1>1. /\ Take(e, NoFiber) /\ e.type = "START" /\ e.seq = "tune"
      /\ UNCHANGED <<locked_by, control, start, stop, thread>>
  BY DEF OnTune, Starts, Starting
<1>2. e \in GoodEvent
  BY <1>1, TakeRemoves DEF IInv, Base, Queues
<1>c. PICK c \in Callers : c = e.c
  BY <1>1, <1>2, StartFields
<1>3. e.from = "caller" /\ e \in Of(c) /\ e.freq \in Freqs \cup {NoFreq}
  BY <1>1, <1>2, <1>c, StartFields
<1>4. UNCHANGED <<ttq, tt, raced>>
  BY <1>1 DEF thread, control
<1>5. CASE freq = e.freq
  <2>1. Answer(e, TRUE) /\ tune' = tune
    BY <1>5 DEF OnTune
  <2>2. e.from \in Froms /\ e.c \in Callers
    BY <1>3, <1>c DEF Froms
  <2>3. QueuesIn(GoodEvent)' /\ TransitAfter(e, {}) /\ due' = {}
    BY <1>1, <1>3, <2>1, <2>2, AnswerTakes DEF Answered, IInv
  <2>4. /\ asks' \in [Callers -> {"none", "tune", "tune_stop"}]
        /\ svc' \in {"down", "up", "unsure"}
        /\ \A d \in Callers \ {c} : asks'[d] = asks[d]
        /\ asks'[c] = "tune" => asks[c] = "tune"
    BY <1>c, <2>1, <2>2, AnswerDoes DEF IInv, Base
  <2>5. Base'
    BY <1>1, <2>1, <2>3, <2>4 DEF IInv, Base, Locals, Queues, NoStaleStop, control, thread, HasTimer
  <2>6. ASSUME ~raced' PROVE Sound'
    <3>1. Sound /\ Base
      BY <1>4, <2>6 DEF IInv
    <3>2. Tells(c, e)
      BY <1>3, <2>3, <3>1, CallerEvent DEF TransitAfter
    <3>3. tune'[c].pc = "none"
      BY <1>1, <1>3, <2>1, <3>2 DEF Tells
    <3>4. QED BY <1>1, <1>3, <1>4, <2>1, <2>3, <2>4, <3>1, <3>3, OnTuneDone
  <2>7. QED BY <2>5, <2>6 DEF IInv
<1>6. CASE freq # e.freq
  <2> DEFINE n == Start("tune_stop", "tune", c, NoFreq)
  <2>1. /\ tune' = [tune EXCEPT ![c] = [pc |-> "stop", freq |-> e.freq]]
        /\ Post(<<n>>) /\ UNCHANGED world
    BY <1>c, <1>6 DEF OnTune
  <2>2. n \in GoodEvent \ ToStart /\ \A d \in Callers \ {c} : n \notin Of(d)
    BY <1>3, StartIsGood
  <2>3. QueuesIn(GoodEvent)' /\ TransitAfter(e, {n}) /\ due' = {}
    BY <1>1, <2>1, <2>2, TakePostTransits DEF IInv, Base, Queues
  <2>4. tune' \in [Callers -> TuneRec] /\ tune'[c].pc = "stop" /\ tune' = [tune EXCEPT ![c] = tune'[c]]
    BY <1>3, <2>1, TunePcTyped DEF IInv, Base, Locals
  <2>5. Base'
    BY <1>1, <2>1, <2>3, <2>4 DEF IInv, Base, Locals, Queues, NoStaleStop, control, thread, world, HasTimer
  <2>6. ASSUME ~raced' PROVE Sound'
    <3>1. Sound /\ Base
      BY <1>4, <2>6 DEF IInv
    <3>2. Tells(c, e)
      BY <1>3, <2>3, <3>1, CallerEvent DEF TransitAfter
    <3>3. asks[c] = "tune"
      BY <1>1, <1>3, <3>2 DEF Tells
    <3>4. Tells(c, n)'
      BY <2>4 DEF Tells, Start
    <3>5. UNCHANGED <<start, stop, asks, ttq, tt>>
      BY <1>1, <1>4, <2>1 DEF world
    <3> HIDE DEF n
    <3>6. QED BY <1>3, <2>2, <2>3, <2>4, <3>1, <3>3, <3>4, <3>5, OnTuneGoes
  <2>7. QED BY <2>5, <2>6 DEF IInv
<1>7. QED BY <1>5, <1>6

(* The replies to on_tune.                                                  *)
LEMMA ReplyFields ==
  ASSUME NEW e \in GoodEvent, e.type = "REPLY"
  PROVE  /\ e.to \in Callers \cup {"start"} /\ e.ok \in BOOLEAN
         /\ \A c \in Callers : e.to = c => e \in Of(c) /\ e \notin ToStart
         /\ e.to = "start" => e \in ToStart
BY DEF GoodEvent, Event, ToStart, Of, Callers

LEMMA TuneStoppedStep ==
  ASSUME IInv, NEW e, NEW c \in Callers, TuneStopped(e, c)
  PROVE  IInv'
<1>0. PICK f : f = tune[c].freq
  OBVIOUS
<1> DEFINE n == Start("tune_start", "tune", c, f)
<1>1. /\ Take(e, c) /\ e.type = "REPLY" /\ e.to = c /\ tune[c].pc = "stop" /\ e.ok
      /\ UNCHANGED <<locked_by, control, start, stop, thread, world>>
      /\ tune' = [tune EXCEPT ![c].pc = "start"] /\ Post(<<n>>)
  BY <1>0 DEF TuneStopped, Replies
<1>2. e \in GoodEvent
  BY <1>1, TakeRemoves DEF IInv, Base, Queues
<1>3. e \in Of(c)
  BY <1>1, <1>2, ReplyFields
<1>4. f \in Freqs \cup {NoFreq}
  BY <1>0 DEF IInv, Base, Locals, TuneRec
<1>5. n \in GoodEvent \ ToStart /\ \A d \in Callers \ {c} : n \notin Of(d)
  BY <1>4, StartIsGood
<1>6. QueuesIn(GoodEvent)' /\ TransitAfter(e, {n}) /\ due' = {}
  BY <1>1, <1>5, TakePostTransits DEF IInv, Base, Queues
<1>7. tune' \in [Callers -> TuneRec] /\ tune'[c].pc = "start" /\ tune' = [tune EXCEPT ![c] = tune'[c]]
  <2>1. tune \in [Callers -> TuneRec]
    BY DEF IInv, Base, Locals
  <2>2. tune' \in [Callers -> TuneRec]
    BY <1>1, <1>4, TunePcTyped DEF IInv, Base
  <2>3. QED BY <1>1, <2>1, <2>2 DEF TuneRec
<1>8. Base'
  BY <1>1, <1>6, <1>7 DEF IInv, Base, Locals, Queues, NoStaleStop, control, thread, world, HasTimer
<1>9. ASSUME ~raced' PROVE Sound'
  <2>1. Sound /\ Base
    BY <1>1, <1>9 DEF IInv, control
  <2>2. Tells(c, e)
    BY <1>3, <1>6, <2>1, CallerEvent DEF TransitAfter
  <2>3. Tells(c, n)'
    BY <1>1, <1>7, <2>2 DEF Tells, Start, ThreadIsFree, thread
  <2>4. asks[c] = "tune"
    BY <1>1, <2>1 DEF Sound, Place, Follows
  <2>5. UNCHANGED <<start, stop, asks, ttq, tt>>
    BY <1>1 DEF world, thread
  <2> HIDE DEF n
  <2>6. QED BY <1>3, <1>5, <1>6, <1>7, <2>1, <2>3, <2>4, <2>5, OnTuneGoes
<1>10. QED BY <1>8, <1>9 DEF IInv

(* on_tune ends, with success or not.                                       *)
LEMMA ToldTyped ==
  ASSUME Locals, NEW c \in Callers, NEW ok \in BOOLEAN, Told(c, ok)
  PROVE  /\ asks' \in [Callers -> {"none", "tune", "tune_stop"}]
         /\ svc' \in {"down", "up", "unsure"}
         /\ asks'[c] = "none" /\ \A d \in Callers \ {c} : asks'[d] = asks[d]
<1>1. Heard(ok) \in {"down", "up", "unsure"}
  BY DEF Heard
<1>2. QED BY <1>1 DEF Told, Locals

LEMMA TuneEndsStep ==
  ASSUME IInv, NEW e, NEW c \in Callers, TuneFailed(e, c) \/ TuneStarted(e, c)
  PROVE  IInv'
<1>1. /\ Take(e, c) /\ e.type = "REPLY" /\ e.to = c
      /\ tune' = [tune EXCEPT ![c] = NoTune]
      /\ \E ok \in BOOLEAN : Told(c, ok)
      /\ UNCHANGED <<locked_by, control, start, stop, thread>>
  BY DEF TuneFailed, TuneStarted, Replies
<1>2. e \in GoodEvent
  BY <1>1, TakeRemoves DEF IInv, Base, Queues
<1>3. e \in Of(c)
  BY <1>1, <1>2, ReplyFields
<1>4. \E n \in SUBSET GoodEvent :
        /\ QueuesIn(GoodEvent)' /\ due' = {} /\ TransitAfter(e, n)
        /\ n \cap ToStart = {} /\ \A d \in Callers : n \cap Of(d) = {}
  <2>1. CASE TuneFailed(e, c)
    <3> DEFINE n == Start("tune_stop", "send", c, NoFreq)
    <3>1. n \in GoodEvent \ ToStart /\ \A d \in Callers : n \notin Of(d)
      BY StartIsGood
    <3>2. Post(<<n>>)
      BY <2>1 DEF TuneFailed
    <3> HIDE DEF n
    <3>3. QueuesIn(GoodEvent)' /\ TransitAfter(e, {n}) /\ due' = {}
      BY <1>1, <3>1, <3>2, TakePostTransits DEF IInv, Base, Queues
    <3>4. {n} \in SUBSET GoodEvent /\ {n} \cap ToStart = {} /\ \A d \in Callers : {n} \cap Of(d) = {}
      BY <3>1
    <3>5. QED BY <3>3, <3>4
  <2>2. CASE TuneStarted(e, c)
    <3>1. QueuesIn(GoodEvent)' /\ TransitAfter(e, {}) /\ due' = {}
      BY <1>1, <2>2, TakeTransits DEF IInv, Base, Queues, TuneStarted
    <3>2. QED BY <3>1
  <2>3. QED BY <2>1, <2>2
<1>5. /\ tune' \in [Callers -> TuneRec] /\ tune'[c].pc = "none"
      /\ \A d \in Callers \ {c} : tune'[d] = tune[d]
  BY <1>1, TunePcTyped DEF IInv, Base, Locals, NoTune
<1>6. /\ asks' \in [Callers -> {"none", "tune", "tune_stop"}]
      /\ svc' \in {"down", "up", "unsure"}
      /\ asks'[c] = "none" /\ \A d \in Callers \ {c} : asks'[d] = asks[d]
  BY <1>1, ToldTyped DEF IInv, Base
<1>7. Base'
  BY <1>1, <1>4, <1>5, <1>6 DEF IInv, Base, Locals, Queues, NoStaleStop, control, thread, HasTimer
<1>8. ASSUME ~raced' PROVE Sound'
  <2>1. Sound /\ Base
    BY <1>1, <1>8 DEF IInv, control
  <2>2. UNCHANGED <<start, stop, ttq, tt>>
    BY <1>1 DEF thread
  <2>3. QED BY <1>3, <1>4, <1>5, <1>6, <2>1, <2>2, OnTuneDone
<1>9. QED BY <1>7, <1>8 DEF IInv

-----------------------------------------------------------------------------
(* on_tune_start: nothing looks whether the thread is free, but on_tune     *)
(* sends tune_start only after tune_stop has said so, and no other caller   *)
(* has one here.                                                            *)
LEMMA OnTuneStartStep ==
  ASSUME IInv, NEW e, OnTuneStart(e)
  PROVE  IInv'
<1>1. /\ Take(e, NoFiber) /\ e.type = "START" /\ e.seq = "tune_start"
      /\ locked_by' = "start" /\ state' = "tuning_begin"
      /\ start' = [pc |-> "request", c |-> e.c, freq |-> e.freq, polls |-> 0]
      /\ ttq' = Append(ttq, "tune")
      /\ UNCHANGED <<inbox, freq, is_req_stop, raced, tune, stop, tt, stream, world>>
  BY DEF OnTuneStart, Starts, Starting, LockFor
<1>2. QueuesIn(GoodEvent)' /\ e \in GoodEvent /\ TransitAfter(e, {}) /\ due' = {}
  BY <1>1, TakeTransits DEF IInv, Base, Queues
<1>c. PICK c \in Callers : c = e.c
  BY <1>1, <1>2, StartFields
<1>3. e \in Of(c) /\ e.freq \in Freqs \cup {NoFreq}
  BY <1>1, <1>2, <1>c, StartFields
<1>4. start' \in StartRec /\ start'.pc = "request" /\ start'.c = c
  BY <1>1, <1>3, <1>c, TunerControlAssumption DEF StartRec
<1>5. ttq \in Seq({"tune", "force_kill"}) /\ ttq' \in Seq({"tune", "force_kill"})
  BY <1>1, AppendProperties DEF IInv, Base, Locals
<1>6. Base'
  BY <1>1, <1>2, <1>4, <1>5 DEF IInv, Base, Locals, Queues, NoStaleStop, world
<1>7. ASSUME ~raced' PROVE Sound'
  <2>1. Sound
    BY <1>1, <1>7 DEF IInv
  <2>2. e \in InTransit /\ InTransit' \cap Of(c) = {} /\ AtMostOnce(flight', Of(c)) /\ Keeps(ToStart)
    BY <1>2, <1>3, <2>1, AfterTake DEF Sound
  <2>3. /\ ~StartsFor(c) /\ (\A s \in StopFibers : ~StopsFor(s, c))
        /\ Tells(c, e) /\ asks[c] # "none" /\ Place(c)
    BY <1>3, <2>1, <2>2, CallerEvent
  <2>4. tune[c].pc = "start" /\ ThreadIsFree /\ asks[c] = "tune"
    BY <1>1, <2>3 DEF Tells, Place, Follows
  <2>5. start.pc = "none"
    <3>1. SUFFICES ASSUME start.pc # "none" PROVE FALSE
      OBVIOUS
    <3>2. PICK d \in Callers : d = start.c
      BY DEF IInv, Base, Locals, StartRec
    <3>3. StartsFor(d)
      BY <3>1, <3>2 DEF StartsFor
    <3>4. asks[d] = "tune"
      BY <2>1, <3>3 DEF Sound, Place, Follows
    <3>5. QED BY <2>1, <2>3, <2>4, <3>3, <3>4 DEF Sound, Alone
  <2>6. ~TuneWaits /\ InTransit \cap ToStart = {}
    BY <2>1, <2>5 DEF Sound, ThreadInOnePlace
  <2>7. Place(c)'
    <3>1. tune'[c].pc = "start" /\ asks'[c] = "tune" /\ \A s \in StopFibers : ~StopsFor(s, c)'
      BY <1>1, <2>3, <2>4 DEF StopsFor, world
    <3>2. QED BY <2>2, <3>1 DEF Place, InOnePlace, Follows
  <2>8. \A d \in Callers \ {c} : Untouched(d)
    <3>1. \A d \in Callers \ {c} : StartsFor(d)' <=> StartsFor(d)
      BY <1>4, <2>5 DEF StartsFor
    <3>2. QED BY <1>1, <1>2, <2>1, <3>1, OthersUntouched DEF world
  <2>9. ThreadInOnePlace'
    <3>1. AtMostOnce(ttq', {"tune"})
      <4>1. \A i \in 1..Len(ttq) : ttq[i] \notin {"tune"}
        BY <2>6 DEF TuneWaits
      <4>2. QED BY <1>1, <1>5, <4>1, AppendedOnce
    <3>2. InTransit' \cap ToStart = {} /\ AtMostOnce(flight', ToStart)
      BY <2>2, <2>6 DEF Keeps
    <3>3. QED BY <1>4, <3>1, <3>2 DEF ThreadInOnePlace
  <2>10. ThreadIsFree' /\ asks' = asks
    BY <1>1, <2>4 DEF ThreadIsFree, world
  <2>11. QED BY <2>1, <2>7, <2>8, <2>9, <2>10, SoundStays
<1>8. QED BY <1>6, <1>7 DEF IInv

LEMMA StartEndsStep ==
  ASSUME IInv, NEW ok \in BOOLEAN, StartEnds(ok), NEW n, n = Reply(start.c, ok),
         QueuesIn(GoodEvent)', due' \subseteq HasTimer \ {"start"},
         Sound => /\ start.pc # "none" /\ ~TuneWaits /\ InTransit' \cap ToStart = {}
                  /\ InTransit' \subseteq InTransit \cup {n}
                  /\ AtMostOnce(flight', Of(start.c))
                  /\ \A d \in Callers \ {start.c} : Keeps(Of(d))
  PROVE  IInv'
<1>1. /\ locked_by' = Released("start") /\ start' = NoStart
      /\ state' = IF ok THEN "tuning_success" ELSE "tuning_error_stop"
      /\ freq' = IF ok THEN start.freq ELSE freq
      /\ UNCHANGED <<is_req_stop, raced, tune, stop, thread, world>>
  BY DEF StartEnds
<1>2. start' \in StartRec /\ start'.pc = "none"
  BY <1>1, TunerControlAssumption DEF NoStart, StartRec, Callers
<1>3. Base'
  BY <1>1, <1>2 DEF IInv, Base, Locals, Queues, NoStaleStop, Released, StartRec, HasTimer, thread, world
<1>4. ASSUME ~raced' PROVE Sound'
  <2>1. Sound
    BY <1>1, <1>4 DEF IInv
  <2>c. PICK c \in Callers : c = start.c
    BY DEF IInv, Base, Locals, StartRec
  <2>2. StartsFor(c) /\ Place(c)
    BY <2>1, <2>c DEF StartsFor, Sound
  <2>3. /\ tune[c].pc = "start" /\ asks[c] = "tune"
        /\ InTransit \cap Of(c) = {} /\ \A s \in StopFibers : ~StopsFor(s, c)
    BY <2>2 DEF Place, Follows, InOnePlace
  <2>4. tune' = tune /\ asks' = asks /\ stop' = stop /\ ttq' = ttq /\ tt' = tt
    BY <1>1 DEF world, thread
  <2>5. \A d \in Callers : ~StartsFor(d)'
    BY <1>2 DEF StartsFor
  <2>6. Place(c)'
    <3>1. InTransit' \cap Of(c) \subseteq {n}
      BY <2>1, <2>3
    <3>2. Tells(c, n)'
      BY <2>3, <2>4 DEF Tells, Reply
    <3>3. QED BY <2>1, <2>c, <2>3, <2>4, <2>5, <3>1, <3>2, MovedPlace DEF StopsFor
  <2>7. \A d \in Callers \ {c} : Untouched(d)
    BY <2>1, <2>c, <2>4, <2>5 DEF Untouched, SameStop, StartsFor
  <2>8. ~TuneWaits' /\ ThreadInOnePlace'
    <3>1. ~TuneWaits' /\ AtMostOnce(ttq', {"tune"})
      BY <2>1, <2>4 DEF TuneWaits, Sound, ThreadInOnePlace
    <3>2. AtMostOnce(flight', ToStart)
      BY <2>1 DEF InTransit, AtMostOnce
    <3>3. QED BY <2>1, <3>1, <3>2 DEF ThreadInOnePlace
  <2>9. ThreadIsFree => ThreadIsFree'
    BY <2>4 DEF ThreadIsFree
  <2>10. QED BY <2>1, <2>4, <2>6, <2>7, <2>8, <2>9, SoundStays
<1>5. QED BY <1>3, <1>4 DEF IInv

(* on_tune_start goes on waiting, its reply being in.                       *)
LEMMA StartWaitsStep ==
  ASSUME IInv, NEW polls \in 0..StartPolls, StartWaits(polls),
         QueuesIn(GoodEvent)', due' \subseteq HasTimer,
         Sound => /\ start.pc # "none" /\ ~TuneWaits /\ InTransit' \cap ToStart = {}
                  /\ \A d \in Callers : Keeps(Of(d))
  PROVE  IInv'
<1>1. /\ start' = [start EXCEPT !.pc = "timer", !.polls = polls]
      /\ UNCHANGED <<inbox, locked_by, control, tune, stop, thread, world>>
  BY DEF StartWaits
<1>2. start' \in StartRec /\ start'.pc = "timer" /\ start'.c = start.c
  BY <1>1 DEF IInv, Base, Locals, StartRec
<1>3. Base'
  BY <1>1, <1>2 DEF IInv, Base, Locals, Queues, HasTimer, NoStaleStop, control, thread, world
<1>4. ASSUME ~raced' PROVE Sound'
  <2>1. Sound
    BY <1>1, <1>4 DEF IInv, control
  <2>2. tune' = tune /\ asks' = asks /\ stop' = stop /\ ttq' = ttq /\ tt' = tt
    BY <1>1 DEF world, thread
  <2>3. \A d \in Callers : Untouched(d)
    BY <1>2, <2>1, <2>2 DEF Untouched, SameStop, StartsFor
  <2>4. ~TuneWaits' /\ ThreadInOnePlace'
    <3>1. ~TuneWaits' /\ AtMostOnce(ttq', {"tune"})
      BY <2>1, <2>2 DEF TuneWaits, Sound, ThreadInOnePlace
    <3>2. AtMostOnce(flight', ToStart)
      BY <2>1 DEF InTransit, AtMostOnce
    <3>3. QED BY <2>1, <3>1, <3>2 DEF ThreadInOnePlace
  <2>5. ThreadIsFree => ThreadIsFree'
    BY <2>2 DEF ThreadIsFree
  <2>6. QED BY <2>1, <2>3, <2>4, <2>5, SoundUntouched
<1>5. QED BY <1>3, <1>4 DEF IInv

LEMMA StartRepliedStep ==
  ASSUME IInv, NEW e, StartReplied(e)
  PROVE  IInv'
<1>1. Take(e, "start") /\ e.type = "REPLY" /\ e.to = "start"
  BY DEF StartReplied, Replies
<1>2. e \in GoodEvent /\ QueuesIn(GoodEvent)
  BY <1>1, TakeRemoves DEF IInv, Base, Queues
<1>3. e \in ToStart
  BY <1>1, <1>2, ReplyFields
<1>4. start.c \in Callers
  BY DEF IInv, Base, Locals, StartRec
<1>5. ASSUME NEW ok \in BOOLEAN, StartEnds(ok)
      PROVE  IInv'
  <2> DEFINE n == Reply(start.c, ok)
  <2>1. n \in GoodEvent /\ n \notin ToStart /\ \A d \in Callers : n \in Of(d) <=> start.c = d
    BY <1>4, ReplyIsGood DEF Callers
  <2>2. Post(<<n>>)
    BY <1>5 DEF StartEnds
  <2>3. PICK x : x = n
    OBVIOUS
  <2> HIDE DEF n
  <2>4. QueuesIn(GoodEvent)' /\ TransitAfter(e, {x}) /\ due' = {}
    BY <1>1, <1>2, <2>1, <2>2, <2>3, TakePostTransits
  <2>5. ASSUME Sound
        PROVE  /\ start.pc # "none" /\ ~TuneWaits /\ InTransit' \cap ToStart = {}
               /\ InTransit' \subseteq InTransit \cup {x}
               /\ AtMostOnce(flight', Of(start.c))
               /\ \A d \in Callers \ {start.c} : Keeps(Of(d))
    <3>1. /\ e \in InTransit /\ InTransit' \subseteq InTransit \cup {x} /\ InTransit' \cap ToStart = {}
          /\ \A d \in Callers \ {start.c} : Keeps(Of(d))
      BY <1>3, <1>4, <2>1, <2>3, <2>4, <2>5, AfterTake DEF Sound
    <3>2. start.pc = "request" /\ ~TuneWaits
      BY <1>3, <2>5, <3>1 DEF Sound, ThreadInOnePlace
    <3>3. StartsFor(start.c)
      BY <3>2 DEF StartsFor
    <3>4. InTransit \cap Of(start.c) = {} /\ AtMostOnce(flight, Of(start.c))
      BY <1>4, <2>5, <3>3 DEF Sound, Place, InOnePlace
    <3>5. AtMostOnce(flight', Of(start.c))
      BY <2>4, <3>4 DEF TransitAfter
    <3>6. QED BY <3>1, <3>2, <3>5
  <2>6. due' \subseteq HasTimer \ {"start"}
    BY <2>4
  <2>7. QED BY <1>5, <2>3, <2>4, <2>5, <2>6, StartEndsStep DEF n
<1>6. ASSUME StartWaits(0)
      PROVE  IInv'
  <2>1. inbox' = inbox
    BY <1>6 DEF StartWaits
  <2>2. QueuesIn(GoodEvent)' /\ TransitAfter(e, {}) /\ due' = {}
    BY <1>1, <1>2, <2>1, TakeTransits
  <2>3. ASSUME Sound
        PROVE  /\ start.pc # "none" /\ ~TuneWaits /\ InTransit' \cap ToStart = {}
               /\ \A d \in Callers : Keeps(Of(d))
    <3>1. /\ e \in InTransit /\ InTransit' \cap ToStart = {}
          /\ \A d \in Callers : Keeps(Of(d))
      BY <1>3, <1>4, <2>2, <2>3, AfterTake DEF Sound
    <3>2. QED BY <1>3, <2>3, <3>1 DEF Sound, ThreadInOnePlace
  <2>4. 0 \in 0..StartPolls
    BY TunerControlAssumption
  <2>5. QED BY <1>6, <2>2, <2>3, <2>4, StartWaitsStep
<1>7. QED BY <1>5, <1>6 DEF StartReplied

(* What is left in flight when n was posted.                                *)
LEMMA AfterSend ==
  ASSUME Sound, NEW n, TransitWith(n)
  PROVE  /\ InTransit' \subseteq InTransit \cup n
         /\ n \cap ToStart = {} => Keeps(ToStart)
         /\ \A c \in Callers :
              /\ n \cap Of(c) = {} => Keeps(Of(c))
              /\ InTransit \cap Of(c) = {} => AtMostOnce(flight', Of(c)) /\ InTransit' \cap Of(c) \subseteq n
BY DEF TransitWith, Keeps, Sound, Place, InOnePlace, ThreadInOnePlace

LEMMA StartTimerStep ==
  ASSUME IInv, StartTimer
  PROVE  IInv'
<1>1. "start" \in due /\ due' = due \ {"start"} /\ UNCHANGED <<batch, deferred>>
  BY DEF StartTimer, ResumeTimer
<1>2. start.pc = "timer"
  BY <1>1, TunerControlAssumption DEF IInv, Base, Queues, HasTimer
<1>3. QueuesIn(GoodEvent) /\ due' \subseteq HasTimer \ {"start"}
  BY <1>1 DEF IInv, Base, Queues
<1>4. start.c \in Callers
  BY DEF IInv, Base, Locals, StartRec
<1>5. ASSUME Sound
      PROVE  /\ ~TuneWaits /\ InTransit \cap ToStart = {} /\ InTransit \cap Of(start.c) = {}
  BY <1>2, <1>4, <1>5 DEF Sound, ThreadInOnePlace, Place, InOnePlace, StartsFor
<1>6. ASSUME NEW ok \in BOOLEAN, StartEnds(ok)
      PROVE  IInv'
  <2> DEFINE n == Reply(start.c, ok)
  <2>1. n \in GoodEvent /\ n \notin ToStart /\ \A d \in Callers : n \in Of(d) <=> start.c = d
    BY <1>4, ReplyIsGood DEF Callers
  <2>2. Post(<<n>>)
    BY <1>6 DEF StartEnds
  <2>3. PICK x : x = n
    OBVIOUS
  <2> HIDE DEF n
  <2>4. QueuesIn(GoodEvent)' /\ TransitWith({x})
    BY <1>1, <1>3, <2>1, <2>2, <2>3, PostTransits
  <2>5. ASSUME Sound
        PROVE  /\ start.pc # "none" /\ ~TuneWaits /\ InTransit' \cap ToStart = {}
               /\ InTransit' \subseteq InTransit \cup {x}
               /\ AtMostOnce(flight', Of(start.c))
               /\ \A d \in Callers \ {start.c} : Keeps(Of(d))
    BY <1>2, <1>4, <1>5, <2>1, <2>3, <2>4, <2>5, AfterSend
  <2>6. QED BY <1>3, <1>6, <2>3, <2>4, <2>5, StartEndsStep DEF n
<1>7. ASSUME NEW polls \in 0..StartPolls, StartWaits(polls)
      PROVE  IInv'
  <2>1. inbox' = inbox
    BY <1>7 DEF StartWaits
  <2>2. flight' = flight /\ QueuesIn(GoodEvent)'
    BY <1>1, <1>3, <2>1 DEF flight, QueuesIn
  <2>3. ASSUME Sound
        PROVE  /\ start.pc # "none" /\ ~TuneWaits /\ InTransit' \cap ToStart = {}
               /\ \A d \in Callers : Keeps(Of(d))
    BY <1>2, <1>5, <2>2, <2>3, FlightKept DEF InTransit
  <2>4. QED BY <1>3, <1>7, <2>2, <2>3, StartWaitsStep
<1>8. start.polls \in 0..StartPolls
  BY DEF IInv, Base, Locals, StartRec
<1>9. start.polls < StartPolls => start.polls + 1 \in 0..StartPolls
  BY <1>8, TunerControlAssumption
<1>10. QED BY <1>6, <1>7, <1>9 DEF StartTimer

-----------------------------------------------------------------------------
(* on_tune_stop.  An answer of success means that the thread has no stream: *)
(* neither look has found one (or both have missed it), or it is closed.    *)
LEMMA OnTuneStopStep ==
  ASSUME IInv, NEW e, OnTuneStop(e)
  PROVE  IInv'
<1>1. /\ Take(e, NoFiber) /\ e.type = "START" /\ e.seq = "tune_stop"
      /\ UNCHANGED <<locked_by, freq, tune, start, stream, ttq>>
  BY DEF OnTuneStop, Starts, Starting
<1>2. PICK missed \in {FALSE, LookMayMiss} :
        /\ missed => tt = "tune_begined"
        /\ tt' = IF missed THEN "tuned" ELSE tt
        /\ raced' = (raced \/ missed)
        /\ IF tt \in Running /\ ~missed
           THEN /\ is_req_stop' = TRUE
                /\ \E s \in StopFibers :
                     /\ stop[s].pc = "none"
                     /\ stop' = [stop EXCEPT ![s] =
                                   [pc |-> "wait", from |-> e.from, c |-> e.c, half |-> FALSE]]
                /\ UNCHANGED <<inbox, state, world>>
           ELSE /\ state' = "tune_stop"
                /\ is_req_stop' = FALSE
                /\ Answer(e, TRUE)
                /\ UNCHANGED stop
  BY DEF OnTuneStop
<1>3. e \in GoodEvent
  BY <1>1, TakeRemoves DEF IInv, Base, Queues
<1>c. PICK c \in Callers : c = e.c
  BY <1>1, <1>3, StartFields
<1>4. /\ e.from \in Froms
      /\ \A d \in Callers : e \in Of(d) <=> d = c /\ e.from \in {"caller", "tune"}
  BY <1>1, <1>3, <1>c, StartFields
<1>5. missed \in BOOLEAN
  BY TunerControlAssumption
<1>6. tt' \in Running \cup {"closed", "tune_ended"} /\ raced' \in BOOLEAN
  BY <1>2, <1>5 DEF IInv, Base, Locals, Running
<1>7. CASE tt \in Running /\ ~missed
  <2>1. PICK s \in StopFibers :
          /\ stop[s].pc = "none"
          /\ stop' = [stop EXCEPT ![s] = [pc |-> "wait", from |-> e.from, c |-> c, half |-> FALSE]]
    BY <1>2, <1>7, <1>c
  <2>2. is_req_stop' = TRUE /\ UNCHANGED <<inbox, state, asks, svc>>
    BY <1>2, <1>7 DEF world
  <2>3. QueuesIn(GoodEvent)' /\ TransitAfter(e, {}) /\ due' = {}
    BY <1>1, <2>2, TakeTransits DEF IInv, Base, Queues
  <2>4. stop' \in [StopFibers -> StopRec] /\ stop'[s].pc = "wait" /\ stop'[s].from = e.from /\ stop'[s].c = c
        /\ \A u \in StopFibers \ {s} : stop'[u] = stop[u]
    BY <1>4, <2>1 DEF IInv, Base, Locals, StopRec
  <2>5. Base'
    BY <1>1, <1>6, <2>2, <2>3, <2>4 DEF IInv, Base, Locals, Queues, NoStaleStop
  <2>6. ASSUME ~raced' PROVE Sound'
    <3>1. Sound
      BY <1>2, <2>6 DEF IInv
    <3>2. /\ e \in InTransit /\ Keeps(ToStart) /\ \A d \in Callers : Keeps(Of(d))
          /\ e \in Of(c) => InTransit' \cap Of(c) = {}
      BY <2>3, <3>1, AfterTake DEF Sound
    <3>3. ASSUME NEW d \in Callers, d # c \/ e.from = "send"
          PROVE  Untouched(d)
      <4>1. ~StopsFor(s, d) /\ ~StopsFor(s, d)'
        BY <2>1, <2>4, <3>3 DEF StopsFor
      <4>2. \A u \in StopFibers \ {s} : SameStop(u)
        BY <2>4 DEF SameStop
      <4>3. QED BY <1>1, <2>2, <3>2, <4>1, <4>2 DEF Untouched, StartsFor
    <3>4. ThreadInOnePlace' /\ (TuneWaits' <=> TuneWaits)
      BY <1>1, <3>1, <3>2, ThreadStays DEF Sound
    <3>5. ThreadIsFree => ThreadIsFree'
      BY <1>7 DEF ThreadIsFree
    <3>6. CASE e.from = "send"
      BY <3>1, <3>3, <3>4, <3>5, <3>6, SoundUntouched
    <3>7. CASE e.from \in {"caller", "tune"}
      <4>1. e \in Of(c)
        BY <1>4, <3>7
      <4>2. /\ ~StartsFor(c) /\ (\A u \in StopFibers : ~StopsFor(u, c))
            /\ Tells(c, e) /\ asks[c] # "none" /\ Place(c)
        BY <3>1, <3>2, <4>1, CallerEvent
      <4>3. tune[c].pc = IF e.from = "tune" THEN "stop" ELSE "none"
        BY <1>1, <3>7, <4>2 DEF Tells
      <4>4. \A u \in StopFibers : StopsFor(u, c)' => u = s
        BY <2>4, <4>2 DEF StopsFor
      <4>5. ~StartsFor(c)' /\ InTransit' \cap Of(c) = {} /\ AtMostOnce(flight', Of(c))
        BY <1>1, <3>2, <4>1, <4>2 DEF StartsFor, Keeps
      <4>6. InOnePlace(c)'
        BY <4>4, <4>5 DEF InOnePlace
      <4>7. Follows(c)'
        BY <1>1, <2>2, <2>4, <4>2, <4>3, <4>4, <4>5 DEF Follows, Place
      <4>8. QED BY <2>2, <3>1, <3>3, <3>4, <3>5, <4>6, <4>7, SoundStays DEF Sound, Place
    <3>8. QED BY <1>4, <3>6, <3>7 DEF Froms
  <2>7. QED BY <2>5, <2>6 DEF IInv
<1>8. CASE ~(tt \in Running /\ ~missed)
  <2>1. state' = "tune_stop" /\ is_req_stop' = FALSE /\ Answer(e, TRUE) /\ stop' = stop
    BY <1>2, <1>8
  <2>2. QueuesIn(GoodEvent)' /\ TransitAfter(e, Answered(e, TRUE)) /\ due' = {}
    BY <1>1, <1>4, <1>c, <2>1, AnswerTakes DEF IInv
  <2>3. /\ asks' \in [Callers -> {"none", "tune", "tune_stop"}]
        /\ svc' \in {"down", "up", "unsure"}
        /\ e.from # "caller" => asks' = asks
        /\ \A d \in Callers \ {c} : asks'[d] = asks[d]
        /\ asks'[c] = "tune" => asks[c] = "tune"
    BY <1>4, <1>c, <2>1, AnswerDoes DEF IInv, Base
  <2>4. Base'
    BY <1>1, <1>6, <2>1, <2>2, <2>3 DEF IInv, Base, Locals, Queues, NoStaleStop, HasTimer
  <2>5. ASSUME ~raced' PROVE Sound'
    <3>1. Sound /\ ThreadIsFree /\ ThreadIsFree'
      BY <1>2, <1>8, <2>5 DEF IInv, ThreadIsFree
    <3>2. /\ Answered(e, TRUE) \cap ToStart = {}
          /\ \A d \in Callers \ {c} : Answered(e, TRUE) \cap Of(d) = {}
          /\ e.from = "send" => Answered(e, TRUE) = {}
      BY <1>c, AnsweredIs
    <3>3. /\ e \in InTransit /\ Keeps(ToStart)
          /\ e \in Of(c) => AtMostOnce(flight', Of(c)) /\ InTransit' \cap Of(c) \subseteq Answered(e, TRUE)
          /\ e.from = "send" => Keeps(Of(c))
      <4>1. PICK n : n = Answered(e, TRUE)
        OBVIOUS
      <4>2. TransitAfter(e, n) /\ n \cap ToStart = {} /\ (e.from = "send" => n \cap Of(c) = {})
        BY <2>2, <3>2, <4>1
      <4>3. Place(c) /\ ThreadInOnePlace
        BY <3>1 DEF Sound
      <4>4. QED BY <4>1, <4>2, <4>3, AfterTake
    <3>4. \A d \in Callers \ {c} : Untouched(d)
      BY <1>1, <2>1, <2>2, <2>3, <3>1, <3>2, OthersUntouched DEF StartsFor
    <3>5. ThreadInOnePlace' /\ (TuneWaits' <=> TuneWaits)
      BY <1>1, <3>1, <3>3, ThreadStays DEF Sound
    <3>6. CASE e.from = "send"
      <4>1. Untouched(c)
        BY <1>1, <2>1, <2>3, <3>3, <3>6 DEF Untouched, SameStop, StartsFor
      <4>2. QED BY <3>1, <3>4, <3>5, <4>1, SoundUntouched
    <3>7. CASE e.from \in {"caller", "tune"}
      <4>1. e \in Of(c)
        BY <1>4, <3>7
      <4>2. /\ ~StartsFor(c) /\ (\A u \in StopFibers : ~StopsFor(u, c))
            /\ Tells(c, e) /\ asks[c] # "none" /\ Place(c)
        BY <3>1, <3>3, <4>1, CallerEvent
      <4>3. tune[c].pc = IF e.from = "tune" THEN "stop" ELSE "none"
        BY <1>1, <3>7, <4>2 DEF Tells
      <4>4. \A u \in StopFibers : ~StopsFor(u, c)'
        BY <2>1, <4>2 DEF StopsFor
      <4>5. Place(c)'
        BY <1>1, <1>c, <2>3, <3>1, <3>3, <3>7, <4>1, <4>2, <4>3, <4>4, CallerAnswered
      <4>6. QED BY <2>3, <3>1, <3>4, <3>5, <4>5, SoundStays
    <3>8. QED BY <1>4, <3>6, <3>7 DEF Froms
  <2>6. QED BY <2>4, <2>5 DEF IInv
<1>9. QED BY <1>7, <1>8

(* An on_tune_stop that waited is done: it succeeds only when it has seen   *)
(* the thread closed.                                                       *)
LEMMA StopEndsStep ==
  ASSUME IInv, NEW s \in StopFibers, NEW ok \in BOOLEAN, ResumeTimer(s), StopEnds(s, ok),
         ok => tt = "closed",
         freq' \in Freqs \cup {NoFreq},
         state' \in {"tuning_begin", "tuning_success", "tuning_error_stop", "tune_stop"}
  PROVE  IInv'
<1>0. PICK x : x = stop[s]
  OBVIOUS
<1>1. s \in due /\ due' = due \ {s} /\ UNCHANGED <<batch, deferred>>
  BY DEF ResumeTimer
<1>2. /\ stop' = [stop EXCEPT ![s] = NoStop] /\ is_req_stop' = FALSE /\ Answer(x, ok)
      /\ UNCHANGED <<locked_by, raced, tune, start, thread>>
  BY <1>0 DEF StopEnds
<1>3. x \in StopRec /\ x.pc = "wait"
  BY <1>0, <1>1, TunerControlAssumption DEF IInv, Base, Locals, Queues, HasTimer
<1>c. PICK c \in Callers : c = x.c
  BY <1>3 DEF StopRec
<1>4. x.from \in Froms /\ \A d \in Callers : StopsFor(s, d) <=> d = c /\ x.from \in {"caller", "tune"}
  BY <1>0, <1>3, <1>c DEF StopRec, StopsFor
<1>5. QueuesIn(GoodEvent)' /\ TransitWith(Answered(x, ok))
  BY <1>1, <1>2, <1>4, <1>c, AnswerSends DEF IInv
<1>6. /\ asks' \in [Callers -> {"none", "tune", "tune_stop"}]
      /\ svc' \in {"down", "up", "unsure"}
      /\ x.from # "caller" => asks' = asks
      /\ \A d \in Callers \ {c} : asks'[d] = asks[d]
      /\ asks'[c] = "tune" => asks[c] = "tune"
  BY <1>2, <1>4, <1>c, AnswerDoes DEF IInv, Base
<1>7. /\ stop' \in [StopFibers -> StopRec] /\ stop'[s].pc = "none"
      /\ \A u \in StopFibers \ {s} : stop'[u] = stop[u]
  BY <1>2, TunerControlAssumption DEF IInv, Base, Locals, NoStop, StopRec, Froms, Callers
<1>8. Base'
  BY <1>1, <1>2, <1>5, <1>6, <1>7, TunerControlAssumption
     DEF IInv, Base, Locals, Queues, HasTimer, NoStaleStop, thread
<1>9. ASSUME ~raced' PROVE Sound'
  <2>1. Sound
    BY <1>2, <1>9 DEF IInv
  <2>2. /\ Answered(x, ok) \cap ToStart = {}
        /\ \A d \in Callers \ {c} : Answered(x, ok) \cap Of(d) = {}
        /\ x.from = "send" => Answered(x, ok) = {}
    BY <1>c, AnsweredIs
  <2>3. /\ Keeps(ToStart) /\ \A d \in Callers \ {c} : Keeps(Of(d))
        /\ x.from = "send" => Keeps(Of(c))
    BY <1>5, <2>1, <2>2, AfterSend
  <2>4. tune' = tune /\ start' = start /\ ttq' = ttq /\ tt' = tt
    BY <1>2 DEF thread
  <2>5. \A d \in Callers : ~StopsFor(s, d)'
    BY <1>7 DEF StopsFor
  <2>6. \A u \in StopFibers \ {s} : SameStop(u)
    BY <1>7 DEF SameStop
  <2>7. \A d \in Callers \ {c} : Untouched(d)
    BY <1>4, <1>6, <2>3, <2>4, <2>5, <2>6 DEF Untouched, StartsFor
  <2>8. ThreadInOnePlace' /\ (TuneWaits' <=> TuneWaits)
    BY <2>1, <2>3, <2>4, ThreadStays DEF Sound
  <2>9. (ThreadIsFree => ThreadIsFree') /\ (ok => ThreadIsFree')
    BY <2>4 DEF ThreadIsFree, Running
  <2>10. CASE x.from = "send"
    <3>1. Untouched(c)
      BY <1>4, <1>6, <2>3, <2>4, <2>5, <2>6, <2>10 DEF Untouched, StartsFor
    <3>2. QED BY <2>1, <2>7, <2>8, <2>9, <3>1, SoundUntouched
  <2>11. CASE x.from \in {"caller", "tune"}
    <3>1. StopsFor(s, c) /\ Place(c)
      BY <1>4, <2>1, <2>11 DEF Sound
    <3>2. /\ ~StartsFor(c) /\ InTransit \cap Of(c) = {} /\ \A u \in StopFibers \ {s} : ~StopsFor(u, c)
          /\ tune[c].pc = IF x.from = "tune" THEN "stop" ELSE "none"
      BY <1>0, <3>1 DEF Place, InOnePlace, Follows
    <3>3. AtMostOnce(flight', Of(c)) /\ InTransit' \cap Of(c) \subseteq Answered(x, ok)
      BY <1>5, <2>1, <3>2, AfterSend
    <3>4. \A u \in StopFibers : ~StopsFor(u, c)'
      BY <2>5, <2>6, <3>2 DEF SameStop, StopsFor
    <3>5. Place(c)'
      BY <1>c, <1>6, <2>4, <2>9, <2>11, <3>1, <3>2, <3>3, <3>4, CallerAnswered
    <3>6. QED BY <1>6, <2>1, <2>7, <2>8, <2>9, <3>5, SoundStays DEF Sound
  <2>12. QED BY <1>4, <2>10, <2>11 DEF Froms
<1>10. QED BY <1>8, <1>9 DEF IInv

LEMMA StopTimerStep ==
  ASSUME IInv, NEW s \in StopFibers, StopTimer(s)
  PROVE  IInv'
<1>1. ASSUME StopSucceeds(s)
      PROVE  IInv'
  BY <1>1, StopEndsStep DEF StopSucceeds
<1>2. ASSUME StopGivesUp(s)
      PROVE  IInv'
  <2>1. /\ freq' \in Freqs \cup {NoFreq}
        /\ state' \in {"tuning_begin", "tuning_success", "tuning_error_stop", "tune_stop"}
    BY <1>2 DEF StopGivesUp, IInv, Base, Locals
  <2>2. QED BY <1>2, <2>1, StopEndsStep DEF StopGivesUp
<1>3. ASSUME ResumeTimer(s), inbox' = inbox
      PROVE  flight' = flight /\ QueuesIn(GoodEvent)' /\ due' \subseteq HasTimer
  BY <1>3 DEF ResumeTimer, IInv, Base, Queues, QueuesIn, flight
<1>4. ASSUME StopPolls(s)
      PROVE  IInv'
  <2>1. /\ ResumeTimer(s)
        /\ UNCHANGED <<inbox, locked_by, control, fibers, thread, world>>
    BY <1>4 DEF StopPolls
  <2>2. QED BY <1>3, <2>1, SchedulerStep
<1>5. ASSUME SendForceKill(s)
      PROVE  IInv'
  <2>1. /\ ResumeTimer(s)
        /\ stop' = [stop EXCEPT ![s].half = TRUE]
        /\ ttq' = ttq \/ ttq' = Append(ttq, "force_kill")
        /\ UNCHANGED <<inbox, locked_by, control, tune, start, tt, stream, world>>
    BY <1>5 DEF SendForceKill
  <2>2. flight' = flight /\ QueuesIn(GoodEvent)' /\ due' \subseteq HasTimer
    BY <1>3, <2>1
  <2>3. stop' \in [StopFibers -> StopRec] /\ \A u \in StopFibers : SameStop(u)
    BY <2>1 DEF IInv, Base, Locals, StopRec, SameStop
  <2>4. ttq \in Seq({"tune", "force_kill"}) /\ ttq' \in Seq({"tune", "force_kill"})
    BY <2>1, AppendProperties DEF IInv, Base, Locals
  <2>5. Base'
    BY <2>1, <2>2, <2>3, <2>4 DEF IInv, Base, Locals, Queues, HasTimer, NoStaleStop, SameStop, control, world
  <2>6. ASSUME ~raced' PROVE Sound'
    <3>1. Sound
      BY <2>1, <2>6 DEF IInv, control
    <3>2. Keeps(ToStart) /\ \A d \in Callers : Keeps(Of(d))
      BY <2>2, <3>1, FlightKept
    <3>3. \A d \in Callers : Untouched(d)
      BY <2>1, <2>3, <3>2 DEF Untouched, StartsFor, world
    <3>4. AtMostOnce(ttq', {"tune"}) /\ (TuneWaits' => TuneWaits)
      <4>1. AtMostOnce(ttq, {"tune"})
        BY <3>1 DEF Sound, ThreadInOnePlace
      <4>2. CASE ttq' = Append(ttq, "force_kill")
        BY <2>4, <4>1, <4>2, AppendedOnce, AppendProperties DEF TuneWaits
      <4>3. CASE ttq' = ttq
        BY <4>1, <4>3 DEF TuneWaits
      <4>4. QED BY <2>1, <4>2, <4>3
    <3>5. ThreadInOnePlace'
      BY <2>1, <3>1, <3>2, <3>4 DEF Sound, ThreadInOnePlace, Keeps
    <3>6. ThreadIsFree => ThreadIsFree'
      BY <2>1 DEF ThreadIsFree
    <3>7. QED BY <3>1, <3>3, <3>4, <3>5, <3>6, SoundUntouched
  <2>7. QED BY <2>5, <2>6 DEF IInv
<1>6. QED BY <1>1, <1>2, <1>4, <1>5 DEF StopTimer

-----------------------------------------------------------------------------
(* The callers.  A second tune at once counts as raced.                     *)
LEMMA AskStep ==
  ASSUME IInv, NEW c \in Callers, NEW seq \in {"tune", "tune_stop"},
         NEW f \in Freqs \cup {NoFreq}, Ask(c, seq, f)
  PROVE  IInv'
<1> DEFINE n == Start(seq, "caller", c, f)
<1>1. /\ asks[c] = "none" /\ ~raced
      /\ asks' = [asks EXCEPT ![c] = seq] /\ Post(<<n>>)
      /\ raced' = (seq = "tune" /\ \E d \in Callers \ {c} : asks[d] = "tune")
      /\ UNCHANGED <<batch, due, deferred, locked_by, freq, state, is_req_stop, fibers, thread, svc>>
  BY DEF Ask
<1>2. /\ n \in GoodEvent /\ n \notin ToStart /\ n.type = "START" /\ n.from = "caller" /\ n.seq = seq
      /\ \A d \in Callers \ {c} : n \notin Of(d)
  BY DEF Start, GoodEvent, Event, Froms, ToStart, Of
<1>3. PICK x : x = n
  OBVIOUS
<1> HIDE DEF n
<1>4. QueuesIn(GoodEvent)' /\ TransitWith({x})
  BY <1>1, <1>2, <1>3, PostTransits DEF IInv, Base, Queues
<1>5. /\ asks' \in [Callers -> {"none", "tune", "tune_stop"}]
      /\ asks'[c] = seq /\ \A d \in Callers \ {c} : asks'[d] = asks[d]
  BY <1>1 DEF IInv, Base, Locals
<1>6. raced' \in BOOLEAN
  BY <1>1
<1>7. Base'
  BY <1>1, <1>4, <1>5, <1>6 DEF IInv, Base, Locals, Queues, HasTimer, NoStaleStop, fibers, thread
<1>8. ASSUME ~raced' PROVE Sound'
  <2>1. Sound
    BY <1>1 DEF IInv
  <2>2. tune' = tune /\ start' = start /\ stop' = stop /\ ttq' = ttq /\ tt' = tt
    BY <1>1 DEF fibers, thread
  <2>3. Keeps(ToStart) /\ \A d \in Callers \ {c} : Keeps(Of(d))
    BY <1>2, <1>3, <1>4, <2>1, AfterSend
  <2>4. ASSUME NEW d \in Callers \ {c} PROVE Place(d)'
    <3>1. Untouched(d)
      BY <1>5, <2>2, <2>3 DEF Untouched, SameStop, StartsFor
    <3>2. ThreadIsFree => ThreadIsFree'
      BY <2>2 DEF ThreadIsFree
    <3>3. QED BY <2>1, <3>1, <3>2, UntouchedStays DEF Sound
  <2>5. Place(c)'
    <3>1. /\ tune[c].pc = "none" /\ ~StartsFor(c) /\ InTransit \cap Of(c) = {}
          /\ \A s \in StopFibers : ~StopsFor(s, c)
      BY <1>1, <2>1 DEF Sound, Place, Follows
    <3>2. AtMostOnce(flight', Of(c)) /\ InTransit' \cap Of(c) \subseteq {x}
      BY <1>4, <2>1, <3>1, AfterSend
    <3>3. Tells(c, x)'
      BY <1>2, <1>3, <1>5, <2>2, <3>1 DEF Tells
    <3>4. ~StartsFor(c)' /\ (\A s \in StopFibers : ~StopsFor(s, c)') /\ tune'[c].pc = "none"
      BY <2>2, <3>1 DEF StartsFor, StopsFor
    <3>5. QED BY <1>5, <3>2, <3>3, <3>4, MovedPlace
  <2>6. ThreadInOnePlace' /\ (TuneWaits' <=> TuneWaits) /\ (ThreadIsFree <=> ThreadIsFree')
    BY <2>1, <2>2, <2>3, ThreadStays DEF Sound, ThreadIsFree
  <2>7. Alone'
    BY <1>1, <1>5, <1>8, <2>1 DEF Sound, Alone
  <2>8. QED BY <2>1, <2>4, <2>5, <2>6, <2>7 DEF Sound
<1>9. QED BY <1>7, <1>8 DEF IInv

-----------------------------------------------------------------------------
LEMMA InitHolds == Init => IInv
<1>1. SUFFICES ASSUME Init PROVE IInv
  OBVIOUS
<1>2. /\ inbox = <<>> /\ batch = <<>> /\ due = {} /\ deferred = <<>> /\ locked_by = NoFiber
      /\ freq = NoFreq /\ state = "tune_stop" /\ is_req_stop = FALSE
      /\ tune = [c \in Callers |-> NoTune] /\ start = NoStart /\ stop = [s \in StopFibers |-> NoStop]
      /\ tt = "closed" /\ stream = NoFreq /\ ttq = <<>>
      /\ asks = [c \in Callers |-> "none"] /\ svc = "down" /\ raced = FALSE
  BY <1>1 DEF Init, CoseqInit
<1>3. NoTune \in TuneRec /\ NoStart \in StartRec /\ NoStop \in StopRec
  BY TunerControlAssumption DEF NoTune, NoStart, NoStop, TuneRec, StartRec, StopRec, Callers, Froms
<1>4. Locals /\ NoStaleStop
  <2>1. tune \in [Callers -> TuneRec] /\ start \in StartRec /\ stop \in [StopFibers -> StopRec]
    BY <1>2, <1>3
  <2>2. ttq \in Seq({"tune", "force_kill"})
    BY <1>2
  <2>3. asks \in [Callers -> {"none", "tune", "tune_stop"}] /\ svc = "down"
    BY <1>2
  <2>4. /\ locked_by = NoFiber /\ freq = NoFreq /\ state = "tune_stop" /\ is_req_stop = FALSE
        /\ tt = "closed" /\ stream = NoFreq /\ raced = FALSE
    BY <1>2
  <2>5. QED BY <2>1, <2>2, <2>3, <2>4 DEF Locals, NoStaleStop
<1>5. Queues /\ InTransit = {} /\ \A M : AtMostOnce(flight, M)
  <2>1. QueuesIn(GoodEvent)
    BY <1>2, EmptySeq DEF QueuesIn
  <2>2. Len(flight) = 0
    BY <1>2, <2>1, FlightTyped, EmptySeq
  <2>3. QED BY <1>2, <2>1, <2>2 DEF Queues, InTransit, AtMostOnce
<1>6. ~TuneWaits /\ AtMostOnce(ttq, {"tune"})
  BY <1>2, EmptySeq DEF TuneWaits, AtMostOnce
<1>7. \A s \in StopFibers : stop[s].pc = "none"
  BY <1>2 DEF NoStop
<1>8. start.pc = "none" /\ \A c \in Callers : tune[c].pc = "none" /\ asks[c] = "none"
  BY <1>2 DEF NoStart, NoTune
<1>9. \A c \in Callers : Place(c)
  BY <1>5, <1>7, <1>8 DEF Place, InOnePlace, Follows, StartsFor, StopsFor
<1>10. ThreadInOnePlace /\ Alone
  BY <1>5, <1>6, <1>8 DEF ThreadInOnePlace, Alone
<1>11. QED BY <1>4, <1>5, <1>6, <1>9, <1>10 DEF IInv, Base, Sound

LEMMA NextHolds ==
  ASSUME IInv, [Next]_vars
  PROVE  IInv'
<1>1. CASE Scheduler
  <2>1. CASE \E expired \in SUBSET HasTimer : Turn(expired)
    BY <2>1, TurnStep
  <2>2. CASE StartTimer
    BY <2>2, StartTimerStep
  <2>3. CASE \E s \in StopFibers : StopTimer(s) \/ TimerSkipped(s)
    BY <2>3, StopTimerStep, TimerSkippedStep
  <2>4. CASE batch # <<>> /\ Handle(Head(batch))
    <3>1. PICK e : Handle(e)
      BY <2>4
    <3>2. QED BY <3>1, DeferStep, OnTuneStep, OnTuneStartStep, OnTuneStopStep,
                 StartRepliedStep, TuneStoppedStep, TuneEndsStep DEF Handle
  <2>5. QED BY <1>1, <2>1, <2>2, <2>3, <2>4 DEF Scheduler
<1>2. CASE Thread
  BY <1>2, ThreadTunesStep, ThreadKillsStep, ThreadGoesStep DEF Thread
<1>3. CASE \E c \in Callers : Asks(c)
  <2>1. PICK c \in Callers : Asks(c)
    BY <1>3
  <2>2. FreqsOf(c) \subseteq Freqs
    BY DEF FreqsOf, Freqs
  <2>3. QED BY <2>1, <2>2, AskStep DEF Asks
<1>4. CASE UNCHANGED vars
  <2>1. /\ UNCHANGED <<inbox, batch, due, deferred, locked_by>>
        /\ UNCHANGED <<control, fibers, thread, world>>
    BY <1>4 DEF vars
  <2>2. QueuesIn(GoodEvent)' /\ flight' = flight /\ due' \subseteq HasTimer
    BY <2>1 DEF IInv, Base, Queues, QueuesIn, flight
  <2>3. QED BY <2>1, <2>2, SchedulerStep
<1>5. QED BY <1>1, <1>2, <1>3, <1>4 DEF Next

(* The inductive invariant.                                                 *)
THEOREM Inductive == Spec => []IInv
<1>1. IInv /\ [Next]_vars => IInv'
  BY NextHolds
<1>2. QED BY <1>1, InitHolds, PTL DEF Spec

(* The state of tuner_control and of tune_thread has its type, whoever asks *)
(* and however the requests cross (tuner_control.cpp).                      *)
THEOREM TypeCorrect == Spec => []TypeOK
<1>1. IInv => TypeOK
  BY LocalsAreTyped DEF IInv
<1>2. QED BY <1>1, Inductive, PTL

(* No tune request waits at a thread that a stream occupies (tune_thread,   *)
(* the check of state_ in on_tune), unless a stream was missed or two       *)
(* callers tuned here at once, and no request to stop outlives the          *)
(* on_tune_stop that made it.                                               *)
THEOREM StaysUsable == Spec => []TunerIsUsable
<1>1. IInv => TunerIsUsable
  <2>1. SUFFICES ASSUME IInv, tt \in Running, ~raced, NEW i \in DOMAIN ttq, ttq[i] = "tune"
                 PROVE  FALSE
    BY DEF TunerIsUsable, ThreadFreeForTune, IInv, Base
  <2>2. DOMAIN ttq = 1..Len(ttq)
    BY <2>1 DEF IInv, Base, Locals
  <2>3. QED BY <2>1, <2>2 DEF IInv, Sound, TuneWaits, ThreadIsFree
<1>2. QED BY <1>1, Inductive, PTL

(* The second half of it has no exception: is_req_stop_ is never left set   *)
(* by the last on_tune_stop (tuner_control.cpp), whoever sent them and      *)
(* however they overlap, also after a race.                                 *)
THEOREM StopNotStale == Spec => []NoStaleStop
<1>1. IInv => NoStaleStop
  BY DEF IInv, Base
<1>2. QED BY <1>1, Inductive, PTL
=============================================================================
