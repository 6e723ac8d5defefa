----------------------------- MODULE Recording ------------------------------
(***************************************************************************)
(* rec_manager: the reserves, the recordings they become and the results   *)
(* the recordings leave.  Its fibers are "check" (on_check_loop: each      *)
(* second it looks for a reserve that is due, opens a tuner and has it     *)
(* recorded), "start" (on_start_recording, which only "check" requests),   *)
(* "epg" (on_check_reserves_event_loop) and "watch"                        *)
(* (on_check_recordings_event_loop).  No fiber takes the module's lock, so *)
(* whatever a fiber has read may have changed after each wait.             *)
(*                                                                         *)
(* The recording itself is done on the tune thread, in on_ts_received of   *)
(* rec_instance, which goes through rec_progress_ and holds the b25 writer.*)
(* rec_manager's thread sets rec_progress_ and, when the PAT is lost, runs *)
(* on_ts_received itself.  Nothing protects rec_progress_ or the writer.   *)
(*                                                                         *)
(* The order of events is that of rec_manager's queue; timers and answers  *)
(* of modules whose answers are input come at any time in between.         *)
(***************************************************************************)
EXTENDS RecTable

CONSTANTS
  Groups,     \* the tuners
  Programs,   \* what users may reserve: cleared flags, used
  EpgTimes,   \* the <<start, end>> the schedule or the stream may report
  EventTries, \* retries for the present event (10 in the code)
  Troubles,   \* what may happen besides, see the world below
  MaxTime,    \* bound on the time, which starts at 1
  MaxAdds     \* bound on the reserves of a behaviour

NoGroup == "none"

ASSUME RecordingAssumption ==
  /\ IsFiniteSet(Groups) /\ NoGroup \notin Groups
  /\ MaxTime \in Nat \ {0} /\ MaxAdds \in Nat /\ EventTries \in Nat
  /\ Programs \subseteq [used : {TRUE}, key : [service : Nat, event : Nat], start : Nat \ {0}, end : Nat,
                         event : BOOLEAN, period : Nat, flags : {{}}]
  /\ \A t \in EpgTimes : t \in (Nat \ {0}) \X Nat /\ t[1] < t[2]
  /\ Troubles \subseteq {"remove", "stop", "disk_low", "stream_dries", "other_client",
                         "epg", "crash", "no_channel", "no_tune", "missed"}

VARIABLES
  now,        \* the time
  reserves, recordings, \* reserves_, recordings_
  results,    \* how many results_ there are
  disk,       \* what the two files hold, and what they will hold after each save
              \* that is still to be made; <<>>: a file ends in the middle
  fiber,      \* [Fibers -> where the fiber waits and for what]
  inbox,      \* events for rec_manager
  progress,   \* [Groups -> rec_progress_]
  b25,        \* [Groups -> there is a b25_]
  h,          \* [Groups -> [Threads -> where the thread is in on_ts_received]]
  svcq,       \* requests waiting at tuner_service
  tuner,      \* [Groups -> whose the tuner is: "free", "mine" or "other"]
  stream,     \* [Groups -> "off", "tuning", "on", or "silent": no data any more]
  up,         \* the process runs
  accepted, gone, \* history: reserves accepted; those discarded without a result
  odd         \* history: what has happened out of the ordinary

tables  == <<reserves, results, recordings, disk>>
handler == <<progress, b25, h>>
service == <<svcq, tuner, stream>>
history == <<accepted, gone, odd>>
vars == <<now, tables, fiber, inbox, handler, service, up, history>>

Fibers  == {"check", "start", "epg", "watch"}
Threads == {"tune", "rec"}
Asleep  == [pc |-> "sleep", g |-> NoGroup, n |-> 0]
Outside == [pc |-> "out", case |-> "init"]
Blanks  == [i \in Slots |-> Blank]
On(what, g) == [what |-> what, g |-> g]
Files(t, n) == [reserves |-> t, results |-> n]
Last(s) == s[Len(s)]

Volatile(table) ==
  /\ reserves' = table
  /\ recordings' = [g \in Groups |-> Blank]
  /\ fiber' = [f \in Fibers |-> Asleep]
  /\ inbox' = <<>>
  /\ progress' = [g \in Groups |-> "init"]
  /\ b25' = [g \in Groups |-> FALSE]
  /\ h' = [g \in Groups |-> [t \in Threads |-> Outside]]
  /\ svcq' = <<>>
  /\ tuner' = [g \in Groups |-> "free"]
  /\ stream' = [g \in Groups |-> "off"]

Init ==
  /\ now = 1
  /\ reserves = Blanks /\ results = 0 /\ disk = <<Files(Blanks, 0)>>
  /\ recordings = [g \in Groups |-> Blank]
  /\ fiber = [f \in Fibers |-> Asleep]
  /\ inbox = <<>>
  /\ progress = [g \in Groups |-> "init"]
  /\ b25 = [g \in Groups |-> FALSE]
  /\ h = [g \in Groups |-> [t \in Threads |-> Outside]]
  /\ svcq = <<>>
  /\ tuner = [g \in Groups |-> "free"]
  /\ stream = [g \in Groups |-> "off"]
  /\ up = TRUE
  /\ accepted = 0 /\ gone = 0 /\ odd = {}

Post(events) == inbox' = inbox \o events
Marks(what)  == odd' = odd \cup what
InFlight(e)  == \E i \in DOMAIN inbox : inbox[i] = e
At(f, pc)    == fiber[f].pc = pc
Goes(f, pc)  == fiber' = [fiber EXCEPT ![f].pc = pc]

-----------------------------------------------------------------------------
(* on_ts_received: it looks at rec_progress_, does the work of that case,   *)
(* looks again for the notice, and writes rec_progress_.                    *)
Inside(g, t) == h[g][t].pc # "out"

Enter(g, t) ==
  /\ h' = [h EXCEPT ![g][t] = IF progress[g] = "init" THEN Outside
                              ELSE [pc |-> "work", case |-> progress[g]]]
  /\ Marks(IF progress[g] # "init" /\ \E o \in Threads \ {t} : h[g][o].pc \in {"work", "noticed"}
           THEN {"raced"} ELSE {})

(* Mutant: the writer is given up with the announcement of the end.         *)
NotifyFlushed(g, t) ==
  LET case == h[g][t].case
  IN /\ h[g][t].pc = "work" /\ case # "recording"
     /\ case = "post" => b25[g]
     /\ h' = [h EXCEPT ![g][t].pc = "noticed"]
     /\ b25' = [b25 EXCEPT ![g] = case = "pre"]
     /\ Post(IF progress[g] = "post" THEN <<On("post", g)>> ELSE <<>>)
     /\ UNCHANGED <<now, tables, fiber, progress, service, up, history>>

(* The writer is made in the first case and flushed in the last, where      *)
(* nothing checks that there is one.                                        *)
Notify(g, t) ==
  LET case == h[g][t].case
  IN /\ h[g][t].pc = "work" /\ case # "recording"
     /\ case = "post" => b25[g]
     /\ h' = [h EXCEPT ![g][t].pc = "noticed"]
     /\ b25' = [b25 EXCEPT ![g] = CASE case = "pre" -> TRUE [] case = "post" -> FALSE [] OTHER -> @]
     /\ Post(IF progress[g] = "post" THEN <<On("post", g)>> ELSE <<>>)
     /\ UNCHANGED <<now, tables, fiber, progress, service, up, history>>

AfterCase(case) ==
  CASE case = "pre" -> "recording" [] case \in {"success", "error"} -> "post" [] case = "post" -> "init"

Leave(g, t) ==
  /\ \/ h[g][t].pc = "noticed" /\ progress' = [progress EXCEPT ![g] = AfterCase(h[g][t].case)]
     \/ h[g][t].pc = "work" /\ h[g][t].case = "recording" /\ b25[g] /\ UNCHANGED progress
  /\ h' = [h EXCEPT ![g][t] = Outside]
  /\ UNCHANGED <<now, tables, fiber, inbox, b25, service, up, history>>

(* The writer that is used is not there.                                    *)
NullWriter(g, t) ==
  h[g][t].pc = "work" /\ h[g][t].case \in {"recording", "post"} /\ ~b25[g]

DataArrives(g) ==
  /\ stream[g] \in {"tuning", "on"} /\ ~Inside(g, "tune") /\ progress[g] # "init"
  /\ Enter(g, "tune")
  /\ UNCHANGED <<now, tables, fiber, inbox, progress, b25, service, up, accepted, gone>>

(* What set_next_progress on rec_manager's thread runs into: it is early if *)
(* the handler has not made the writer yet, and races with the tune thread  *)
(* between that thread's reads and its write, and after the last notice.    *)
Hits(g) ==
  (IF progress[g] = "pre" /\ ~Inside(g, "tune") THEN {"early"} ELSE {})
    \cup (IF \/ progress[g] = "init"
             \/ Inside(g, "tune") /\ h[g]["tune"].case # "recording"
          THEN {"raced"} ELSE {})

-----------------------------------------------------------------------------
(* The world.  Users reserve and remove; a user's stop is that of a command *)
(* or of the disk check.  psisi_manager announces a lost PAT when a stream  *)
(* is silent.  A crash takes everything but the two files; while a save is  *)
(* being made, its file may be left empty or in part.                       *)
Tick ==
  /\ now < MaxTime
  /\ now' = now + 1
  /\ UNCHANGED <<tables, fiber, inbox, handler, service, up, history>>

StreamDries(g) ==
  /\ "stream_dries" \in Troubles
  /\ stream[g] \in {"tuning", "on"} /\ tuner[g] = "mine"
  /\ stream' = [stream EXCEPT ![g] = "silent"]
  /\ Post(<<On("pat_lost", g)>>)
  /\ UNCHANGED <<now, tables, fiber, handler, svcq, tuner, up, history>>

NoWriter == \E g \in Groups, t \in Threads : NullWriter(g, t)

Crash ==
  /\ NoWriter \/ ("crash" \in Troubles /\ "crash" \notin odd)
  /\ up' = FALSE
  /\ IF Len(disk) = 1
     THEN Marks({"crash"}) /\ UNCHANGED disk
     ELSE Marks({"crash", "cut"}) /\ disk' \in {<<>>, <<Head(disk)>>}
  /\ UNCHANGED <<now, reserves, results, recordings, fiber, inbox, handler, service, accepted, gone>>

(* on_module_up: load_reserves and load_results, which nobody catches when  *)
(* a file cannot be read: the process ends each time it is started.         *)
Restart ==
  /\ ~up /\ disk # <<>>
  /\ up' = TRUE
  /\ Volatile(Head(disk).reserves) /\ results' = Head(disk).results
  /\ gone' = gone + UsedIn(recordings)
  /\ UNCHANGED <<now, disk, accepted, odd>>

-----------------------------------------------------------------------------
(* tuner_service, in the order of the requests.  A tune ends while data     *)
(* already flows; the stop of a stream waits for the tune thread.  close    *)
(* does not look at the owner.                                              *)
First(what) == svcq # <<>> /\ Head(svcq).what = what
ServiceOnly == UNCHANGED <<now, tables, fiber, handler, up, history>>

ServiceOpens ==
  /\ First("open")
  /\ svcq' = Tail(svcq)
  /\ \/ \E g \in Groups : /\ tuner[g] = "free"
                          /\ tuner' = [tuner EXCEPT ![g] = "mine"]
                          /\ Post(<<On("opened", g)>>)
     \/ /\ \A g \in Groups : tuner[g] # "free"
        /\ Post(<<On("opened", NoGroup)>>)
        /\ UNCHANGED tuner
  /\ ServiceOnly /\ UNCHANGED stream

ServiceTunes ==
  /\ First("tune")
  /\ LET g == Head(svcq).g
     IN IF tuner[g] = "mine" /\ stream[g] = "off"
        THEN svcq' = <<On("tuning", g)>> \o Tail(svcq) /\ stream' = [stream EXCEPT ![g] = "tuning"]
             /\ UNCHANGED inbox
        ELSE svcq' = Tail(svcq) /\ Post(<<On("not_tuned", g)>>) /\ UNCHANGED stream
  /\ ServiceOnly /\ UNCHANGED tuner

StreamStops(g) == ~Inside(g, "tune") /\ stream' = [stream EXCEPT ![g] = "off"]

ServiceTuned ==
  /\ First("tuning")
  /\ svcq' = Tail(svcq)
  /\ LET g == Head(svcq).g
     IN \/ /\ Post(<<On("tuned", g)>>)
           /\ stream' = [stream EXCEPT ![g] = IF @ = "tuning" THEN "on" ELSE @]
        \/ "no_tune" \in Troubles /\ Post(<<On("not_tuned", g)>>) /\ StreamStops(g)
  /\ ServiceOnly /\ UNCHANGED tuner

ServiceStops ==
  /\ First("tune_stop")
  /\ svcq' = Tail(svcq)
  /\ LET g == Head(svcq).g
     IN IF tuner[g] = "mine" THEN StreamStops(g) ELSE UNCHANGED stream
  /\ ServiceOnly /\ UNCHANGED <<inbox, tuner>>

ServiceCloses ==
  /\ First("close")
  /\ svcq' = Tail(svcq)
  /\ LET g == Head(svcq).g
     IN tuner' = [tuner EXCEPT ![g] = IF stream[g] = "off" THEN "free" ELSE @]
  /\ ServiceOnly /\ UNCHANGED <<inbox, stream>>

(* Another client has a tuner for a while; its data reaches the handler.    *)
OtherOpens(g) ==
  /\ "other_client" \in Troubles
  /\ tuner[g] = "free"
  /\ tuner' = [tuner EXCEPT ![g] = "other"]
  /\ stream' = [stream EXCEPT ![g] = "on"]
  /\ ServiceOnly /\ UNCHANGED <<inbox, svcq>>

OtherCloses(g) ==
  /\ tuner[g] = "other"
  /\ tuner' = [tuner EXCEPT ![g] = "free"]
  /\ StreamStops(g)
  /\ ServiceOnly /\ UNCHANGED <<inbox, svcq>>

Service ==
  ServiceOpens \/ ServiceTunes \/ ServiceTuned \/ ServiceStops \/ ServiceCloses

-----------------------------------------------------------------------------
(* rec_manager's thread, which is not available while it is in the handler  *)
(* or writes a file.                                                        *)
Scheduling == up /\ Len(disk) = 1 /\ \A g \in Groups : ~Inside(g, "rec")
Event(what) == Scheduling /\ inbox # <<>> /\ Head(inbox).what = what
EventOf     == Head(inbox).g
Then(events) == inbox' = Tail(inbox) \o events

(* save_reserves and save_results, each of which truncates its file before  *)
(* it writes it.  A step leaves the saves it makes in disk, in their order, *)
(* and Saves makes the next one; what the code does after a save is done    *)
(* here before it, where nobody sees it and a crash takes it all the same.  *)
SavesReserves(t, files) == Append(files, Files(t, Last(files).results))
SavesResults(n, files)  == Append(files, Files(Last(files).reserves, n))

Saves ==
  /\ Len(disk) > 1
  /\ disk' = Tail(disk)
  /\ UNCHANGED <<now, reserves, results, recordings, fiber, inbox, handler, service, up, history>>

Write(t) == reserves' = t /\ disk' = SavesReserves(t, disk)
GiveBack(g) == svcq' = svcq \o <<On("tune_stop", g), On("close", g)>>
Adds(t, before) == accepted' = accepted + UsedIn(t) - before

(* add_reserve, by one of the requests of users below.                      *)
AddReserve(p) ==
  /\ Scheduling /\ accepted < MaxAdds
  /\ Accepted(reserves, recordings, p)
  /\ Write(AddTo(reserves, recordings, p))
  /\ accepted' = accepted + 1
  /\ UNCHANGED <<now, results, recordings, fiber, inbox, handler, service, up, gone, odd>>

(* An event is looked up in the schedule, or is the present one of a tuner; *)
(* a reserve by hand may repeat.                                            *)
AddEvent(p)        == p.event /\ AddReserve(p)
AddCurrentEvent(p) == p.event /\ p.start <= now /\ AddReserve(p)
AddManual(p)       == ~p.event /\ AddReserve(p)

Flagged(t, i, flags) == [t EXCEPT ![i].flags = @ \cup flags]

(* check_repeatability on a table, with the save that add_reserve makes.    *)
SavesRepeat(before, after, files) == IF after = before THEN files ELSE SavesReserves(after, files)

(* remove_reserve, of any slot.  A repeat would be added, and saved, before *)
(* the array closes up.                                                     *)
RemoveReserve(i, is_consider_repeatability, is_apply_result) ==
  /\ Scheduling /\ "remove" \in Troubles
  /\ LET r == reserves[i]
         m == Flagged(reserves, i, {"removed"})
         t == IF is_consider_repeatability THEN Repeated(m, recordings, r) ELSE m
         first == IF is_apply_result THEN SavesResults(SetResult(results, r), disk) ELSE disk
     IN /\ reserves' = CloseUp(t, i)
        /\ disk' = SavesReserves(CloseUp(t, i), SavesRepeat(m, t, first))
        /\ Adds(t, UsedIn(reserves))
        /\ results' = IF is_apply_result THEN SetResult(results, r) ELSE results
        /\ gone' = gone + (IF is_apply_result THEN Dropped(results)
                           ELSE IF r.used THEN 1 ELSE 0)
  /\ UNCHANGED <<now, recordings, fiber, inbox, handler, service, up, odd>>

AskStop(g) ==
  /\ up /\ "stop" \in Troubles
  /\ "now" \in recordings[g].flags /\ ~InFlight(On("stop", g))
  /\ Post(<<On("stop", g)>>)
  /\ UNCHANGED <<now, tables, fiber, handler, service, up, history>>

-----------------------------------------------------------------------------
(* on_check_loop.                                                           *)
Passed(r) == r.used /\ r.start < now /\ r.end <= now
Due(r)    == r.used /\ r.start <= now /\ now < r.end
Requested(t) == {i \in Slots : t[i].used /\ "req" \in t[i].flags}

(* check_reserves looks at a slot, up to the first reserve that is due, and *)
(* refresh_reserves takes out what has passed.  t is the table, q the       *)
(* number of results, disk the files with the saves made on the way.        *)
Stops(t, i) == \E j \in 1..(i - 1) : Due(t[j])

(* Mutant: what has passed is not entered in the results.                   *)
LookAtSilent(s, i) ==
  LET r == s.t[i]
  IN CASE ~Stops(s.t, i) /\ Passed(r) -> [s EXCEPT !.t = Flagged(s.t, i, {"passed"})]
       [] ~Stops(s.t, i) /\ ~Passed(r) /\ Due(r) -> [s EXCEPT !.t = Flagged(s.t, i, {"req"})]
       [] OTHER -> s

LookAt(s, i) ==
  LET r == s.t[i]
      m == Flagged(s.t, i, {"passed"})
      t == Repeated(m, recordings, r)
  IN CASE ~Stops(s.t, i) /\ Passed(r) ->
            [t    |-> t,
             q    |-> SetResult(s.q, r),
             gone |-> s.gone + Dropped(s.q),
             disk |-> SavesRepeat(m, t, SavesResults(SetResult(s.q, r), s.disk))]
       [] ~Stops(s.t, i) /\ ~Passed(r) /\ Due(r) ->
            [s EXCEPT !.t = Flagged(s.t, i, {"req"})]
       [] OTHER -> s

Checked ==
  LET look[i \in 0..ReserveMax] ==
        IF i = 0 THEN [t |-> reserves, q |-> results, gone |-> gone, disk |-> disk]
        ELSE LookAt(look[i - 1], i)
  IN look[ReserveMax]

(* refresh_reserves, which looks at the last slot first.                    *)
Shut(s, i) ==
  LET t == CloseUp(s.t, i)
  IN IF "passed" \in s.t[i].flags THEN [s EXCEPT !.t = t, !.disk = SavesReserves(t, @)] ELSE s

Refreshed(s) ==
  LET shut[n \in 0..ReserveMax] ==
        IF n = 0 THEN s ELSE Shut(shut[n - 1], ReserveMax + 1 - n)
  IN shut[ReserveMax]

(* check_recording_end, and check_disk_free for the recordings on a disk    *)
(* that is low (one such stop at a time is under way).                      *)
InProgress(g) == recordings[g].used /\ "now" \in recordings[g].flags

(* Mutant: a look that comes after the end misses it.                       *)
AtEndMissed(g) == InProgress(g) /\ recordings[g].end = now /\ progress[g] = "recording"

AtEnd(g) == InProgress(g) /\ recordings[g].end <= now /\ progress[g] = "recording"
Stoppable == {g \in Groups : InProgress(g) /\ ~InFlight(On("stop", g))}

CheckLoop ==
  /\ Scheduling /\ At("check", "sleep")
  /\ LET s == Checked
         c == Refreshed(s)
     IN /\ reserves' = c.t /\ disk' = c.disk
        /\ results' = s.q /\ gone' = s.gone
        /\ Adds(s.t, UsedIn(reserves))
        /\ IF Requested(c.t) # {}
           THEN svcq' = Append(svcq, On("open", NoGroup)) /\ Goes("check", "open")
           ELSE UNCHANGED <<svcq, fiber>>
  /\ progress' = [g \in Groups |-> IF AtEnd(g) THEN "success" ELSE progress[g]]
  /\ Marks(UNION {Hits(g) : g \in {x \in Groups : AtEnd(x)}})
  /\ \/ UNCHANGED inbox
     \/ \E g \in Stoppable : "disk_low" \in Troubles /\ Post(<<On("stop", g)>>)
  /\ UNCHANGED <<now, recordings, b25, h, tuner, stream, up>>

(* Mutant: the reserves are not saved.                                      *)
PickUnsaved(g) ==
  LET i == Least(Requested(reserves))
      r == [reserves[i] EXCEPT !.flags = @ \ {"req"}]
      rs == [recordings EXCEPT ![g] = r]
  IN /\ reserves' = CloseUp(reserves, i) /\ recordings' = rs
     /\ Then(<<On("start", g)>>)
     /\ Goes("check", "start")
     /\ UNCHANGED <<disk, odd, accepted>>

(* pick_req_start_recording_reserve.  The repeat is compared with the       *)
(* recording it is the repeat of; saved with it, the table is saved twice.  *)
Pick(g) ==
  LET i == Least(Requested(reserves))
      r == [reserves[i] EXCEPT !.flags = @ \ {"req"}]
      rs == [recordings EXCEPT ![g] = r]
      t == CloseUp(reserves, i)
  IN /\ Write(Repeated(t, rs, r))
     /\ Adds(Repeated(t, rs, r), UsedIn(t))
     /\ recordings' = rs
     /\ Then(<<On("start", g)>>)
     /\ Goes("check", "start")
     /\ UNCHANGED odd

(* Mutant: the loop does not go on without a tuner.                         *)
OpenAnsweredShort ==
  /\ Event("opened")
  /\ LET g == EventOf
     IN IF g # NoGroup /\ ~recordings[g].used /\ Requested(reserves) # {}
        THEN Pick(g)
        ELSE /\ Marks(IF g = NoGroup THEN {} ELSE {"leak"})
             /\ Then(<<>>)
             /\ UNCHANGED <<fiber, reserves, disk, recordings, accepted>>
  /\ UNCHANGED <<now, results, handler, service, up, gone>>

(* The answer to open.  A tuner that is not used is not closed either.      *)
OpenAnswered ==
  /\ Event("opened")
  /\ LET g == EventOf
     IN IF g # NoGroup /\ ~recordings[g].used /\ Requested(reserves) # {}
        THEN Pick(g)
        ELSE /\ Marks(IF g = NoGroup THEN {} ELSE {"leak"})
             /\ Goes("check", "sleep") /\ Then(<<>>)
             /\ UNCHANGED <<reserves, disk, recordings, accepted>>
  /\ UNCHANGED <<now, results, handler, service, up, gone>>

-----------------------------------------------------------------------------
(* on_start_recording.  When it is over, so is the wait of the check loop.  *)
StartOver == fiber' = [fiber EXCEPT !["start"] = Asleep, !["check"] = Asleep]
StartGoes(pc) == Goes("start", pc) /\ UNCHANGED <<results, disk, recordings, gone>>
Starting == fiber["start"].g

(* A recording leaves its place for the results.                            *)
Ends(g) ==
  /\ results' = SetResult(results, recordings[g])
  /\ disk' = SavesResults(results', disk)
  /\ gone' = gone + Dropped(results)
  /\ recordings' = [recordings EXCEPT ![g] = Blank]

(* Mutant: the tuner is stopped and not closed.                             *)
StartFailsOpen(g) ==
  /\ Ends(g)
  /\ StartOver
  /\ svcq' = Append(svcq, On("tune_stop", g))

StartFails(g) ==
  /\ Ends(g)
  /\ StartOver
  /\ GiveBack(g)

StartRest == UNCHANGED <<now, reserves, b25, h, tuner, stream, up, accepted>>

OnStart ==
  /\ Event("start")
  /\ \/ /\ fiber' = [fiber EXCEPT !["start"] = [pc |-> "channel", g |-> EventOf, n |-> 0]]
        /\ UNCHANGED <<results, disk, recordings, gone, svcq>>
     \/ "disk_low" \in Troubles /\ StartFails(EventOf)
  /\ Then(<<>>)
  /\ StartRest /\ UNCHANGED <<progress, odd>>

(* Without a channel the recording keeps its place.                         *)
ChannelAnswered ==
  /\ Scheduling /\ At("start", "channel")
  /\ \/ /\ recordings[Starting].used
        /\ Goes("start", "tune")
        /\ svcq' = Append(svcq, On("tune", Starting))
     \/ /\ recordings[Starting].used => "no_channel" \in Troubles
        /\ StartOver /\ GiveBack(Starting)
  /\ StartRest /\ UNCHANGED <<odd, inbox, progress, results, disk, recordings, gone>>

Go(g) ==
  IF progress[g] # "init"
  THEN StartFails(g) /\ UNCHANGED progress
  ELSE /\ progress' = [progress EXCEPT ![g] = "pre"]
       /\ recordings' = [recordings EXCEPT ![g].flags = @ \cup {"now"}]
       /\ StartOver
       /\ UNCHANGED <<svcq, results, disk, gone>>

Tuned ==
  /\ Event("tuned")
  /\ IF recordings[Starting].event
     THEN StartGoes("event") /\ UNCHANGED <<svcq, progress>>
     ELSE Go(Starting)
  /\ Then(<<>>)
  /\ StartRest /\ UNCHANGED odd

(* Mutant: the result of the tune is not looked at.                         *)
NotTunedIgnored ==
  /\ Event("not_tuned")
  /\ Go(Starting)
  /\ Then(<<>>)
  /\ StartRest /\ UNCHANGED odd

NotTuned ==
  /\ Event("not_tuned")
  /\ StartFails(Starting)
  /\ Then(<<>>)
  /\ StartRest /\ UNCHANGED <<progress, odd>>

(* The present event: the one to record, another one, or none yet.          *)
EventAnswered ==
  /\ Scheduling /\ At("start", "event")
  /\ \/ recordings[Starting].used /\ Go(Starting)
     \/ /\ recordings[Starting].used => "missed" \in Troubles
        /\ \/ StartGoes("force") \/ StartGoes("pause")
        /\ UNCHANGED <<svcq, progress>>
  /\ StartRest /\ UNCHANGED <<inbox, odd>>

PauseOver ==
  /\ Scheduling /\ At("start", "pause")
  /\ IF fiber["start"].n < EventTries
     THEN /\ fiber' = [fiber EXCEPT !["start"].pc = "event", !["start"].n = @ + 1]
          /\ UNCHANGED <<results, disk, recordings, gone, svcq>>
     ELSE StartFails(Starting)
  /\ StartRest /\ UNCHANGED <<inbox, progress, odd>>

(* The schedule of the service is read again, and the reserve made anew by  *)
(* a request to on_add_reserve_event, which compares it with the recordings *)
(* because it never finds that it is_rescheduled.                           *)
ForceAnswered ==
  /\ Scheduling /\ At("start", "force")
  /\ \/ StartGoes("readd") /\ UNCHANGED svcq
     \/ StartFails(Starting)
  /\ StartRest /\ UNCHANGED <<inbox, progress, odd>>

ReAdd(time) ==
  /\ Scheduling /\ At("start", "readd")
  /\ LET r == [recordings[Starting] EXCEPT !.start = time[1], !.end = time[2], !.flags = {}]
     IN IF r.used /\ Accepted(reserves, recordings, r)
        THEN /\ Write(AddTo(reserves, recordings, r))
             /\ recordings' = [recordings EXCEPT ![Starting] = Blank]
             /\ accepted' = accepted + 1
             /\ gone' = gone + 1
             /\ StartOver /\ GiveBack(Starting)
             /\ UNCHANGED results
        ELSE StartFails(Starting) /\ UNCHANGED <<reserves, accepted>>
  /\ UNCHANGED <<now, inbox, handler, tuner, stream, up, odd>>

-----------------------------------------------------------------------------
(* on_recording_notice, of the end of a recording.  The other notices are   *)
(* about the outcome only and are not posted here.                          *)
OnNotice ==
  /\ Event("post")
  /\ Then(<<>>)
  /\ Ends(EventOf)
  /\ GiveBack(EventOf)
  /\ UNCHANGED <<now, reserves, fiber, handler, tuner, stream, up, accepted, odd>>

(* rec_manager ends a recording: on_stop_recording and on_receive_notify,   *)
(* which goes on to call the handler.                                       *)
Breaks(g, p) ==
  /\ progress' = [progress EXCEPT ![g] = p]
  /\ Marks(Hits(g))

OnStop ==
  /\ Event("stop")
  /\ Then(<<>>)
  /\ IF "now" \in recordings[EventOf].flags
     THEN Breaks(EventOf, "error") ELSE UNCHANGED <<progress, odd>>
  /\ UNCHANGED <<now, tables, fiber, b25, h, service, up, accepted, gone>>

OnPatLost ==
  /\ Event("pat_lost")
  /\ Then(<<>>)
  /\ IF "now" \in recordings[EventOf].flags
     THEN /\ Breaks(EventOf, "post")
          /\ h' = [h EXCEPT ![EventOf]["rec"].pc = "call"]
     ELSE Marks(IF Starting = EventOf THEN {"early"} ELSE {}) /\ UNCHANGED <<progress, h>>
  /\ UNCHANGED <<now, tables, fiber, b25, service, up, accepted, gone>>

CallHandler(g) ==
  /\ h[g]["rec"].pc = "call"
  /\ Enter(g, "rec")
  /\ UNCHANGED <<now, tables, fiber, inbox, progress, b25, service, up, accepted, gone>>

-----------------------------------------------------------------------------
(* on_check_reserves_event_loop asks for the event of each event reserve    *)
(* whose state is not INIT, and writes the answer at the same index.        *)
Tracked(t, from) ==
  {i \in Slots : i > from /\ t[i].used /\ t[i].flags # {} /\ t[i].event}

EpgGoes(t, from) ==
  fiber' = [fiber EXCEPT !["epg"] =
              IF Tracked(t, from) = {} THEN Asleep
              ELSE [pc |-> "ask", g |-> NoGroup, n |-> Least(Tracked(t, from))]]

EpgBegins ==
  /\ Scheduling /\ "epg" \in Troubles /\ At("epg", "sleep")
  /\ EpgGoes(reserves, 0)
  /\ UNCHANGED <<now, tables, inbox, handler, service, up, history>>

EpgAnswered(time) ==
  /\ Scheduling /\ At("epg", "ask")
  /\ LET i == fiber["epg"].n
         t == [reserves EXCEPT ![i].start = time[1], ![i].end = time[2]]
     IN /\ reserves' = t
        /\ Marks((IF time[1] = reserves[i].start THEN {} ELSE {"moved"})
                   \cup IF reserves[i].used THEN {} ELSE {"stale"})
        /\ EpgGoes(t, i)
  /\ UNCHANGED <<now, results, recordings, disk, inbox, handler, service, up, accepted, gone>>

(* on_check_recordings_event_loop, for the group whose turn it is.          *)
WatchAsks(g) ==
  /\ Scheduling /\ "epg" \in Troubles /\ At("watch", "sleep")
  /\ "now" \in recordings[g].flags
  /\ fiber' = [fiber EXCEPT !["watch"] = [pc |-> "ask", g |-> g, n |-> 0]]
  /\ UNCHANGED <<now, tables, inbox, handler, service, up, history>>

WatchAnswered(time) ==
  /\ Scheduling /\ At("watch", "ask")
  /\ LET g == fiber["watch"].g
     IN recordings' = IF "now" \notin recordings[g].flags THEN recordings
                      ELSE IF recordings[g].event THEN [recordings EXCEPT ![g].end = time[2]]
                      ELSE [recordings EXCEPT ![g].key.event = 1]
  /\ fiber' = [fiber EXCEPT !["watch"] = Asleep]
  /\ UNCHANGED <<now, results, reserves, disk, inbox, handler, service, up, history>>

-----------------------------------------------------------------------------
RecManager ==
  \/ CheckLoop \/ OpenAnswered
  \/ OnStart \/ ChannelAnswered \/ Tuned \/ NotTuned \/ EventAnswered
  \/ PauseOver \/ ForceAnswered \/ \E time \in EpgTimes : ReAdd(time)
  \/ OnNotice \/ OnStop \/ OnPatLost

Watching ==
  \/ EpgBegins \/ \E g \in Groups : WatchAsks(g)
  \/ \E time \in EpgTimes : EpgAnswered(time) \/ WatchAnswered(time)

Users ==
  \/ \E p \in Programs : AddEvent(p) \/ AddCurrentEvent(p) \/ AddManual(p)
  \/ \E i \in Slots, rep, res \in BOOLEAN : RemoveReserve(i, rep, res)
  \/ \E g \in Groups : AskStop(g)

InHandler(g, t) == up /\ (Notify(g, t) \/ Leave(g, t))

World ==
  \/ Tick \/ Crash
  \/ \E g \in Groups : StreamDries(g) \/ OtherOpens(g) \/ OtherCloses(g)

Next ==
  \/ up /\ (RecManager \/ Watching \/ Users \/ Service \/ World)
  \/ \E g \in Groups : up /\ (DataArrives(g) \/ CallHandler(g))
  \/ \E g \in Groups, t \in Threads : InHandler(g, t)
  \/ up /\ Saves
  \/ Restart

Spec == Init /\ [][Next]_vars

(* The threads run, tuner_service and the other modules answer, time goes   *)
(* on and the process is started again.  A stream that is on brings data.   *)
Fairness ==
  /\ SF_vars(up /\ RecManager) /\ SF_vars(CheckLoop) /\ WF_vars(up /\ Saves)
  /\ \A g \in Groups : /\ SF_vars(up /\ DataArrives(g)) /\ WF_vars(up /\ CallHandler(g))
                       /\ \A t \in Threads : WF_vars(InHandler(g, t))
  /\ SF_vars(up /\ Service)
  /\ WF_vars(up /\ Tick)
  /\ WF_vars(up /\ NoWriter /\ Crash) /\ WF_vars(Restart)

FairSpec == Spec /\ Fairness

-----------------------------------------------------------------------------
Progress == {"init", "pre", "recording", "success", "error", "post"}
Flags    == {"req", "now", "passed", "removed"}
Reserve  == [used : BOOLEAN, key : [service : Nat, event : Nat], start : Nat, end : Nat,
             event : BOOLEAN, period : Nat, flags : SUBSET Flags]
Contents == [reserves : [Slots -> Reserve], results : 0..ResultMax]
Messages == [what : {"opened", "post", "start", "stop", "pat_lost", "tuned", "not_tuned"},
             g : Groups \cup {NoGroup}]
Requests == [what : {"open", "tune", "tuning", "tune_stop", "close"}, g : Groups \cup {NoGroup}]
Pcs      == {"sleep", "open", "start", "channel", "tune", "event", "pause", "force", "readd", "ask"}

TypeOK ==
  /\ now \in 1..MaxTime
  /\ reserves \in [Slots -> Reserve] /\ disk \in Seq(Contents)
  /\ recordings \in [Groups -> Reserve]
  /\ results \in 0..ResultMax
  /\ fiber \in [Fibers -> [pc : Pcs, g : Groups \cup {NoGroup}, n : Nat]]
  /\ inbox \in Seq(Messages) /\ svcq \in Seq(Requests)
  /\ progress \in [Groups -> Progress] /\ b25 \in [Groups -> BOOLEAN]
  /\ h \in [Groups -> [Threads -> [pc : {"out", "call", "work", "noticed"}, case : Progress]]]
  /\ tuner \in [Groups -> {"free", "mine", "other"}]
  /\ stream \in [Groups -> {"off", "tuning", "on", "silent"}]
  /\ up \in BOOLEAN /\ accepted \in Nat /\ gone \in Nat
  /\ odd \subseteq {"raced", "early", "moved", "stale", "leak", "crash", "cut"}

(* No reserve is lost or doubled: each one accepted is still listed, or is  *)
(* the recording of one tuner, or has left one result, or was discarded (by *)
(* a removal without result, a restart while it was recorded, or from a     *)
(* full table of results).  Only a table that is not packed can lose one,   *)
(* and a crash between the saves of a step, which leaves the files of       *)
(* different moments.                                                       *)
Accounted ==
  odd \cap {"stale", "cut"} = {} =>
     accepted = UsedIn(reserves) + UsedIn(recordings) + results + gone

(* When what is to be saved is saved, the files hold the results and the    *)
(* reserves in the table, in their order; only what the schedule has moved  *)
(* is not written.  A crash leaves what they hold then, unless it comes     *)
(* before the last save of a step is made.                                  *)
SavedIsCurrent ==
  up \/ "cut" \notin odd =>
     /\ disk # <<>> /\ Last(disk).results = results
     /\ \A i \in Slots : /\ Last(disk).reserves[i].used = reserves[i].used
                         /\ Last(disk).reserves[i].key = reserves[i].key

(* Used slots are in front, as search_ascending_order_reserve assumes.      *)
Packed == InFront(reserves)

(* The table is packed and in order, no reserve is in it twice, and the     *)
(* files say the same, also when it was loaded after a crash between the    *)
(* saves of a step.  Only the schedule moves a reserve that waits for a     *)
(* tuner out of its place, and only its answer for a slot that is no longer *)
(* in use leaves a gap.                                                     *)
TableIsKept ==
  /\ "stale" \notin odd => Packed
  /\ "moved" \notin odd => InOrder(reserves)
  /\ NoneTwice(reserves) /\ SavedIsCurrent

Closes(g) == Cardinality({i \in DOMAIN svcq : svcq[i] = On("close", g)})
Opening(g) == \E i \in DOMAIN inbox : inbox[i] = On("opened", g)
Holds(g)  == \/ recordings[g].used /\ ("now" \in recordings[g].flags \/ Starting = g
                                         \/ InFlight(On("start", g)))
             \/ Opening(g)

(* rec_manager has written rec_progress_ while the tune thread was about to *)
(* write it, or after the last notice, or both threads ran the handler.     *)
Raced == "raced" \in odd

(* What is recorded comes from a tuner that is rec_manager's and that       *)
(* nobody is about to close, unless a race on rec_progress_ has left the    *)
(* handler in the end of an earlier recording.                              *)
RecordingHasTuner ==
  ~Raced => \A g \in Groups : "now" \in recordings[g].flags =>
     tuner[g] = "mine" /\ stream[g] # "off" /\ Closes(g) = 0

(* A tuner opened for a recording is in the hands of the check loop, of a   *)
(* start or of a recording, or is about to be closed, once.  The exceptions *)
(* are the two places that leave it open, and races on rec_progress_.       *)
TunerAccounted ==
  ~Raced /\ "leak" \notin odd =>
     \A g \in Groups : (IF Holds(g) THEN 1 ELSE 0) + Closes(g) = IF tuner[g] = "mine" THEN 1 ELSE 0

(* The handler flushes and writes only with a writer, unless the recording  *)
(* was ended before its first data or both threads were at it.              *)
WriterThere ==
  ~Raced /\ "early" \notin odd => ~NoWriter

(* A recording has what it needs: its tuner and its writer.                 *)
RecordingIsWhole == RecordingHasTuner /\ WriterThere

(* A reserve does not stay in the table: it is recorded, or has passed, or  *)
(* is removed, also while every tuner is taken and when the process is      *)
(* started again; unless a crash has left half a file.                      *)
ReserveLeaves ==
  \A p \in Programs : Listed(reserves, p.key) ~> ~Listed(reserves, p.key) \/ disk = <<>>

(* A recording in progress comes to its end, by its time or by the lost     *)
(* PAT.                                                                     *)
RecordingEnds == \A g \in Groups : InProgress(g) ~> ~InProgress(g) \/ disk = <<>> \/ odd \cap {"raced", "early"} # {}

(* Nothing stays for good: neither a reserve nor a recording.               *)
ReservesEnd == ReserveLeaves /\ RecordingEnds
=============================================================================
