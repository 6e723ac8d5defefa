--------------------------- MODULE EventSchedule ----------------------------
(***************************************************************************)
(* event_schedule_manager: it reserves the reading of every channel's      *)
(* schedule once a day or on request (a series, one reserve a channel),    *)
(* or of the channel a tuner is on (a force), and takes the reserves one   *)
(* after the other.  A run opens and tunes a tuner, has psisi_manager      *)
(* parse the schedule tables until they stop changing, and caches them.    *)
(*                                                                         *)
(* The fibers share executing_reserve_, is_need_stop_, force_cache_group_  *)
(* id_, retry_reserves_ and state_ without a lock; one action is one       *)
(* stretch of a fiber between two waits.  What is cached, the histories    *)
(* and the wording of the notifications are left out.                      *)
(***************************************************************************)
EXTENDS Naturals, Sequences, FiniteSets

CONSTANTS
  Channels,      \* the channels in channel_manager's order
  Groups,        \* the tuners
  Forcers, Stoppers, \* rec_manager and the console
  CacheEnabled,  \* the setting
  Day, StartTime, IntervalDay, Late, RetryAfter, \* times, in steps of a series
  Looks,         \* looks at the parser before the time-out
  Troubles,      \* what may happen besides
  MaxTime,       \* bound on the time
  MaxAsks        \* bound on the requests of a behaviour

ASSUME EventScheduleAssumption ==
  /\ Channels \in Seq(Nat \ {0}) /\ Channels # <<>>
  /\ \A i, j \in DOMAIN Channels : Channels[i] = Channels[j] => i = j
  /\ CacheEnabled \in BOOLEAN
  /\ {StartTime, IntervalDay, RetryAfter, Looks, MaxTime, MaxAsks} \subseteq Nat
  /\ {Day, Late} \subseteq Nat \ {0}
  /\ Troubles \subseteq {"no_tuner", "not_tuned", "no_service", "no_channels", "crash"}

VARIABLES
  now,
  next_day,           \* schedule_cache_next_day_
  reserves,           \* reserves_
  executing_reserve,  \* executing_reserve_
  retry_reserves,     \* retry_reserves_
  state,              \* state_
  is_need_stop,       \* is_need_stop_
  force_cache_group_id, \* force_cache_group_id_
  run,                \* the fiber of on_exec_cache_schedule
  force,              \* [Forcers -> the fiber of that request]
  stop,               \* [Stoppers -> that request waits]
  series,             \* the times of the on_add_reserves that wait for the channels
  tuner,              \* [Groups -> whose the tuner is at tuner_service]
  closing,            \* tuners whose tune_stop and close are sent
  parsing,            \* [Groups -> is_enable_EIT_sched_ of its psisi_manager]
  told,               \* the state in the last notification
  asks, odd, asked    \* history: requests; what was out of the ordinary; the
                      \* run that executes was asked to stop

tables  == <<reserves, retry_reserves, state, told>>
callers == <<force, stop, force_cache_group_id, asks>>
outside == <<tuner, closing, parsing>>
vars == <<now, next_day, executing_reserve, tables, is_need_stop, run, callers, series,
          outside, odd, asked>>

NoGroup == "none"

ASSUME NoGroupAssumption == NoGroup \notin Groups

(* of is the day or the request a reserve stems from: two times taken from  *)
(* the clock have nanoseconds and are never the same.                       *)
NoReserve == [ch |-> 0, start |-> 0, of |-> <<"day", 0>>, kind |-> "init", flags |-> {}]
Idle == [pc |-> "idle", group |-> NoGroup, r |-> NoReserve]
Off  == [pc |-> "off", group |-> NoGroup, work |-> NoGroup, looks |-> 0, timeouted |-> FALSE]
Executing == executing_reserve # NoReserve

Today == now \div Day

Init ==
  /\ now = 0 /\ next_day = Today
  /\ reserves = <<>> /\ retry_reserves = <<>>
  /\ executing_reserve = NoReserve
  /\ state = "ready" /\ told = "ready"
  /\ is_need_stop = FALSE
  /\ force_cache_group_id = NoGroup
  /\ run = Off
  /\ force = [f \in Forcers |-> Idle]
  /\ stop = [s \in Stoppers |-> FALSE]
  /\ series = {}
  /\ tuner = [g \in Groups |-> "free"]
  /\ closing = {}
  /\ parsing = [g \in Groups |-> FALSE]
  /\ asks = 0 /\ odd = {} /\ asked = FALSE

-----------------------------------------------------------------------------
(* The reserves, a vector sorted by start_time.                             *)
Listed(q, r) == \E i \in DOMAIN q : q[i] = r

(* Where a stable sort leaves r after push_back.                            *)
Sorted(q, r) ==
  LET n == Cardinality({i \in DOMAIN q : q[i].start <= r.start})
  IN SubSeq(q, 1, n) \o <<r>> \o SubSeq(q, n + 1, Len(q))

Added(q, r) == IF Listed(q, r) THEN q ELSE Sorted(q, r)

AllAdded(q, rs) ==
  LET add[i \in 0..Len(rs)] == IF i = 0 THEN q ELSE Added(add[i - 1], rs[i])
  IN add[Len(rs)]

Without(q, i) == SubSeq(q, 1, i - 1) \o SubSeq(q, i + 1, Len(q))

(* on_add_reserves: a reserve each step for each channel.                   *)
Series(s) ==
  [i \in DOMAIN Channels |->
     [ch |-> Channels[i], start |-> s.base + i - 1, of |-> s.of, kind |-> "normal",
      flags |-> {"R"} \cup (IF i = 1 THEN {"S", "N"} ELSE {})
                      \cup (IF i = Len(Channels) THEN {"E", "N"} ELSE {})]]

(* Mutant: a single retry is taken for the first of several.                *)
RetrySeriesOpen(q) ==
  [i \in DOMAIN q |->
     [q[i] EXCEPT !.flags = IF i = 1 THEN {"S", "N"} ELSE IF i = Len(q) THEN {"E", "N"} ELSE {}]]

(* The retries q as a series of their own, which is not retried.            *)
RetrySeries(q) ==
  [i \in DOMAIN q |->
     [q[i] EXCEPT !.flags = (IF i = 1 THEN {"S", "N"} ELSE {})
                              \cup (IF i = Len(q) THEN {"E", "N"} ELSE {})]]

ForceReserve(f, ch) ==
  [ch |-> ch, start |-> now, of |-> <<"force", f>>, kind |-> "force", flags |-> {"S", "E"}]

Retry(r) == [r EXCEPT !.start = now + RetryAfter, !.flags = {}]

-----------------------------------------------------------------------------
(* The day's series, on the day of schedule_cache_next_day_ alone.          *)
DayBegins ==
  IF Today = next_day
  THEN /\ series' = series \cup {[base |-> next_day * Day + StartTime, of |-> <<"day", next_day>>]}
       /\ next_day' = next_day + IF IntervalDay <= 1 THEN 1 ELSE IntervalDay
  ELSE UNCHANGED <<series, next_day>>

(* check2execute_reserves takes the first reserve whose time has come, or   *)
(* deletes it when it is late.                                              *)
TakeDue ==
  LET due == {i \in DOMAIN reserves : reserves[i].start <= now}
      i == CHOOSE k \in due : \A j \in due : k <= j
  IN IF ~CacheEnabled \/ Executing \/ due = {}
     THEN UNCHANGED <<reserves, executing_reserve, run, odd>>
     ELSE /\ reserves' = Without(reserves, i)
          /\ IF now >= reserves[i].start + Late
             THEN /\ odd' = odd \cup (IF "E" \in reserves[i].flags THEN {"late"} ELSE {})
                  /\ UNCHANGED <<executing_reserve, run>>
             ELSE /\ executing_reserve' = reserves[i]
                  /\ run' = [Off EXCEPT !.pc = "sent"]
                  /\ UNCHANGED odd

CheckLoop ==
  /\ DayBegins
  /\ TakeDue
  /\ UNCHANGED <<now, retry_reserves, state, told, is_need_stop, callers, outside, asked>>

(* on_add_reserves: channel_manager answers.                                *)
AddReserves(s) ==
  /\ s \in series
  /\ series' = series \ {s}
  /\ \/ reserves' = AllAdded(reserves, Series(s))
     \/ "no_channels" \in Troubles /\ UNCHANGED reserves
  /\ UNCHANGED <<now, next_day, executing_reserve, retry_reserves, state, told, is_need_stop, run,
                 callers, outside, odd, asked>>

-----------------------------------------------------------------------------
(* on_exec_cache_schedule                                                   *)
Has(flag) == flag \in executing_reserve.flags
Forced    == executing_reserve.kind = "force"

ExecBegins ==
  /\ run.pc = "sent"
  /\ state' = IF Has("S") THEN "busy" ELSE state
  /\ told' = IF Has("N") THEN state' ELSE told
  /\ retry_reserves' = IF Has("S") THEN <<>> ELSE retry_reserves
  /\ run' = [run EXCEPT !.pc = "name"]
  /\ UNCHANGED <<now, next_day, reserves, executing_reserve, is_need_stop, callers, series,
                 outside, odd, asked>>

(* do_exit; q is what is to be retried then.                                *)
Ends(q, gives_back) ==
  /\ reserves' = IF Has("E") THEN AllAdded(reserves, RetrySeries(q)) ELSE reserves
  /\ retry_reserves' = IF Has("E") THEN <<>> ELSE q
  /\ state' = IF Has("E") THEN "ready" ELSE state
  /\ told' = IF Has("N") THEN state' ELSE told
  /\ closing' = closing \cup IF gives_back /\ run.group # NoGroup THEN {run.group} ELSE {}
  /\ executing_reserve' = NoReserve
  /\ run' = Off
  /\ asked' = FALSE

Exits == Ends(retry_reserves, TRUE)

ToRetry ==
  IF Has("R") THEN Append(retry_reserves, Retry(executing_reserve)) ELSE retry_reserves

(* Mutant: the tuner is given back only after a success.                    *)
FailsOpen == Ends(ToRetry, FALSE)

(* Mutant: the error path returns without do_exit.                          *)
FailsShort ==
  /\ run' = Off /\ asked' = FALSE
  /\ UNCHANGED <<reserves, retry_reserves, state, told, closing, executing_reserve>>

(* do_error                                                                 *)
Fails == Ends(ToRetry, TRUE)

Goes(pc) == run' = [run EXCEPT !.pc = pc]
Settled  == UNCHANGED <<reserves, retry_reserves, state, told, closing, executing_reserve, asked>>
RunRest  == UNCHANGED <<now, next_day, is_need_stop, callers, series, odd>>

(* The run goes on with its own tuner, or with the one of the force request *)
(* that was the last to write force_cache_group_id_.  Without a group the   *)
(* number of the module wraps to that of tuner_control_3, which does not    *)
(* know the sequence and never answers.                                     *)
WorksOn(g) ==
  /\ run' = [run EXCEPT !.pc = IF g = NoGroup THEN "lost" ELSE "infos", !.work = g]
  /\ Settled

NameAnswered ==
  /\ run.pc = "name"
  /\ IF Forced THEN WorksOn(force_cache_group_id) ELSE Goes("open") /\ Settled
  /\ RunRest /\ UNCHANGED <<tuner, parsing>>

OpenAnswered ==
  /\ run.pc = "open"
  /\ \/ \E g \in Groups : /\ tuner[g] = "free"
                          /\ tuner' = [tuner EXCEPT ![g] = "mine"]
                          /\ run' = [run EXCEPT !.pc = "tune", !.group = g]
                          /\ Settled
     \/ /\ \A g \in Groups : tuner[g] # "free"
        /\ Fails
        /\ UNCHANGED tuner
  /\ RunRest /\ UNCHANGED parsing

(* The channel and the tune.                                                *)
TuneAnswered ==
  /\ run.pc = "tune"
  /\ WorksOn(run.group) \/ ("not_tuned" \in Troubles /\ Fails)
  /\ RunRest /\ UNCHANGED <<tuner, parsing>>

InfosAnswered ==
  /\ run.pc = "infos"
  /\ (Goes("enable") /\ Settled) \/ ("no_service" \in Troubles /\ Fails)
  /\ RunRest /\ UNCHANGED <<tuner, parsing>>

EnableAnswered ==
  /\ run.pc = "enable"
  /\ parsing' = [parsing EXCEPT ![run.work] = TRUE]
  /\ Goes(IF is_need_stop THEN "disable" ELSE "look") /\ Settled
  /\ RunRest /\ UNCHANGED tuner

(* After five seconds: there was no update for ten, the time is over, or it *)
(* goes on.  The last update may be that of the run before.                 *)
Look ==
  /\ run.pc = "look"
  /\ \/ Goes("disable")
     \/ run.looks = Looks /\ run' = [run EXCEPT !.pc = "disable", !.timeouted = TRUE]
     \/ /\ run.looks < Looks
        /\ run' = [run EXCEPT !.pc = IF is_need_stop THEN "disable" ELSE "look", !.looks = @ + 1]
  /\ Settled /\ RunRest /\ UNCHANGED <<tuner, parsing>>

(* psisi_manager always succeeds with this.                                 *)
DisableAnswered ==
  /\ run.pc = "disable"
  /\ parsing' = [parsing EXCEPT ![run.work] = FALSE]
  /\ IF run.timeouted \/ is_need_stop THEN Fails ELSE Exits
  /\ RunRest /\ UNCHANGED tuner

Exec ==
  \/ ExecBegins \/ NameAnswered \/ OpenAnswered \/ TuneAnswered \/ InfosAnswered
  \/ EnableAnswered \/ Look \/ DisableAnswered

-----------------------------------------------------------------------------
(* The requests.  on_cache_schedule passes the time on to on_add_reserves.  *)
Asks == asks < MaxAsks /\ asks' = asks + 1
RequestRest ==
  UNCHANGED <<now, next_day, executing_reserve, retry_reserves, state, told, run, outside>>

OnCacheSchedule ==
  /\ Asks
  /\ series' = series \cup {[base |-> now, of |-> <<"ask", asks'>>]}
  /\ RequestRest /\ UNCHANGED <<reserves, force, stop, force_cache_group_id, is_need_stop, odd, asked>>

(* on_cache_schedule_force_current_service, for a tuner that is in range or *)
(* not.  Each end of the request takes the group from whoever wrote it.     *)
Overlap(f) ==
  odd' = odd \cup IF \E o \in Forcers \ {f} : force[o].pc # "idle" THEN {"overlap"} ELSE {}

OnForce(f) ==
  /\ Asks /\ force[f].pc = "idle"
  /\ \/ \E g \in Groups : /\ force_cache_group_id' = g
                          /\ force' = [force EXCEPT ![f].pc = "infos", ![f].group = g]
     \/ force_cache_group_id' = NoGroup /\ UNCHANGED force
  /\ Overlap(f)
  /\ RequestRest /\ UNCHANGED <<reserves, stop, is_need_stop, series, asked>>

ForceInfos(f) ==
  /\ force[f].pc = "infos"
  /\ \/ \E i \in DOMAIN Channels :
          /\ reserves' = Added(reserves, ForceReserve(f, Channels[i]))
          /\ force' = [force EXCEPT ![f].pc = "wait", ![f].r = ForceReserve(f, Channels[i])]
          /\ UNCHANGED force_cache_group_id
     \/ /\ "no_service" \in Troubles
        /\ force' = [force EXCEPT ![f] = Idle]
        /\ force_cache_group_id' = NoGroup
        /\ UNCHANGED reserves
  /\ RequestRest /\ UNCHANGED <<stop, is_need_stop, series, asks, odd, asked>>

ForceLook(f) ==
  /\ force[f].pc = "wait"
  /\ ~Listed(reserves, force[f].r) /\ executing_reserve # force[f].r
  /\ force' = [force EXCEPT ![f] = Idle]
  /\ force_cache_group_id' = NoGroup
  /\ RequestRest /\ UNCHANGED <<reserves, stop, is_need_stop, series, asks, odd, asked>>

(* on_stop_cache_schedule: with nothing to wait for, it takes the request   *)
(* back at once.                                                            *)
OnStop(s) ==
  /\ Asks /\ ~stop[s]
  /\ stop' = [stop EXCEPT ![s] = Executing]
  /\ is_need_stop' = Executing
  /\ asked' = Executing
  /\ RequestRest /\ UNCHANGED <<reserves, force, force_cache_group_id, series, odd>>

(* Mutant: the request waits for one look only.                             *)
StopLookOnce(s) ==
  /\ stop[s]
  /\ stop' = [stop EXCEPT ![s] = FALSE]
  /\ is_need_stop' = FALSE
  /\ RequestRest /\ UNCHANGED <<reserves, force, force_cache_group_id, series, asks, odd, asked>>

StopLook(s) ==
  /\ stop[s] /\ ~Executing
  /\ stop' = [stop EXCEPT ![s] = FALSE]
  /\ is_need_stop' = FALSE
  /\ RequestRest /\ UNCHANGED <<reserves, force, force_cache_group_id, series, asks, odd, asked>>

Requests ==
  \/ OnCacheSchedule
  \/ \E f \in Forcers : OnForce(f)
  \/ \E s \in Stoppers : OnStop(s)

Answers ==
  \/ \E f \in Forcers : ForceInfos(f) \/ ForceLook(f)
  \/ \E s \in Stoppers : StopLook(s)

-----------------------------------------------------------------------------
(* The world: time, tuner_service with its other clients, a restart.        *)
WorldRest ==
  UNCHANGED <<executing_reserve, tables, is_need_stop, run, callers, series, parsing, odd, asked>>

Tick ==
  /\ now < MaxTime
  /\ now' = now + 1
  /\ WorldRest /\ UNCHANGED <<next_day, tuner, closing>>

Closes(g) ==
  /\ g \in closing
  /\ closing' = closing \ {g}
  /\ tuner' = [tuner EXCEPT ![g] = "free"]
  /\ WorldRest /\ UNCHANGED <<now, next_day>>

Other(g) ==
  /\ "no_tuner" \in Troubles
  /\ \/ tuner[g] = "free" /\ tuner' = [tuner EXCEPT ![g] = "other"]
     \/ tuner[g] = "other" /\ tuner' = [tuner EXCEPT ![g] = "free"]
  /\ WorldRest /\ UNCHANGED <<now, next_day, closing>>

(* on_module_up.  No reserve and no request survives; the first day is      *)
(* today.                                                                   *)
Restart ==
  /\ "crash" \in Troubles /\ "crash" \notin odd
  /\ odd' = odd \cup {"crash"}
  /\ next_day' = Today
  /\ reserves' = <<>> /\ retry_reserves' = <<>>
  /\ executing_reserve' = NoReserve
  /\ state' = "ready" /\ told' = "ready"
  /\ is_need_stop' = FALSE /\ asked' = FALSE
  /\ force_cache_group_id' = NoGroup
  /\ run' = Off
  /\ force' = [f \in Forcers |-> Idle]
  /\ stop' = [s \in Stoppers |-> FALSE]
  /\ series' = {}
  /\ tuner' = [g \in Groups |-> "free"]
  /\ closing' = {}
  /\ parsing' = [g \in Groups |-> FALSE]
  /\ UNCHANGED <<now, asks>>

Next ==
  \/ CheckLoop \/ \E s \in series : AddReserves(s)
  \/ Exec \/ Requests \/ Answers
  \/ Tick \/ Restart
  \/ \E g \in Groups : Closes(g) \/ Other(g)

Spec == Init /\ [][Next]_vars

-----------------------------------------------------------------------------
Origins == ({"day", "ask"} \X Nat) \cup ({"force"} \X Forcers)
Reserve == [ch : Nat, start : Nat, of : Origins, kind : {"init", "normal", "force"},
            flags : SUBSET {"S", "E", "N", "R"}]
Pcs == {"off", "sent", "name", "open", "tune", "infos", "enable", "look", "disable", "lost"}

(* Types.  A retry carries no R_FLG: it is not tried again.  There is a     *)
(* fiber of on_exec_cache_schedule, or the request for it, exactly while    *)
(* executing_reserve_ is valid.                                             *)
TypeOK ==
  /\ now \in 0..MaxTime /\ next_day \in Nat /\ asks \in 0..MaxAsks
  /\ reserves \in Seq(Reserve) /\ executing_reserve \in Reserve
  /\ retry_reserves \in Seq({r \in Reserve : r.flags = {}})
  /\ {state, told} \subseteq {"ready", "busy"}
  /\ {is_need_stop, asked} \subseteq BOOLEAN
  /\ force_cache_group_id \in Groups \cup {NoGroup}
  /\ run \in [pc : Pcs, group : Groups \cup {NoGroup}, work : Groups \cup {NoGroup},
              looks : 0..Looks, timeouted : BOOLEAN]
  /\ force \in [Forcers -> [pc : {"idle", "infos", "wait"}, group : Groups \cup {NoGroup}, r : Reserve]]
  /\ stop \in [Stoppers -> BOOLEAN]
  /\ series \subseteq [base : Nat, of : Origins]
  /\ tuner \in [Groups -> {"free", "mine", "other"}] /\ closing \subseteq Groups
  /\ parsing \in [Groups -> BOOLEAN]
  /\ odd \subseteq {"late", "overlap", "crash"}
  /\ Executing <=> run.pc # "off"

(* However a run ends, it leaves nothing behind: its tuner is its own while *)
(* it lasts and then given back once, and psisi_manager parses schedules    *)
(* only for the run that waits for them.                                    *)
LeavesNothing ==
  \A g \in Groups :
    /\ tuner[g] = "mine" <=> run.group = g \/ g \in closing
    /\ ~(run.group = g /\ g \in closing)
    /\ parsing[g] => run.work = g /\ run.pc \in {"look", "disable"}

(* A stop that came during a run is in force until the run is over, though  *)
(* all requests to stop share is_need_stop_ and each one resets it.         *)
StopNotLost == asked => is_need_stop

(* While the state is busy, or the listeners were told so last, there is a  *)
(* reserve to come whose end makes it ready and tells them, unless such a   *)
(* reserve was deleted for being late.                                      *)
BusyHasEnd ==
  LET toCome == {reserves[i] : i \in DOMAIN reserves} \cup {executing_reserve}
  IN "late" \notin odd =>
       /\ state = "busy" => \E r \in toCome : "E" \in r.flags
       /\ told = "busy" => \E r \in toCome : {"E", "N"} \subseteq r.flags

(* Who forces a run, or stops one, waits for executing_reserve_ to change:  *)
(* while it is valid there is a fiber that will change it, unless two force *)
(* requests overlap, which can leave that fiber waiting for an answer of    *)
(* nobody.                                                                  *)
CallersNotStuck ==
  "overlap" \notin odd => (Executing => run.pc \notin {"off", "lost"})
=============================================================================
