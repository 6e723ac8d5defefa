------------------------------- MODULE Guide --------------------------------
(***************************************************************************)
(* The programme guide, from the stream to the reserves.                   *)
(*                                                                         *)
(* A run of event_schedule_manager has psisi_manager collect the sections  *)
(* of EIT schedule (event_information_table_sched) and puts the programmes *)
(* in them into its container.  The end of a series of runs makes          *)
(* event_search look for keywords and renew the reserve of each programme  *)
(* it finds: one request to rec_manager removes it, one adds it.  To add a *)
(* reserve rec_manager asks event_schedule_manager for the programme and   *)
(* channel_manager for the name of its service.  channel_manager scans     *)
(* with its lock taken, so that whoever asks waits until it is over.       *)
(*                                                                         *)
(* When runs come, and what they need of tuners, is EventSchedule; what    *)
(* becomes of reserves is Recording; both are cut short here.              *)
(***************************************************************************)
EXTENDS RecTable, SequencesExt

CONSTANTS
  Services,    \* one to a stream
  NumSections, \* of the schedule of a service
  Versions,    \* version numbers before they start again (32)
  Schedule,    \* [Services -> [1..NumSections -> programmes at first]]
  Carries,     \* physical channels: the service each carries, 0 for none
  Wanted,      \* [Jobs -> for each keyword the keys of programmes that match]
  Asked,       \* keys of the programmes that users reserve
  MaxFound,    \* programmes one keyword may find (30)
  Troubles,    \* what may happen besides
  MaxTime, MaxRuns, MaxChanges, MaxAsks, MaxScans \* bounds of a behaviour

Jobs == {"name", "ex"}

ASSUME GuideAssumption ==
  /\ Services \subseteq Nat \ {0} /\ NumSections \in Nat \ {0} /\ MaxFound \in Nat \ {0}
  /\ MaxChanges \in Nat /\ Versions \in Nat /\ Versions > MaxChanges
  /\ Carries \in Seq(Services \cup {0}) /\ DOMAIN Wanted = Jobs
  /\ Troubles \subseteq {"cut", "not_tuned", "missed", "no_tuner", "no_name", "crash"}

VARIABLES
  now, counts, \* the time; how often the bounded things have happened
  aired,       \* [Services -> [sections -> what is on air]]
  planned,     \* reserves_ of event_schedule_manager: services to come
  run,         \* on_exec_cache_schedule
  tables,      \* tables_ of event_information_table_sched: sections received
  sched_map, saved_map, \* the container: the guide of each service; its file
  channels, saved_channels, \* [physical channels -> entry]; its file
  scan,        \* on_channel_scan, which holds channel_manager's lock
  jobs, search, \* event_search: requests to come, and the one that has its lock
  adding,      \* [Askers -> on_add_reserve_event of rec_manager]
  reserves, recording, \* reserves_ and one of recordings_
  cut,         \* history: services whose guide is from an incomplete reception
  asof,        \* history: [Services -> the programmes on air at that time]
  heard        \* history: services whose stream had a name after the last scan

airing  == <<aired, tables>>
guide   == <<sched_map, saved_map, cut, asof>>
running == <<planned, run>>
channel == <<channels, saved_channels, scan, heard>>
asking  == <<jobs, search, adding>>
booked  == <<reserves, recording>>
vars == <<now, counts, airing, guide, running, channel, asking, booked>>

Askers == {"search", "user"}
Sections == 1..NumSections
Off     == [pc |-> "off", s |-> 0, last |-> FALSE]
Idle    == [pc |-> "idle", job |-> "name", k |-> 0, found |-> <<>>, i |-> 0, doubt |-> FALSE]
NotAdding == [pc |-> "idle", key |-> NoKey, p |-> <<>>]
NoScan  == [pc |-> "off", ch |-> 0]
Up      == run.pc # "down"

(* Mutant: nobody waits for a scan.                                         *)
NeverLocked == FALSE
Locked == scan.pc # "off"

(* An entry of channel_manager: the service, and whether its stream has a    *)
(* name, which the NIT need not have.                                       *)
None == [s |-> 0, named |-> FALSE]
Known(chs) == {chs[c].s : c \in DOMAIN chs} \ {0}
Named(chs) == {e.s : e \in {chs[c] : c \in {d \in DOMAIN chs : chs[d].named}}}
OnAir(s)   == UNION {ToSet(aired[s][n].events) : n \in Sections}

(* A start of the process: an earlier one has left a scan and a guide.      *)
Init ==
  /\ now = 1 /\ counts = [runs |-> 0, changes |-> 0, asks |-> 0, scans |-> 0]
  /\ aired = [s \in Services |->
                [n \in Sections |-> [num |-> n, ver |-> Versions - 1, events |-> Schedule[s][n]]]]
  /\ planned = {} /\ run = Off /\ tables = {}
  /\ sched_map = [s \in Services |-> FlattenSeq(Schedule[s])] /\ saved_map = sched_map
  /\ cut = Services /\ asof = [s \in Services |-> {}]
  /\ \E c \in [DOMAIN Carries -> {None} \cup [s : Services, named : BOOLEAN]] :
       /\ \A i \in DOMAIN Carries : c[i].s \in {0, Carries[i]}
       /\ \A s \in Services : Cardinality({i \in DOMAIN c : c[i].s = s}) = 1
       /\ "no_name" \notin Troubles => Named(c) = Services
       /\ channels = c /\ saved_channels = c
       /\ heard = Named(c)
  /\ scan = NoScan
  /\ jobs = <<>> /\ search = Idle /\ adding = [w \in Askers |-> NotAdding]
  /\ reserves = [i \in Slots |-> Blank] /\ recording = Blank

Counts(what, max) == counts[what] < max /\ counts' = [counts EXCEPT ![what] = @ + 1]
Doubtful(b) == IF b /\ search.pc # "idle" THEN [search EXCEPT !.doubt = TRUE] ELSE search

-----------------------------------------------------------------------------
(* The broadcaster.  A section that has changed has the next version.       *)
NewVersion(section, events) ==
  [section EXCEPT !.ver = (@ + 1) % Versions, !.events = events]

Changed(s, changed) ==
  /\ Counts("changes", MaxChanges)
  /\ aired' = [aired EXCEPT ![s] = [n \in Sections |->
                 IF n \in DOMAIN changed THEN NewVersion(@[n], changed[n]) ELSE @[n]]]
  /\ UNCHANGED <<now, tables, guide, running, channel, asking, booked>>

(* A programme is shifted in time, or comes to be in another section.       *)
Retimed(s, n) ==
  LET ps == aired[s][n].events
  IN /\ ps # <<>>
     /\ Changed(s, [m \in {n} |-> [ps EXCEPT ![1].start = @ + 1, ![1].end = @ + 1]])

Moves(s, m, n) ==
  LET ps == aired[s][m].events
  IN /\ m # n /\ ps # <<>>
     /\ Changed(s, [x \in {m, n} |-> IF x = m THEN Tail(ps) ELSE Append(aired[s][n].events, ps[1])])

-----------------------------------------------------------------------------
(* event_information_table_sched.  A section is known by its number and     *)
(* version; another version of the same number takes its place.             *)
Duplicate(ts, t) == \E u \in ts : u.num = t.num /\ u.ver = t.ver

(* Mutant: only a smaller version is taken for an older one.                *)
RefreshedOlder(ts, t) == {u \in ts : ~(u.num = t.num /\ u.ver < t.ver)}
Refreshed(ts, t) == {u \in ts : ~(u.num = t.num /\ u.ver # t.ver)}

Arrives(n) ==
  LET t == aired[run.s][n]
  IN /\ run.pc = "parse" /\ ~Duplicate(tables, t)
     /\ tables' = Refreshed(tables, t) \cup {t}
     /\ UNCHANGED <<now, counts, aired, guide, running, channel, asking, booked>>

-----------------------------------------------------------------------------
(* event_schedule_manager.  on_add_reserves plans a run for each channel.   *)
Plan ==
  /\ planned = {} /\ run.pc = "off" /\ ~Locked
  /\ Counts("runs", MaxRuns)
  /\ planned' = Known(channels)
  /\ UNCHANGED <<now, airing, guide, run, channel, asking, booked>>

RunBegins(s) ==
  /\ run.pc = "off" /\ s \in planned
  /\ planned' = planned \ {s}
  /\ run' = [pc |-> "name", s |-> s, last |-> planned = {s}]
  /\ UNCHANGED <<now, counts, airing, guide, channel, asking, booked>>

(* The reply to a request for the name of a stream that is not in the table, *)
(* or whose name is empty there, carries no message, and the run makes a    *)
(* string of it without looking.                                            *)
NameAnswered ==
  /\ run.pc = "name" /\ ~Locked
  /\ run' = [run EXCEPT !.pc = IF run.s \in Named(channels) THEN "tune" ELSE "down"]
  /\ UNCHANGED <<now, counts, airing, guide, planned, channel, asking, booked>>

(* do_exit: the end of a series is saved and announced, and event_search    *)
(* sends itself two requests.                                               *)
Exits ==
  /\ run' = Off
  /\ jobs' = IF run.last THEN jobs \o <<"name", "ex">> ELSE jobs
  /\ saved_map' = IF run.last THEN sched_map' ELSE saved_map

(* The parser gives up what it has as soon as it is switched on.            *)
TuneAnswered ==
  /\ run.pc = "tune"
  /\ \/ /\ run' = [run EXCEPT !.pc = "parse"]
        /\ tables' = {}
        /\ UNCHANGED <<jobs, guide>>
     \/ /\ "not_tuned" \in Troubles
        /\ UNCHANGED <<tables, sched_map, cut, asof>>
        /\ Exits
  /\ UNCHANGED <<now, counts, aired, planned, channel, search, adding, booked>>

(* cache_schedule: programmes in the order of their sections.               *)
Programmes(ts) ==
  LET sorted == SetToSortSeq(ts, LAMBDA t, u : t.num < u.num)
  IN FlattenSeq([i \in DOMAIN sorted |-> sorted[i].events])

(* No section has come for a while, or the run is cut short.  A guide takes *)
(* the place of the one before unless it is empty.                          *)
Received(s) == \A n \in Sections : aired[s][n] \in tables

RunEnds ==
  LET s == run.s
      ps == Programmes(tables)
  IN /\ run.pc = "parse"
     /\ Received(s) \/ "cut" \in Troubles
     /\ IF ps = <<>> THEN UNCHANGED <<sched_map, cut, asof, search>>
        ELSE /\ sched_map' = [sched_map EXCEPT ![s] = ps]
             /\ cut' = IF Received(s) THEN cut \ {s} ELSE cut \cup {s}
             /\ asof' = [asof EXCEPT ![s] = OnAir(s)]
             /\ search' = Doubtful(TRUE)
     /\ Exits
     /\ UNCHANGED <<now, counts, airing, planned, channel, adding, booked>>

(* container::get_events and get_event.                                     *)
Found(keys) ==
  LET all == FlattenSeq([s \in 1..Cardinality(Services) |-> sched_map[s]])
      match == SelectSeq(all, LAMBDA p : p.key \in keys)
  IN SubSeq(match, 1, IF Len(match) < MaxFound THEN Len(match) ELSE MaxFound)

EventOf(key) == SelectSeq(sched_map[key.service], LAMBDA p : p.key = key)

-----------------------------------------------------------------------------
(* event_search: on_add_rec_reserve_keyword_search, one at a time.          *)
NextKeyword(x) ==
  IF x.k < Len(Wanted[x.job]) THEN [x EXCEPT !.pc = "get", !.k = @ + 1] ELSE Idle
NextProgramme(x) ==
  IF x.i < Len(x.found) THEN [x EXCEPT !.pc = "remove", !.i = @ + 1] ELSE NextKeyword(x)

SearchBegins ==
  /\ search.pc = "idle" /\ jobs # <<>>
  /\ search' = NextKeyword([Idle EXCEPT !.job = jobs[1]])
  /\ jobs' = Tail(jobs)
  /\ UNCHANGED <<now, counts, airing, guide, running, channel, adding, booked>>

GetEvents ==
  /\ search.pc = "get"
  /\ search' = NextProgramme([search EXCEPT !.found = Found(Wanted[search.job][search.k]), !.i = 0,
                                            !.doubt = FALSE])
  /\ UNCHANGED <<now, counts, airing, guide, running, channel, jobs, adding, booked>>

SkipEnded ==
  /\ search.pc = "remove" /\ now > search.found[search.i].end
  /\ search' = NextProgramme(search)
  /\ UNCHANGED <<now, counts, airing, guide, running, channel, jobs, adding, booked>>

SlotOf(key) == {i \in Slots : reserves[i].used /\ reserves[i].key = key}
Without(key) == IF SlotOf(key) = {} THEN reserves ELSE CloseUp(reserves, Least(SlotOf(key)))
AddFor(w, key) == adding' = [adding EXCEPT ![w] = [pc |-> "event", key |-> key, p |-> <<>>]]

(* Mutant: a programme that is reserved is left as it is.                   *)
RemoveNothing ==
  LET p == search.found[search.i]
  IN /\ search.pc = "remove" /\ now <= p.end
     /\ AddFor("search", p.key)
     /\ search' = [search EXCEPT !.pc = "add", !.doubt = @ \/ Unused(reserves) = {}]
     /\ UNCHANGED <<now, counts, airing, guide, running, channel, jobs, booked>>

(* The old reserve is removed, whether there is one or not, and the request *)
(* to add the new one sent.                                                 *)
RemoveOld ==
  LET p == search.found[search.i]
  IN /\ search.pc = "remove" /\ now <= p.end
     /\ reserves' = Without(p.key)
     /\ AddFor("search", p.key)
     /\ search' = [search EXCEPT !.pc = "add", !.doubt = @ \/ Unused(reserves') = {}]
     /\ UNCHANGED <<now, counts, airing, guide, running, channel, jobs, recording>>

-----------------------------------------------------------------------------
(* rec_manager: on_add_reserve_event for event_search, which goes on with   *)
(* the reply whatever it says, and for users.                               *)
Recordings == [g \in {"g1"} |-> recording]
ReserveFor(p) == [Blank EXCEPT !.used = TRUE, !.key = p.key, !.start = p.start, !.end = p.end,
                               !.event = TRUE]

AddReplied(w) ==
  /\ adding' = [adding EXCEPT ![w] = NotAdding]
  /\ search' = IF w = "search" THEN NextProgramme(search)
               ELSE Doubtful(reserves' # reserves)

EventAnswered(w) ==
  LET ps == EventOf(adding[w].key)
  IN /\ adding[w].pc = "event"
     /\ IF ps = <<>> THEN UNCHANGED reserves /\ AddReplied(w)
        ELSE /\ adding' = [adding EXCEPT ![w].pc = "name", ![w].p = <<ps[1]>>]
             /\ UNCHANGED <<search, reserves>>
     /\ UNCHANGED <<now, counts, airing, guide, running, channel, jobs, recording>>

(* With the name, which may be missing, the reserve is added.               *)
ServiceNameAnswered(w) ==
  /\ adding[w].pc = "name" /\ ~Locked
  /\ reserves' = AddTo(reserves, Recordings, ReserveFor(adding[w].p[1]))
  /\ AddReplied(w)
  /\ UNCHANGED <<now, counts, airing, guide, running, channel, jobs, recording>>

UserAdds(key) ==
  /\ adding["user"].pc = "idle" /\ Counts("asks", MaxAsks)
  /\ AddFor("user", key)
  /\ UNCHANGED <<now, airing, guide, running, channel, jobs, search, booked>>

UserRemoves(i) ==
  /\ reserves[i].used /\ Counts("asks", MaxAsks)
  /\ reserves' = CloseUp(reserves, i)
  /\ search' = Doubtful(TRUE)
  /\ UNCHANGED <<now, airing, guide, running, channel, jobs, adding, recording>>

(* The check loop: reserves that have passed go, the first that is due is   *)
(* recorded.                                                                *)
CheckLoop ==
  LET passed(r) == r.used /\ r.start < now /\ r.end <= now
      due == {i \in Slots : reserves[i].used /\ reserves[i].start <= now /\ now < reserves[i].end}
  IN /\ \/ \E i \in Slots : passed(reserves[i]) /\ reserves' = CloseUp(reserves, i) /\ UNCHANGED recording
        \/ /\ ~recording.used /\ due # {}
           /\ recording' = reserves[Least(due)] /\ reserves' = CloseUp(reserves, Least(due))
        \/ /\ recording.used /\ recording.end <= now
           /\ recording' = Blank /\ UNCHANGED reserves
     /\ UNCHANGED <<now, counts, airing, guide, running, channel, asking>>

-----------------------------------------------------------------------------
(* channel_manager: on_channel_scan forgets all channels first.  Without a  *)
(* tuner it is over at once.                                                *)
ScanBegins ==
  /\ ~Locked /\ Counts("scans", MaxScans)
  /\ channels' = [c \in DOMAIN Carries |-> None]
  /\ scan' = [pc |-> "open", ch |-> 1]
  /\ UNCHANGED <<now, airing, guide, running, saved_channels, heard, asking, booked>>

(* Mutant: the lock is kept.                                                *)
ScanOpensKeepsLock ==
  /\ scan.pc = "open"
  /\ \/ scan' = [scan EXCEPT !.pc = "scan"] /\ UNCHANGED heard
     \/ "no_tuner" \in Troubles /\ scan' = [scan EXCEPT !.pc = "stuck"] /\ heard' = Named(channels)
  /\ UNCHANGED <<now, counts, airing, guide, running, channels, saved_channels, asking, booked>>

ScanOpens ==
  /\ scan.pc = "open"
  /\ \/ scan' = [scan EXCEPT !.pc = "scan"] /\ UNCHANGED heard
     \/ "no_tuner" \in Troubles /\ scan' = NoScan /\ heard' = Named(channels)
  /\ UNCHANGED <<now, counts, airing, guide, running, channels, saved_channels, asking, booked>>

(* One physical channel: nothing is received, or its stream is entered, with *)
(* a name or without, unless it is there from another channel.              *)
Entered(s, named) ==
  IF s \in Known(channels) THEN channels ELSE [channels EXCEPT ![scan.ch] = [s |-> s, named |-> named]]

ScanChannel ==
  LET s == Carries[scan.ch]
  IN /\ scan.pc = "scan"
     /\ \/ channels' = IF s = 0 THEN channels ELSE Entered(s, TRUE)
        \/ "no_name" \in Troubles /\ s # 0 /\ channels' = Entered(s, FALSE)
        \/ "missed" \in Troubles /\ channels' = channels
     /\ IF scan.ch < Len(Carries)
        THEN scan' = [scan EXCEPT !.ch = @ + 1] /\ UNCHANGED <<saved_channels, heard>>
        ELSE scan' = NoScan /\ saved_channels' = channels' /\ heard' = Named(channels')
     /\ UNCHANGED <<now, counts, airing, guide, running, asking, booked>>

-----------------------------------------------------------------------------
Tick ==
  /\ now < MaxTime /\ now' = now + 1
  /\ UNCHANGED <<counts, airing, guide, running, channel, asking, booked>>

(* The process ends, by itself or because of NameAnswered, and starts with  *)
(* what the files hold.  The reserves are saved at each change.             *)
Restart ==
  /\ ~Up \/ "crash" \in Troubles
  /\ planned' = {} /\ run' = Off /\ tables' = {}
  /\ sched_map' = saved_map
  /\ cut' = Services
  /\ channels' = saved_channels /\ heard' = Named(saved_channels)
  /\ scan' = NoScan
  /\ jobs' = <<>> /\ search' = Idle /\ adding' = [w \in Askers |-> NotAdding]
  /\ recording' = Blank
  /\ UNCHANGED <<now, counts, aired, saved_map, asof, saved_channels, reserves>>

Broadcast ==
  \/ \E s \in Services, n \in Sections : Retimed(s, n)
  \/ \E s \in Services, m, n \in Sections : Moves(s, m, n)
  \/ \E n \in Sections : Arrives(n)
Runs == Plan \/ (\E s \in Services : RunBegins(s)) \/ NameAnswered \/ TuneAnswered \/ RunEnds
Search == SearchBegins \/ GetEvents \/ SkipEnded \/ RemoveOld
Adds(w) == EventAnswered(w) \/ ServiceNameAnswered(w)
Users == (\E key \in Asked : UserAdds(key)) \/ (\E i \in Slots : UserRemoves(i))
Scans == ScanOpens \/ ScanChannel

Next ==
  \/ Up /\ (Broadcast \/ Runs \/ Search \/ Users \/ CheckLoop \/ ScanBegins \/ Scans \/ Tick)
  \/ Up /\ \E w \in Askers : Adds(w)
  \/ Restart

Spec == Init /\ [][Next]_vars

(* The scan goes on; rec_manager gets its answers, and those the lock has   *)
(* held up before the next scan begins.                                     *)
Fairness ==
  /\ WF_vars(Up /\ Scans)
  /\ \A w \in Askers : WF_vars(Up /\ EventAnswered(w)) /\ SF_vars(Up /\ ServiceNameAnswered(w))
FairSpec == Spec /\ Fairness

-----------------------------------------------------------------------------
(* The guide of a service from a complete reception holds each programme    *)
(* that was on air when it was taken, once, with its times, however often   *)
(* the sections changed and whichever came again while it was received.     *)
GuideIsWhole ==
  \A s \in Services \ cut :
    /\ ToSet(sched_map[s]) = asof[s]
    /\ Len(sched_map[s]) = Cardinality(asof[s])

(* When event_search has renewed a reserve, it is there with the times of   *)
(* the guide, or is recorded.  In doubt: there was no room for it, the      *)
(* guide was replaced since, or users changed the table in the meantime.    *)
Kept(t, g, p) ==
  \/ \E i \in Slots : t[i].used /\ t[i].key = p.key /\ t[i].start = p.start /\ t[i].end = p.end
  \/ g.used /\ g.key = p.key
SearchRenews ==
  [][Adds("search") /\ adding'["search"].pc = "idle" /\ ~search.doubt
       => Kept(reserves', recording', search.found[search.i])]_vars

(* A run is brought down by the name of its stream only if the last scan to *)
(* end did not find the stream, or found it without a name: never because a *)
(* scan is under way, which has forgotten all names.                        *)
RunHasItsName == run.pc = "down" => run.s \notin heard

(* Whoever adds a reserve is answered, though it may take a scan.           *)
AddIsAnswered ==
  \A w \in Askers : adding[w].pc # "idle" ~> adding[w].pc = "idle" \/ ~Up
=============================================================================
