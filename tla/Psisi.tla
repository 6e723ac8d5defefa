------------------------------- MODULE Psisi --------------------------------
(***************************************************************************)
(* One psisi_manager.  The tune thread sends it the packets of the tables  *)
(* (parser_notice), tuner_control its state; 200 ms after a tune a fiber   *)
(* (stabilization_after_tuning) gives up all tables and then waits until   *)
(* NIT, SDT and EIT have come anew, when it announces ready.  on_tune of   *)
(* tuner_service, and all who ask for infos, rely on that.  Nothing ends   *)
(* the fiber when the tuner is stopped or tuned again.                     *)
(*                                                                         *)
(* Notices are handled in the order in which they were sent, and nobody    *)
(* who sends one looks at psisi_manager: a notice is handled at once.      *)
(* tuner_is_tuned_ is TRUE exactly while state_ is ready.  A section of a  *)
(* table is known by the channel whose stream it describes.  Ready does    *)
(* not depend on the infos of programs (Programs); Events has what the     *)
(* events of one service become.                                           *)
(***************************************************************************)
EXTENDS Naturals, SequencesExt

CONSTANTS
  Channels,   \* the streams
  Troubles,   \* what may happen besides
  MaxTunes    \* bound on the tunes of a behaviour, which number the fibers

ASSUME PsisiAssumption ==
  /\ Troubles \subseteq {"silent", "closed", "error"}
  /\ MaxTunes \in Nat \ {0}

VARIABLES
  tuner,     \* tuner_control: what it has announced last ("stopped", "begin", "success", "error")
  ch,        \* the channel of the last tune
  stream,    \* the tune thread: "off", "on", or "silent" if no data comes
  tunes,     \* tunes so far
  tables,    \* [Tables -> tables_: parsed sections in the order of their arrival]
  known,     \* [Tables -> the sections the section_parser recognises]
  async_delete, \* they are to be forgotten first thing
  comp_flag, \* [Tables -> flag_ of EIT_H_, NIT_, SDT_comp_flag_]
  network, services, events, \* the caches: whose infos they hold
  state,     \* state_
  is_detected_PAT,
  pat_old,   \* pat_recv_time_ is more than 30 seconds ago
  looked,    \* check_loop has looked since it or state changed
  heard,     \* the last pat_detection_state announced
  fiber,     \* [1..MaxTunes -> the stabilization after that tune]
  odd        \* history: ready was announced by the fiber of an earlier tune,
             \* or of one that had ended; nothing but that explains what follows

parsers == <<tables, known, async_delete, comp_flag>>
caches  == <<network, services, events>>
pat     == <<is_detected_PAT, pat_old, looked, heard>>
outside == <<tuner, ch, stream, tunes>>
vars == <<outside, parsers, caches, pat, state, fiber, odd>>

Tables == {"NIT", "SDT", "EIT"}
Fibers == 1..MaxTunes
None   == "none"

Init ==
  /\ tuner = "stopped" /\ ch = None /\ stream = "off" /\ tunes = 0
  /\ tables = [t \in Tables |-> <<>>] /\ known = [t \in Tables |-> {}]
  /\ async_delete = FALSE
  /\ comp_flag = [t \in Tables |-> 0]
  /\ network = None /\ services = {} /\ events = {}
  /\ state = "not_ready"
  /\ is_detected_PAT = FALSE /\ pat_old = TRUE /\ looked = FALSE /\ heard = None
  /\ fiber = [f \in Fibers |-> "none"]
  /\ odd = FALSE

-----------------------------------------------------------------------------
(* The notices of tuner_control (on_receive_notify).                        *)
NotReady == state' = "not_ready" /\ odd' = FALSE

TuningBegin(c) ==
  /\ tunes < MaxTunes /\ tuner = "stopped"
  /\ tuner' = "begin" /\ ch' = c /\ tunes' = tunes + 1
  /\ stream' = "off"
  /\ NotReady
  /\ UNCHANGED <<parsers, caches, pat, fiber>>

(* The fiber is a request of its own to itself.                             *)
TuningSuccess ==
  /\ tuner = "begin" /\ stream # "off"
  /\ tuner' = "success"
  /\ fiber' = [fiber EXCEPT ![tunes] = "wait"]
  /\ UNCHANGED <<ch, stream, tunes, parsers, caches, pat, state, odd>>

ClearsInfos ==
  /\ network' = None /\ services' = {} /\ events' = {}
  /\ is_detected_PAT' = FALSE
  /\ UNCHANGED <<pat_old, looked, heard>>

(* tuning_error_stop: no data in time.  It may come yet, until tune_stop.   *)
TuningError ==
  /\ "error" \in Troubles /\ tuner = "begin" /\ stream = "off"
  /\ tuner' = "error"
  /\ ClearsInfos /\ NotReady
  /\ UNCHANGED <<ch, stream, tunes, parsers, fiber>>

(* on_tune_stop announces the end of a stream, unless it had ended before.  *)
TuneStop ==
  /\ tuner \in {"success", "error"}
  /\ tuner' = "stopped" /\ stream' = "off"
  /\ IF stream = "off"
     THEN UNCHANGED <<caches, pat, state, odd>>
     ELSE ClearsInfos /\ NotReady
  /\ UNCHANGED <<ch, tunes, parsers, fiber>>

(* The stream itself.  It does not come back once it has closed.            *)
StreamChanges ==
  /\ tuner # "stopped"
  /\ \/ stream = "off" /\ tuner \in {"begin", "error"} /\ stream' = "on"
     \/ "silent" \in Troubles /\ stream = "on" /\ stream' = "silent"
     \/ "silent" \in Troubles /\ stream = "silent" /\ stream' = "on"
     \/ "closed" \in Troubles /\ tuner = "success" /\ stream # "off" /\ stream' = "off"
  /\ UNCHANGED <<tuner, ch, tunes, parsers, caches, pat, state, fiber, odd>>

-----------------------------------------------------------------------------
(* Mutant: what is recognised outlives the tables.                          *)
RecognisedStill(t) == known[t]

(* on_parser_notice for the table t of ch: check_async_delete of every      *)
(* table, then check_section, which completes a section once.               *)
Recognised(t) == IF async_delete THEN {} ELSE known[t]
IsNew(t) == ch \notin Recognised(t)

Forgets ==
  /\ stream = "on"
  /\ async_delete' = FALSE

Parses(t) ==
  /\ Forgets
  /\ known' = [u \in Tables |-> Recognised(u) \cup IF u = t THEN {ch} ELSE {}]
  /\ tables' = [tables EXCEPT ![t] = IF IsNew(t) THEN Append(@, ch) ELSE @]

CheckUpdate(t) ==
  comp_flag' = [comp_flag EXCEPT ![t] = IF IsNew(t) THEN IF @ = 0 THEN 1 ELSE @
                                        ELSE IF @ = 1 THEN 2 ELSE @]

(* The caches: of the services in the SDT, all are tune targets; of the     *)
(* NIT, the first alone counts; of the EIT, the events of tune targets.     *)
CachedServices(sdt) == ToSet(sdt)
CachedNetwork(nit) == Head(nit)
CachedEvents(targets, eit) == targets \cap ToSet(eit)

NoticeRest == UNCHANGED <<outside, state, fiber, odd>>

NoticePAT ==
  /\ Forgets
  /\ known' = [u \in Tables |-> Recognised(u)]
  /\ pat_old' = FALSE /\ looked' = FALSE
  /\ UNCHANGED <<tables, comp_flag, caches, is_detected_PAT, heard>>
  /\ NoticeRest

NoticeNIT ==
  /\ Parses("NIT") /\ CheckUpdate("NIT")
  /\ network' = IF IsNew("NIT") THEN CachedNetwork(tables'["NIT"]) ELSE network
  /\ UNCHANGED <<services, events, pat>>
  /\ NoticeRest

NoticeSDT ==
  /\ Parses("SDT") /\ CheckUpdate("SDT")
  /\ IF IsNew("SDT")
     THEN /\ services' = CachedServices(tables'["SDT"])
          /\ events' = CachedEvents(services', tables["EIT"])
     ELSE UNCHANGED <<services, events>>
  /\ UNCHANGED <<network, pat>>
  /\ NoticeRest

NoticeEIT ==
  /\ Parses("EIT") /\ CheckUpdate("EIT")
  /\ events' = IF IsNew("EIT") THEN CachedEvents(services, tables'["EIT"]) ELSE events
  /\ UNCHANGED <<network, services, pat>>
  /\ NoticeRest

Notices == NoticePAT \/ NoticeNIT \/ NoticeSDT \/ NoticeEIT

-----------------------------------------------------------------------------
(* on_stabilization_after_tuning.  All wait equally long before they clear. *)
Outlived(f) == f # tunes \/ tuner # "success"
Complete == \A t \in Tables : comp_flag[t] = 2

StabilizeRest == UNCHANGED <<outside, caches, is_detected_PAT, pat_old, heard>>

(* Mutant: the flags still tell of the channel before.                      *)
ClearTablesOnly(f) ==
  /\ fiber[f] = "wait" /\ \A g \in 1..(f - 1) : fiber[g] # "wait"
  /\ fiber' = [fiber EXCEPT ![f] = "poll"]
  /\ tables' = [t \in Tables |-> <<>>]
  /\ async_delete' = TRUE
  /\ UNCHANGED <<known, comp_flag, state, odd, looked>> /\ StabilizeRest

Clear(f) ==
  /\ fiber[f] = "wait" /\ \A g \in 1..(f - 1) : fiber[g] # "wait"
  /\ fiber' = [fiber EXCEPT ![f] = "poll"]
  /\ tables' = [t \in Tables |-> <<>>]
  /\ async_delete' = TRUE
  /\ comp_flag' = [t \in Tables |-> 0]
  /\ UNCHANGED <<known, state, odd, looked>> /\ StabilizeRest

Announce(f) ==
  /\ fiber[f] = "poll" /\ Complete
  /\ fiber' = [fiber EXCEPT ![f] = "none"]
  /\ state' = "ready"
  /\ odd' = Outlived(f)
  /\ looked' = FALSE
  /\ UNCHANGED parsers /\ StabilizeRest

(* 300 looks, 30 seconds.  A stream repeats its tables more often.          *)
GivesUp(f) ==
  /\ fiber[f] = "poll" /\ ~Complete
  /\ stream # "on" \/ Outlived(f)
  /\ fiber' = [fiber EXCEPT ![f] = "none"]
  /\ UNCHANGED <<parsers, state, odd, looked>> /\ StabilizeRest

-----------------------------------------------------------------------------
(* The check for the PAT in on_check_loop, every other second.              *)
(* Mutant: is_detected_PAT_ is reset before it is looked at.                *)
CheckLoopSilent ==
  /\ looked' = TRUE
  /\ is_detected_PAT' = (IF state = "ready" THEN ~pat_old ELSE is_detected_PAT)
  /\ heard' = IF state = "ready" /\ is_detected_PAT' /\ ~is_detected_PAT THEN "detected" ELSE heard
  /\ UNCHANGED <<outside, parsers, caches, pat_old, state, fiber, odd>>

CheckLoop ==
  /\ looked' = TRUE
  /\ is_detected_PAT' = (IF state = "ready" THEN ~pat_old ELSE is_detected_PAT)
  /\ heard' = IF is_detected_PAT' = is_detected_PAT THEN heard
              ELSE IF is_detected_PAT' THEN "detected" ELSE "not_detected"
  /\ UNCHANGED <<outside, parsers, caches, pat_old, state, fiber, odd>>

(* 30 seconds without a PAT: longer than a round of the loop or a look.     *)
PatAges ==
  /\ stream # "on" /\ ~pat_old /\ looked
  /\ \A f \in Fibers : fiber[f] # "wait" /\ (fiber[f] = "poll" => ~Complete)
  /\ pat_old' = TRUE
  /\ UNCHANGED <<outside, parsers, caches, is_detected_PAT, looked, heard, state, fiber, odd>>

Next ==
  \/ \E c \in Channels : TuningBegin(c)
  \/ TuningSuccess \/ TuningError \/ TuneStop \/ StreamChanges
  \/ Notices
  \/ \E f \in Fibers : Clear(f) \/ Announce(f) \/ GivesUp(f)
  \/ CheckLoop \/ PatAges

Spec == Init /\ [][Next]_vars

(* The module's thread runs, its timers expire, a stream repeats its        *)
(* tables, and time goes on.                                                *)
Fairness ==
  /\ WF_vars(NoticePAT) /\ WF_vars(NoticeNIT) /\ WF_vars(NoticeSDT) /\ WF_vars(NoticeEIT)
  /\ \A f \in Fibers : WF_vars(Clear(f)) /\ WF_vars(Announce(f))
  /\ WF_vars(CheckLoop) /\ WF_vars(PatAges)

FairSpec == Spec /\ Fairness

-----------------------------------------------------------------------------
(* While psisi_manager says it is ready, its infos are of the channel that  *)
(* was tuned last, complete, and of nothing else, though sections of the    *)
(* channel before can still be listed when this one's begin to arrive;      *)
(* unless it was a fiber of an earlier tune that said so.                   *)
Current == network = ch /\ services = {ch} /\ events = {ch}

ReadyIsCurrent == state = "ready" /\ ~odd => Current

(* A stream that goes on gets ready, with its own infos, even if the fiber  *)
(* of an earlier tune announces ready too soon.                             *)
Stabilizing == tuner = "success" /\ stream = "on" /\ fiber[tunes] # "none"

GetsReady ==
  Stabilizing ~> (state = "ready" /\ Current) \/ stream # "on" \/ tuner # "success"

(* Listeners who were told that the PAT has been found are told when it is  *)
(* lost, however soon after: without that a recording of a stream that has  *)
(* dried up never ends.                                                     *)
LossIsAnnounced ==
  state = "ready" /\ is_detected_PAT /\ stream # "on"
    ~> heard = "not_detected" \/ stream = "on" \/ state # "ready"
=============================================================================
