------------------------------- MODULE Events -------------------------------
(***************************************************************************)
(* psisi_manager's services and their present and following events: the    *)
(* SDT's services are kept across tunes, those of the tuned channel are    *)
(* targets; the events of targets are taken from EIT[p/f], told apart by   *)
(* the time when they are; and the loop of on_check_loop announces that a  *)
(* following event has begun.  A step function, as Programs.               *)
(*                                                                         *)
(* A programme of a service lasts Length; the broadcaster changes both     *)
(* sections of the service when one ends.                                  *)
(***************************************************************************)
EXTENDS Integers, Sequences, SequencesExt, FiniteSets

CONSTANTS
  Channels,         \* [channel -> its services, a sequence]
  Length,           \* of a programme
  LateAfter,        \* 15 seconds
  MaxTime,          \* bound on the time
  ServiceInfosMax, EventPfInfosMax

Begin ==
  [now |-> 0, ch |-> CHOOSE c \in DOMAIN Channels : TRUE, sdt |-> <<>>, eit |-> <<>>,
   known |-> {}, async_delete |-> FALSE, services |-> <<>>, events |-> <<>>, announced |-> FALSE]

(* What is on air: a section of the SDT, and for section 0 the running, for *)
(* 1 the next programme of a service.                                       *)
SdtOnAir(s) == [ch |-> s.ch, services |-> Channels[s.ch]]
EitOnAir(s, sid, sec) ==
  LET k == s.now \div Length + sec
  IN [ch |-> s.ch, sid |-> sid, sec |-> sec, event |-> k + 1, start |-> k * Length, duration |-> Length]

-----------------------------------------------------------------------------
(* find_service_info: those found and those that are new, as long as there  *)
(* is room; a service of the channel becomes a target.                      *)
NoFollow == [used |-> FALSE, start |-> 0]

ServicesCleared(services) ==
  [i \in DOMAIN services |-> [services[i] EXCEPT !.target = FALSE, !.follow = NoFollow]]

CachedServices(services, sdt) ==
  LET Cached(infos, t) ==
        FoldLeft(LAMBDA r, svc :
                      LET at == SelectInSeq(r.all, LAMBDA i : i.ch = t.ch /\ i.sid = svc)
                      IN IF r.full THEN r
                         ELSE IF at # 0 THEN [r EXCEPT !.all[at].target = TRUE]
                         ELSE IF Len(r.all) = ServiceInfosMax THEN [r EXCEPT !.full = TRUE]
                         ELSE [r EXCEPT !.all = Append(@, [ch |-> t.ch, sid |-> svc, target |-> TRUE,
                                                           follow |-> NoFollow])],
                    infos, t.services)
  IN FoldLeft(Cached, [all |-> services, full |-> FALSE], sdt).all

(* cache_event_pf_infos: the tables of each target, while there is room.    *)
CachedEvents(services, eit) ==
  LET Of(svc) == SelectSeq(eit, LAMBDA t : t.ch = svc.ch /\ t.sid = svc.sid)
      Info(t) == [ch |-> t.ch, sid |-> t.sid, event |-> t.event, start |-> t.start,
                  end |-> t.start + t.duration]
      targets == SelectSeq(services, LAMBDA svc : svc.target)
      all == FlattenSeq([i \in DOMAIN targets |-> Of(targets[i])])
      n == IF Len(all) <= EventPfInfosMax THEN Len(all) ELSE EventPfInfosMax
  IN [i \in 1..n |-> Info(all[i])]

(* Mutant: an event that ends now has passed, one that begins follows.      *)
CheckedStrictly(events, now) ==
  [i \in DOMAIN events |->
     LET e == events[i]
     IN [info |-> e, state |-> IF e.start < now /\ e.end > now THEN "present"
                               ELSE IF e.start >= now THEN "follow" ELSE "already_passed"]]

(* check_event_pf_infos.                                                    *)
Checked(events, now) ==
  [i \in DOMAIN events |->
     LET e == events[i]
     IN [info |-> e, state |-> IF e.start <= now /\ e.end >= now THEN "present"
                               ELSE IF e.start > now THEN "follow" ELSE "already_passed"]]

Refreshed(s) == [s EXCEPT !.events = Checked(CachedEvents(s.services, s.eit), s.now)]

(* find_event_pf_info; 0 if there is none.                                  *)
Find(s, ch, sid, state) ==
  SelectInSeq(s.events, LAMBDA e : e.state = state /\ e.info.ch = ch /\ e.info.sid = sid)

-----------------------------------------------------------------------------
(* on_parser_notice: each section completes once.  An EIT section replaces  *)
(* the one of its service and number with another version.                  *)
Parsed(s, section) ==
  [s EXCEPT !.known = (IF s.async_delete THEN {} ELSE @) \cup {section}, !.async_delete = FALSE]
IsNew(s, section) == s.async_delete \/ section \notin s.known

NoticeSDT(s) ==
  LET new == SdtOnAir(s)
      sdt == Append(s.sdt, new)
      next == [Parsed(s, new) EXCEPT !.sdt = sdt,
                                     !.services = CachedServices(ServicesCleared(@), sdt)]
  IN IF IsNew(s, new) THEN Refreshed(next) ELSE Parsed(s, new)

NoticeEIT(s, sid, sec) ==
  LET new == EitOnAir(s, sid, sec)
      Stays(t) == ~(t.ch = new.ch /\ t.sid = sid /\ t.sec = sec) \/ t = new
      next == [Parsed(s, new) EXCEPT !.eit = Append(SelectSeq(@, Stays), new)]
  IN IF IsNew(s, new) THEN Refreshed(next) ELSE Parsed(s, new)

(* Mutant: what follows is looked up once and for all.                      *)
AssignedNever(s) == s

(* on_check_loop: assign_follow_event_to_service_infos, then                *)
(* check_follow_event_at_service_infos.                                     *)
Assigned(s) ==
  [s EXCEPT !.services = [i \in DOMAIN @ |->
     LET svc == @[i]
         at == Find(s, svc.ch, svc.sid, "follow")
     IN IF svc.target /\ ~svc.follow.used /\ at # 0
        THEN [svc EXCEPT !.follow = [used |-> TRUE, start |-> s.events[at].info.start]]
        ELSE svc]]

CheckLoop(s) ==
  LET assigned == Assigned(s)
      Begun(svc) == svc.target /\ svc.follow.used /\ svc.follow.start <= s.now
      begun == {i \in DOMAIN assigned.services : Begun(assigned.services[i])}
      late == \E i \in begun : assigned.services[i].follow.start + LateAfter < s.now
      told == [assigned EXCEPT !.announced = begun # {},
                 !.services = [i \in DOMAIN @ |-> IF i \in begun THEN [@[i] EXCEPT !.follow = NoFollow]
                                                  ELSE @[i]]]
  IN IF late THEN Refreshed(told) ELSE told

(* A tune of another channel, with what the end of the one before clears,   *)
(* and what its stabilization clears later.                                 *)
Tune(s, c) == [s EXCEPT !.ch = c, !.services = ServicesCleared(@), !.events = <<>>]
Clear(s) == [s EXCEPT !.sdt = <<>>, !.eit = <<>>, !.async_delete = TRUE]

After(s, e) ==
  LET quiet == [s EXCEPT !.announced = FALSE]
  IN CASE e[1] = "tick" -> IF s.now < MaxTime THEN [quiet EXCEPT !.now = @ + 1] ELSE quiet
       [] e[1] = "tune" -> Tune(quiet, e[2])
       [] e[1] = "clear" -> Clear(quiet)
       [] e[1] = "sdt" -> NoticeSDT(quiet)
       [] e[1] = "eit" -> IF e[2] \in ToSet(Channels[s.ch]) THEN NoticeEIT(quiet, e[2], e[3]) ELSE quiet
       [] OTHER -> CheckLoop(quiet)

(* get_current_service_infos and the two queries for events.                *)
CurrentServices(s, num) ==
  LET targets == SelectSeq(s.services, LAMBDA svc : svc.target)
  IN SubSeq(targets, 1, IF Len(targets) <= num THEN Len(targets) ELSE num)
EventOf(s, sid, state) ==
  LET at == Find(s, s.ch, sid, state) IN IF at = 0 THEN -1 ELSE s.events[at].info.event

-----------------------------------------------------------------------------
(* The reference: what has come of what is on air since the tune was clear, *)
(* and whether a loop has seen it all before the programmes end.            *)
Unheard == [clear |-> FALSE, sdt |-> FALSE, eit |-> {}, watched |-> FALSE, due |-> FALSE]
AllEit(s) == {<<sid, sec>> : sid \in ToSet(Channels[s.ch]), sec \in {0, 1}}
Whole(s, t) == t.sdt /\ t.eit = AllEit(s)

Heard(t, s, e) ==
  LET next == After(s, e)
      ends == next.now \div Length # s.now \div Length
  IN CASE e[1] = "tick" ->
            [t EXCEPT !.eit = IF ends THEN {} ELSE @,
                      !.due = IF ends THEN t.watched ELSE @, !.watched = IF ends THEN FALSE ELSE @]
       [] e[1] = "tune" -> Unheard
       [] e[1] = "clear" -> [Unheard EXCEPT !.clear = TRUE]
       [] e[1] = "sdt" -> [t EXCEPT !.sdt = t.clear]
       [] e[1] = "eit" -> [t EXCEPT !.eit = IF t.clear /\ <<e[2], e[3]>> \in AllEit(s)
                                            THEN @ \cup {<<e[2], e[3]>>} ELSE @]
       [] OTHER -> [t EXCEPT !.watched = @ \/ Whole(s, t), !.due = FALSE]

Steps == {<<"tick">>, <<"clear">>, <<"sdt">>, <<"loop">>} \cup {<<"tune", c>> : c \in DOMAIN Channels}
           \cup {<<"eit", sid, sec>> : sid \in UNION {ToSet(Channels[c]) : c \in DOMAIN Channels}, sec \in {0, 1}}

Reached(n) ==
  LET reached[k \in 0..n] ==
        IF k = 0 THEN {<<Begin, Unheard>>}
        ELSE reached[k - 1] \cup {<<After(x[1], e), Heard(x[2], x[1], e)>> : x \in reached[k - 1], e \in Steps}
  IN reached[n]

(* find_empty_service_info: the services of both channels fit.              *)
Room(s) ==
  Cardinality({<<s.services[i].ch, s.services[i].sid>> : i \in DOMAIN s.services}
              \cup {<<s.ch, sid>> : sid \in ToSet(Channels[s.ch])}) <= ServiceInfosMax

(* In whatever order the sections come and the programmes change: once they *)
(* have come the services are the channel's, and what is present and what   *)
(* follows are the programmes on air; and when a programme ends that a loop *)
(* has seen so, the next loop announces it.                                 *)
EventsAreCurrent(n) ==
  \A x \in Reached(n) :
    LET s == x[1]
        looped == CheckLoop(s)
    IN /\ x[2].sdt /\ Room(s) => {svc.sid : svc \in ToSet(CurrentServices(s, 64))} = ToSet(Channels[s.ch])
       /\ Whole(s, x[2]) /\ Room(s) =>
            \A sid \in ToSet(Channels[s.ch]) :
              /\ EventOf(s, sid, "present") = EitOnAir(s, sid, 0).event
              /\ EventOf(s, sid, "follow") = EitOnAir(s, sid, 1).event
       /\ x[2].due => looped.announced
=============================================================================
