----------------------------- MODULE PsisiProofs -----------------------------
(***************************************************************************)
(* For any channels and any number of tunes: while psisi_manager is ready, *)
(* its infos are of the channel tuned last, unless a fiber of an earlier   *)
(* tune announced it.                                                      *)
(***************************************************************************)
EXTENDS Psisi, TLAPS

Chans == Channels \cup {None}

TypeOK ==
  /\ tuner \in {"stopped", "begin", "success", "error"}
  /\ ch \in Chans
  /\ stream \in {"off", "on", "silent"}
  /\ tunes \in 0..MaxTunes
  /\ tables \in [Tables -> Seq(Chans)]
  /\ known \in [Tables -> SUBSET Chans]
  /\ async_delete \in BOOLEAN
  /\ comp_flag \in [Tables -> 0..2]
  /\ network \in Chans /\ services \subseteq Chans /\ events \subseteq Chans
  /\ state \in {"ready", "not_ready"}
  /\ is_detected_PAT \in BOOLEAN /\ pat_old \in BOOLEAN /\ looked \in BOOLEAN
  /\ heard \in {None, "detected", "not_detected"}
  /\ fiber \in [Fibers -> {"none", "wait", "poll"}]
  /\ odd \in BOOLEAN

(* A fiber is of a tune that has succeeded.                                 *)
FibersAreOfTunes ==
  /\ \A f \in Fibers : fiber[f] # "none" => f <= tunes
  /\ tuner # "stopped" => tunes \in Fibers
  /\ tuner \in {"begin", "error"} => fiber[tunes] = "none"

(* The fiber of the last tune has cleared the tables, while its channel is  *)
(* on; or has announced ready.                                              *)
Cleared ==
  \/ tuner = "success" /\ fiber[tunes] = "poll"
  \/ state = "ready" /\ ~odd

(* From then on no fiber clears them again, and what is listed is of this   *)
(* channel and recognised; what its flag tells of is listed, and cached.    *)
Held(t) ==
  /\ tables[t] \in {<<>>, <<ch>>}
  /\ Recognised(t) = IF tables[t] = <<>> THEN {} ELSE {ch}
  /\ comp_flag[t] # 0 => tables[t] = <<ch>>
Cached ==
  /\ tables["NIT"] = <<ch>> => network = ch
  /\ tables["SDT"] = <<ch>> => services = {ch}
  /\ tables["SDT"] = <<ch>> /\ tables["EIT"] = <<ch>> => events = {ch}
ClearedIsCurrent ==
  Cleared =>
    /\ \A f \in Fibers : fiber[f] # "wait"
    /\ \A t \in Tables : Held(t)
    /\ Cached
    /\ state = "ready" /\ ~odd => Complete

(* Ready is not announced before the tune has succeeded, unless by a fiber  *)
(* of another.                                                              *)
ReadyIsLater == tuner \in {"begin", "error"} => state # "ready" \/ odd

IInv == TypeOK /\ FibersAreOfTunes /\ ReadyIsLater /\ ClearedIsCurrent

-----------------------------------------------------------------------------
LEMMA InitTyped == Init => TypeOK
<1>1. SUFFICES ASSUME Init PROVE TypeOK
  OBVIOUS
<1>2. [t \in Tables |-> <<>>] \in [Tables -> Seq(Chans)]
  OBVIOUS
<1>3. 0 \in 0..MaxTunes
  BY PsisiAssumption
<1>4. /\ tables \in [Tables -> Seq(Chans)] /\ known \in [Tables -> SUBSET Chans]
      /\ comp_flag \in [Tables -> 0..2] /\ tunes \in 0..MaxTunes
  BY <1>1, <1>2, <1>3 DEF Init
<1>5. fiber \in [Fibers -> {"none", "wait", "poll"}]
  BY <1>1 DEF Init
<1>6. /\ tuner \in {"stopped", "begin", "success", "error"} /\ ch \in Chans
      /\ stream \in {"off", "on", "silent"} /\ async_delete \in BOOLEAN
      /\ network \in Chans /\ services \subseteq Chans /\ events \subseteq Chans
      /\ state \in {"ready", "not_ready"}
  BY <1>1 DEF Init, Chans
<1>7. /\ is_detected_PAT \in BOOLEAN /\ pat_old \in BOOLEAN /\ looked \in BOOLEAN
      /\ heard \in {None, "detected", "not_detected"} /\ odd \in BOOLEAN
  BY <1>1 DEF Init
<1>8. QED BY <1>4, <1>5, <1>6, <1>7 DEF TypeOK

LEMMA InitIInv == Init => IInv
<1>1. SUFFICES ASSUME Init PROVE IInv
  OBVIOUS
<1>2. TypeOK
  BY <1>1, InitTyped
<1>3. FibersAreOfTunes
  BY <1>1 DEF Init, FibersAreOfTunes
<1>4. ReadyIsLater /\ ~Cleared
  BY <1>1 DEF Init, ReadyIsLater, Cleared
<1>5. QED BY <1>2, <1>3, <1>4 DEF IInv, ClearedIsCurrent

-----------------------------------------------------------------------------
(* The types.                                                               *)
LEMMA ParsesTyped ==
  ASSUME TypeOK, NEW t \in Tables, Parses(t), CheckUpdate(t)
  PROVE  /\ known' \in [Tables -> SUBSET Chans]
         /\ tables' \in [Tables -> Seq(Chans)]
         /\ async_delete' \in BOOLEAN
         /\ comp_flag' \in [Tables -> 0..2]
<1>1. \A u \in Tables : Recognised(u) \subseteq Chans
  BY DEF TypeOK, Recognised
<1>2. ch \in Chans /\ tables[t] \in Seq(Chans)
  BY DEF TypeOK
<1>3. known' \in [Tables -> SUBSET Chans]
  BY <1>1, <1>2 DEF Parses
<1>4. Append(tables[t], ch) \in Seq(Chans)
  BY <1>2
<1>5. tables' \in [Tables -> Seq(Chans)]
  BY <1>4 DEF Parses, TypeOK
<1>6. comp_flag' \in [Tables -> 0..2]
  BY DEF CheckUpdate, TypeOK
<1>7. QED BY <1>3, <1>5, <1>6 DEF Parses, Forgets

LEMMA ElementsTyped ==
  ASSUME NEW q \in Seq(Chans)
  PROVE  ToSet(q) \subseteq Chans /\ (q # <<>> => Head(q) \in Chans)
BY DEF ToSet

LEMMA NoticesTyped == TypeOK /\ Notices => TypeOK'
<1>1. SUFFICES ASSUME TypeOK, Notices PROVE TypeOK'
  OBVIOUS
<1>2. CASE NoticePAT
  <2>1. \A u \in Tables : Recognised(u) \subseteq Chans
    BY <1>1 DEF TypeOK, Recognised
  <2>2. known' \in [Tables -> SUBSET Chans]
    BY <1>2, <2>1 DEF NoticePAT
  <2>3. QED BY <1>1, <1>2, <2>2 DEF NoticePAT, NoticeRest, outside, caches, Forgets, TypeOK
<1>3. CASE NoticeNIT
  <2>1. known' \in [Tables -> SUBSET Chans] /\ tables' \in [Tables -> Seq(Chans)]
        /\ async_delete' \in BOOLEAN /\ comp_flag' \in [Tables -> 0..2]
    BY <1>1, <1>3, ParsesTyped DEF NoticeNIT, Tables
  <2>2. IsNew("NIT") => tables'["NIT"] = Append(tables["NIT"], ch)
    BY <1>1, <1>3 DEF NoticeNIT, Parses, TypeOK, Tables
  <2>3. network' \in Chans
    <3>1. CASE IsNew("NIT")
      <4>1. tables["NIT"] \in Seq(Chans) /\ ch \in Chans
        BY <1>1 DEF TypeOK, Tables
      <4>2. Append(tables["NIT"], ch) \in Seq(Chans) /\ Append(tables["NIT"], ch) # <<>>
        BY <4>1
      <4>3. Head(Append(tables["NIT"], ch)) \in Chans
        BY <4>2, ElementsTyped
      <4>4. network' = Head(Append(tables["NIT"], ch))
        BY <1>3, <2>2, <3>1 DEF NoticeNIT, CachedNetwork
      <4>5. QED BY <4>3, <4>4
    <3>2. CASE ~IsNew("NIT")
      BY <1>1, <1>3, <3>2 DEF NoticeNIT, TypeOK
    <3>3. QED BY <3>1, <3>2
  <2>4. QED BY <1>1, <1>3, <2>1, <2>3 DEF NoticeNIT, NoticeRest, outside, pat, TypeOK
<1>4. CASE NoticeSDT
  <2>1. known' \in [Tables -> SUBSET Chans] /\ tables' \in [Tables -> Seq(Chans)]
        /\ async_delete' \in BOOLEAN /\ comp_flag' \in [Tables -> 0..2]
    BY <1>1, <1>4, ParsesTyped DEF NoticeSDT, Tables
  <2>2. tables'["SDT"] \in Seq(Chans)
    BY <2>1 DEF Tables
  <2>3. services' \subseteq Chans /\ events' \subseteq Chans
    BY <1>1, <1>4, <2>2, ElementsTyped DEF NoticeSDT, CachedServices, CachedEvents, TypeOK
  <2>4. QED BY <1>1, <1>4, <2>1, <2>3 DEF NoticeSDT, NoticeRest, outside, pat, TypeOK
<1>5. CASE NoticeEIT
  <2>1. known' \in [Tables -> SUBSET Chans] /\ tables' \in [Tables -> Seq(Chans)]
        /\ async_delete' \in BOOLEAN /\ comp_flag' \in [Tables -> 0..2]
    BY <1>1, <1>5, ParsesTyped DEF NoticeEIT, Tables
  <2>2. events' \subseteq Chans
    BY <1>1, <1>5 DEF NoticeEIT, CachedEvents, TypeOK
  <2>3. QED BY <1>1, <1>5, <2>1, <2>2 DEF NoticeEIT, NoticeRest, outside, pat, TypeOK
<1>6. QED BY <1>1, <1>2, <1>3, <1>4, <1>5 DEF Notices

LEMMA FiberTyped ==
  ASSUME TypeOK, NEW f \in Fibers, Clear(f) \/ Announce(f) \/ GivesUp(f)
  PROVE  TypeOK'
<1>1. CASE Clear(f)
  <2>1. [t \in Tables |-> <<>>] \in [Tables -> Seq(Chans)]
    OBVIOUS
  <2>2. QED BY <1>1, <2>1 DEF Clear, StabilizeRest, outside, caches, TypeOK
<1>2. CASE Announce(f)
  BY <1>2 DEF Announce, StabilizeRest, Outlived, outside, caches, parsers, TypeOK
<1>3. CASE GivesUp(f)
  BY <1>3 DEF GivesUp, StabilizeRest, outside, caches, parsers, TypeOK
<1>4. QED BY <1>1, <1>2, <1>3

LEMMA TunerTyped ==
  ASSUME TypeOK, FibersAreOfTunes,
         (\E c \in Channels : TuningBegin(c)) \/ TuningSuccess \/ TuningError \/ TuneStop \/ StreamChanges
  PROVE  TypeOK'
<1>1. CASE \E c \in Channels : TuningBegin(c)
  <2>1. PICK c \in Channels : TuningBegin(c)
    BY <1>1
  <2>2. tunes' \in 0..MaxTunes
    BY <2>1, PsisiAssumption DEF TuningBegin, TypeOK
  <2>3. QED BY <2>1, <2>2 DEF TuningBegin, NotReady, parsers, caches, pat, TypeOK, Chans
<1>2. CASE TuningSuccess
  BY <1>2 DEF TuningSuccess, parsers, caches, pat, TypeOK
<1>3. CASE TuningError
  BY <1>3 DEF TuningError, ClearsInfos, NotReady, parsers, TypeOK, Chans
<1>4. CASE TuneStop
  BY <1>4 DEF TuneStop, ClearsInfos, NotReady, parsers, caches, pat, TypeOK, Chans
<1>5. CASE StreamChanges
  BY <1>5 DEF StreamChanges, parsers, caches, pat, TypeOK
<1>6. QED BY <1>1, <1>2, <1>3, <1>4, <1>5

LEMMA LoopTyped == TypeOK /\ (CheckLoop \/ PatAges) => TypeOK'
<1>1. SUFFICES ASSUME TypeOK, CheckLoop \/ PatAges PROVE TypeOK'
  OBVIOUS
<1>2. CASE CheckLoop
  BY <1>1, <1>2 DEF CheckLoop, outside, parsers, caches, TypeOK
<1>3. CASE PatAges
  BY <1>1, <1>3 DEF PatAges, outside, parsers, caches, TypeOK
<1>4. QED BY <1>1, <1>2, <1>3

LEMMA StutterTyped == TypeOK /\ UNCHANGED vars => TypeOK'
BY DEF vars, outside, parsers, caches, pat, TypeOK

LEMMA StepTyped == TypeOK /\ FibersAreOfTunes /\ [Next]_vars => TypeOK'
BY NoticesTyped, FiberTyped, TunerTyped, LoopTyped, StutterTyped DEF Next

-----------------------------------------------------------------------------
(* The fibers and the tunes.                                                *)
LEMMA StepOfTunes == IInv /\ [Next]_vars => FibersAreOfTunes' /\ ReadyIsLater'
<1>1. SUFFICES ASSUME IInv, [Next]_vars PROVE FibersAreOfTunes' /\ ReadyIsLater'
  OBVIOUS
<1>2. /\ tunes \in 0..MaxTunes /\ fiber \in [Fibers -> {"none", "wait", "poll"}]
      /\ FibersAreOfTunes /\ ReadyIsLater
  BY <1>1 DEF IInv, TypeOK
<1>3. CASE \E c \in Channels : TuningBegin(c)
  <2>1. /\ tunes' = tunes + 1 /\ tunes < MaxTunes /\ fiber' = fiber /\ tuner' = "begin" /\ state' # "ready"
    BY <1>3 DEF TuningBegin, NotReady
  <2>2. tunes' \in Fibers /\ fiber[tunes'] = "none"
    BY <1>2, <2>1, PsisiAssumption DEF FibersAreOfTunes, Fibers
  <2>3. QED BY <1>2, <2>1, <2>2, PsisiAssumption DEF FibersAreOfTunes, ReadyIsLater, Fibers
<1>4. CASE TuningSuccess
  BY <1>2, <1>4 DEF TuningSuccess, FibersAreOfTunes, ReadyIsLater, Fibers
<1>5. CASE TuningError
  BY <1>2, <1>5 DEF TuningError, NotReady, FibersAreOfTunes, ReadyIsLater
<1>6. CASE TuneStop
  BY <1>2, <1>6 DEF TuneStop, FibersAreOfTunes, ReadyIsLater
<1>7. CASE StreamChanges \/ CheckLoop \/ PatAges \/ UNCHANGED vars
  BY <1>2, <1>7 DEF StreamChanges, CheckLoop, PatAges, vars, outside, FibersAreOfTunes, ReadyIsLater
<1>8. CASE Notices
  BY <1>2, <1>8 DEF Notices, NoticePAT, NoticeNIT, NoticeSDT, NoticeEIT, NoticeRest, outside,
                    FibersAreOfTunes, ReadyIsLater
<1>9. CASE \E f \in Fibers : Clear(f) \/ Announce(f) \/ GivesUp(f)
  <2>1. PICK f \in Fibers : Clear(f) \/ Announce(f) \/ GivesUp(f)
    BY <1>9
  <2>2. /\ UNCHANGED <<tunes, tuner>> /\ fiber[f] # "none"
        /\ \A g \in Fibers : fiber'[g] = "none" \/ fiber[g] # "none"
        /\ \A g \in Fibers : g # f => fiber'[g] = fiber[g]
    BY <1>2, <2>1 DEF Clear, Announce, GivesUp, StabilizeRest, outside
  <2>3. UNCHANGED <<state, odd>> \/ odd' = Outlived(f)
    BY <2>1 DEF Clear, Announce, GivesUp
  <2>4. FibersAreOfTunes'
    BY <1>2, <2>2 DEF FibersAreOfTunes
  <2>5. ReadyIsLater'
    BY <1>2, <2>2, <2>3 DEF ReadyIsLater, Outlived
  <2>6. QED BY <2>4, <2>5
<1>10. QED BY <1>1, <1>3, <1>4, <1>5, <1>6, <1>7, <1>8, <1>9 DEF Next

-----------------------------------------------------------------------------
(* What is listed after the clear.  The list of a table that has none gets  *)
(* the section of the channel, once.                                        *)
LEMMA ParsesHolds ==
  ASSUME TypeOK, NEW t \in Tables, \A u \in Tables : Held(u), Parses(t), CheckUpdate(t), ch' = ch
  PROVE  /\ \A u \in Tables : Held(u)'
         /\ \A u \in Tables \ {t} : tables'[u] = tables[u]
         /\ IsNew(t) => tables[t] = <<>> /\ tables'[t] = <<ch>>
         /\ ~IsNew(t) => tables'[t] = tables[t]
<1>0. <<ch>> # <<>>
  OBVIOUS
<1>1. IsNew(t) <=> tables[t] = <<>>
  BY <1>0 DEF Held, IsNew
<1>2. /\ \A u \in Tables \ {t} : tables'[u] = tables[u] /\ comp_flag'[u] = comp_flag[u]
                                 /\ known'[u] = Recognised(u)
      /\ known'[t] = Recognised(t) \cup {ch}
      /\ tables'[t] = IF IsNew(t) THEN Append(tables[t], ch) ELSE tables[t]
      /\ ~IsNew(t) /\ comp_flag[t] = 0 => comp_flag'[t] = 0
  BY DEF Parses, CheckUpdate, TypeOK
<1>3. tables'[t] = <<ch>>
  <2>1. CASE IsNew(t)
    <3>1. tables'[t] = Append(<<>>, ch)
      BY <2>1, <1>1, <1>2
    <3>2. Append(<<>>, ch) = <<ch>>
      OBVIOUS
    <3>3. QED BY <3>1, <3>2
  <2>2. CASE ~IsNew(t)
    BY <2>2, <1>1, <1>2 DEF Held
  <2>3. QED BY <2>1, <2>2
<1>4. \A u \in Tables : Recognised(u)' = known'[u]
  BY DEF Parses, Forgets, Recognised
<1>5. Held(t)'
  BY <1>0, <1>2, <1>3, <1>4 DEF Held
<1>6. ASSUME NEW u \in Tables \ {t} PROVE Held(u)'
  BY <1>2, <1>4 DEF Held
<1>7. QED BY <1>1, <1>2, <1>3, <1>5, <1>6 DEF Held

LEMMA NoticesHold ==
  ASSUME IInv, Notices
  PROVE  ClearedIsCurrent'
<1>1. UNCHANGED <<tuner, tunes, ch, fiber, state, odd>>
  BY DEF Notices, NoticePAT, NoticeNIT, NoticeSDT, NoticeEIT, NoticeRest, outside
<1>2. SUFFICES ASSUME Cleared
               PROVE  /\ \A t \in Tables : Held(t)'
                      /\ Cached'
                      /\ Complete => Complete'
  BY <1>1 DEF IInv, ClearedIsCurrent, Cleared
<1>3. TypeOK /\ Cached /\ \A t \in Tables : Held(t)
  BY <1>2 DEF IInv, ClearedIsCurrent
<1>4. ASSUME NEW t \in Tables, CheckUpdate(t), Complete PROVE Complete'
  <2>1. comp_flag \in [Tables -> 0..2] /\ \A u \in Tables : comp_flag[u] = 2
    BY <1>3, <1>4 DEF TypeOK, Complete
  <2>2. comp_flag' = comp_flag
    BY <1>4, <2>1 DEF CheckUpdate
  <2>3. QED BY <2>1, <2>2 DEF Complete
<1>5. "NIT" \in Tables /\ "SDT" \in Tables /\ "EIT" \in Tables /\ <<ch>> # <<>>
  BY DEF Tables
<1>6. ToSet(<<ch>>) = {ch} /\ Head(<<ch>>) = ch
  BY DEF ToSet
<1>7. CASE NoticePAT
  <2>1. UNCHANGED <<tables, comp_flag, caches>>
        /\ \A t \in Tables : Recognised(t)' = Recognised(t)
    BY <1>7 DEF NoticePAT, Forgets, Recognised
  <2>2. \A t \in Tables : Held(t)'
    BY <1>1, <1>3, <2>1 DEF Held
  <2>3. Cached'
    BY <1>1, <1>3, <2>1 DEF Cached, caches
  <2>4. QED BY <2>1, <2>2, <2>3 DEF Complete
<1>8. CASE NoticeNIT
  <2>1. Parses("NIT") /\ CheckUpdate("NIT") /\ UNCHANGED <<services, events>>
    BY <1>8 DEF NoticeNIT
  <2>2. /\ \A t \in Tables : Held(t)'
        /\ tables'["SDT"] = tables["SDT"] /\ tables'["EIT"] = tables["EIT"]
        /\ IsNew("NIT") => tables'["NIT"] = <<ch>>
        /\ ~IsNew("NIT") => tables'["NIT"] = tables["NIT"]
    BY <1>1, <1>3, <1>5, <2>1, ParsesHolds
  <2>3. IF IsNew("NIT") THEN network' = ch ELSE network' = network
    BY <1>6, <1>8, <2>2 DEF NoticeNIT, CachedNetwork
  <2>4. Cached'
    BY <1>1, <1>3, <2>1, <2>2, <2>3 DEF Cached
  <2>5. QED BY <1>4, <1>5, <2>1, <2>2, <2>4
<1>9. CASE NoticeSDT
  <2>1. Parses("SDT") /\ CheckUpdate("SDT") /\ network' = network
    BY <1>9 DEF NoticeSDT
  <2>2. /\ \A t \in Tables : Held(t)'
        /\ tables'["NIT"] = tables["NIT"] /\ tables'["EIT"] = tables["EIT"]
        /\ IsNew("SDT") => tables'["SDT"] = <<ch>>
        /\ ~IsNew("SDT") => tables'["SDT"] = tables["SDT"]
    BY <1>1, <1>3, <1>5, <2>1, ParsesHolds
  <2>3. IsNew("SDT") => services' = {ch} /\ (tables["EIT"] = <<ch>> => events' = {ch})
    BY <1>6, <1>9, <2>2 DEF NoticeSDT, CachedServices, CachedEvents
  <2>4. ~IsNew("SDT") => UNCHANGED <<services, events>>
    BY <1>9 DEF NoticeSDT
  <2>5. Cached'
    BY <1>1, <1>3, <2>1, <2>2, <2>3, <2>4 DEF Cached
  <2>6. QED BY <1>4, <1>5, <2>1, <2>2, <2>5
<1>10. CASE NoticeEIT
  <2>1. Parses("EIT") /\ CheckUpdate("EIT") /\ UNCHANGED <<network, services>>
    BY <1>10 DEF NoticeEIT
  <2>2. /\ \A t \in Tables : Held(t)'
        /\ tables'["NIT"] = tables["NIT"] /\ tables'["SDT"] = tables["SDT"]
        /\ IsNew("EIT") => tables'["EIT"] = <<ch>>
        /\ ~IsNew("EIT") => tables'["EIT"] = tables["EIT"]
    BY <1>1, <1>3, <1>5, <2>1, ParsesHolds
  <2>3. IsNew("EIT") => events' = services \cap {ch}
    BY <1>6, <1>10, <2>2 DEF NoticeEIT, CachedEvents
  <2>4. ~IsNew("EIT") => events' = events
    BY <1>10 DEF NoticeEIT
  <2>5. Cached'
    BY <1>1, <1>3, <2>1, <2>2, <2>3, <2>4 DEF Cached
  <2>6. QED BY <1>4, <1>5, <2>1, <2>2, <2>5
<1>11. QED BY <1>7, <1>8, <1>9, <1>10 DEF Notices

(* Steps that leave the tables and the caches alone and start no fiber.     *)
LEMMA KeptHolds ==
  ASSUME IInv, UNCHANGED <<parsers, caches, ch>>,
         \A f \in Fibers : fiber'[f] = "wait" => fiber[f] = "wait",
         Cleared' => Cleared,
         Cleared' /\ state' = "ready" /\ ~odd' => Complete
  PROVE  ClearedIsCurrent'
<1>1. SUFFICES ASSUME Cleared' PROVE ClearedIsCurrent'
  BY DEF ClearedIsCurrent
<1>2. /\ \A f \in Fibers : fiber[f] # "wait"
      /\ \A t \in Tables : Held(t)
      /\ Cached
  BY <1>1 DEF IInv, ClearedIsCurrent
<1>3. \A t \in Tables : Held(t)'
  BY <1>2 DEF Held, Recognised, parsers
<1>4. Cached'
  BY <1>2 DEF Cached, parsers, caches
<1>5. Complete => Complete'
  BY DEF Complete, parsers
<1>6. QED BY <1>1, <1>2, <1>3, <1>4, <1>5 DEF ClearedIsCurrent

LEMMA TunerHolds ==
  ASSUME IInv,
         \/ \E c \in Channels : TuningBegin(c)
         \/ TuningSuccess \/ TuningError \/ TuneStop \/ StreamChanges
         \/ CheckLoop \/ PatAges \/ UNCHANGED vars
  PROVE  ClearedIsCurrent'
<1>1. /\ FibersAreOfTunes /\ ReadyIsLater /\ ClearedIsCurrent
      /\ fiber \in [Fibers -> {"none", "wait", "poll"}]
  BY DEF IInv, TypeOK
<1>2. CASE (\E c \in Channels : TuningBegin(c)) \/ TuningError
  BY <1>2 DEF TuningBegin, TuningError, NotReady, Cleared, ClearedIsCurrent
<1>3. CASE TuningSuccess
  <2>1. tunes \in Fibers /\ tunes' = tunes /\ fiber'[tunes] = "wait" /\ (state' # "ready" \/ odd')
    BY <1>1, <1>3 DEF TuningSuccess, FibersAreOfTunes, ReadyIsLater
  <2>2. QED BY <2>1 DEF Cleared, ClearedIsCurrent
<1>4. CASE TuneStop
  <2>1. CASE stream = "off"
    <3>1. UNCHANGED <<parsers, caches, ch, fiber, state, odd>> /\ tuner' = "stopped"
      BY <1>4, <2>1 DEF TuneStop
    <3>2. QED BY <1>1, <3>1, KeptHolds DEF Cleared, ClearedIsCurrent
  <2>2. CASE stream # "off"
    BY <1>4, <2>2 DEF TuneStop, NotReady, Cleared, ClearedIsCurrent
  <2>3. QED BY <2>1, <2>2
<1>5. CASE StreamChanges \/ CheckLoop \/ PatAges \/ UNCHANGED vars
  <2>1. UNCHANGED <<parsers, caches, ch, fiber, state, odd, tuner, tunes>>
    BY <1>5 DEF StreamChanges, CheckLoop, PatAges, vars, outside
  <2>2. QED BY <1>1, <2>1, KeptHolds DEF Cleared, ClearedIsCurrent
<1>6. QED BY <1>2, <1>3, <1>4, <1>5

(* The clear of the last tune's fiber, which comes after all others'; ready *)
(* announced by it, or by another, which is odd.                            *)
LEMMA FiberHolds ==
  ASSUME IInv, NEW f \in Fibers, Clear(f) \/ Announce(f) \/ GivesUp(f)
  PROVE  ClearedIsCurrent'
<1>1. /\ FibersAreOfTunes /\ ClearedIsCurrent
      /\ fiber \in [Fibers -> {"none", "wait", "poll"}] /\ tunes \in 0..MaxTunes
  BY DEF IInv, TypeOK
<1>2. UNCHANGED <<caches, ch, tuner, tunes>>
  BY DEF Clear, Announce, GivesUp, StabilizeRest, outside
<1>3. CASE Clear(f)
  <2>1. /\ fiber[f] = "wait" /\ \A g \in 1..(f - 1) : fiber[g] # "wait"
        /\ fiber' = [fiber EXCEPT ![f] = "poll"] /\ UNCHANGED <<state, odd>>
    BY <1>3 DEF Clear
  <2>2. ~Cleared
    BY <1>1, <2>1 DEF ClearedIsCurrent
  <2>3. CASE ~Cleared'
    BY <2>3 DEF ClearedIsCurrent
  <2>4. CASE Cleared'
    <3>1. f = tunes /\ ~(state = "ready" /\ ~odd)
      BY <1>1, <1>2, <2>1, <2>2, <2>4 DEF Cleared
    <3>2. \A g \in Fibers : fiber'[g] # "wait"
      <4>1. TAKE g \in Fibers
      <4>2. CASE g < f
        BY <1>1, <2>1, <4>2 DEF Fibers
      <4>3. CASE g = f
        BY <1>1, <2>1, <4>3
      <4>4. CASE g > f
        BY <1>1, <2>1, <3>1, <4>4 DEF FibersAreOfTunes, Fibers
      <4>5. QED BY <4>2, <4>3, <4>4 DEF Fibers
    <3>3. \A t \in Tables : tables'[t] = <<>> /\ comp_flag'[t] = 0 /\ Recognised(t)' = {}
      BY <1>3 DEF Clear, Recognised
    <3>4. <<ch>> # <<>> /\ "NIT" \in Tables /\ "SDT" \in Tables /\ "EIT" \in Tables
      BY DEF Tables
    <3>5. \A t \in Tables : Held(t)'
      BY <1>2, <3>3 DEF Held
    <3>6. Cached'
      BY <1>2, <3>3, <3>4 DEF Cached
    <3>7. ~(state' = "ready" /\ ~odd')
      BY <2>1, <3>1
    <3>8. QED BY <3>2, <3>5, <3>6, <3>7 DEF ClearedIsCurrent
  <2>5. QED BY <2>3, <2>4
<1>4. CASE Announce(f)
  <2>1. /\ fiber[f] = "poll" /\ Complete /\ fiber' = [fiber EXCEPT ![f] = "none"]
        /\ state' = "ready" /\ odd' = Outlived(f) /\ UNCHANGED parsers
    BY <1>4 DEF Announce
  <2>2. \A g \in Fibers : fiber'[g] # "none" => fiber'[g] = fiber[g]
    BY <1>1, <2>1
  <2>3. Cleared' => Cleared
    <3>1. CASE odd'
      <4>1. Cleared' => tuner = "success" /\ fiber'[tunes] = "poll"
        BY <1>2, <3>1 DEF Cleared
      <4>2. tuner = "success" => tunes \in Fibers
        BY <1>1 DEF FibersAreOfTunes
      <4>3. QED BY <2>2, <4>1, <4>2 DEF Cleared
    <3>2. CASE ~odd'
      BY <2>1, <3>2 DEF Outlived, Cleared
    <3>3. QED BY <3>1, <3>2
  <2>4. QED BY <1>2, <2>1, <2>2, <2>3, KeptHolds
<1>5. CASE GivesUp(f)
  <2>1. fiber' = [fiber EXCEPT ![f] = "none"] /\ UNCHANGED <<parsers, state, odd>>
    BY <1>5 DEF GivesUp
  <2>2. \A g \in Fibers : fiber'[g] # "none" => fiber'[g] = fiber[g]
    BY <1>1, <2>1
  <2>3. tuner = "success" => tunes \in Fibers
    BY <1>1 DEF FibersAreOfTunes
  <2>4. Cleared' => Cleared
    BY <1>2, <2>1, <2>2, <2>3 DEF Cleared
  <2>5. state = "ready" /\ ~odd => Complete
    BY <1>1 DEF ClearedIsCurrent, Cleared
  <2>6. QED BY <1>2, <2>1, <2>2, <2>4, <2>5, KeptHolds
<1>6. QED BY <1>3, <1>4, <1>5

LEMMA StepIInv == IInv /\ [Next]_vars => IInv'
<1>1. SUFFICES ASSUME IInv, [Next]_vars PROVE IInv'
  OBVIOUS
<1>2. TypeOK' /\ FibersAreOfTunes' /\ ReadyIsLater'
  BY <1>1, StepTyped, StepOfTunes DEF IInv
<1>3. ClearedIsCurrent'
  BY <1>1, NoticesHold, TunerHolds, FiberHolds DEF Next
<1>4. QED BY <1>2, <1>3 DEF IInv

THEOREM Inductive == Spec => []IInv
BY InitIInv, StepIInv, PTL DEF Spec

(* The state of psisi_manager has its type.                                 *)
THEOREM TypeCorrect == Spec => []TypeOK
<1>1. IInv => TypeOK
  BY DEF IInv
<1>2. QED BY <1>1, Inductive, PTL

(* on_stabilization_after_tuning: as soon as it is ready, the infos it      *)
(* tells are of the channel tuned last, and of nothing else, whatever is    *)
(* still listed or recognised of the channel before.                        *)
THEOREM ReadyMeansCurrent == Spec => []ReadyIsCurrent
<1>1. IInv => ReadyIsCurrent
  <2>1. SUFFICES ASSUME IInv, state = "ready", ~odd PROVE Current
    BY DEF ReadyIsCurrent
  <2>2. Complete /\ Cached /\ \A t \in Tables : Held(t)
    BY <2>1 DEF IInv, ClearedIsCurrent, Cleared
  <2>3. tables["NIT"] = <<ch>> /\ tables["SDT"] = <<ch>> /\ tables["EIT"] = <<ch>>
    BY <2>2 DEF Complete, Held, Tables
  <2>4. QED BY <2>2, <2>3 DEF Cached, Current
<1>2. QED BY <1>1, Inductive, PTL
=============================================================================
