-------------------------- MODULE RecordingProofs ---------------------------
(***************************************************************************)
(* Theorems about rec_manager, for any number of slots, results, tuners    *)
(* and programs: the table of reserves is kept, no reserve is lost or      *)
(* doubled, a tuner is in one hand, and a recording has its tuner and its  *)
(* writer.                                                                 *)
(*                                                                         *)
(* What the tables and the fibers do holds whatever happens (Base): every  *)
(* write of the table moves it from one packed and sorted table to         *)
(* another, and the check loop and the start have one message or fiber     *)
(* each under way.  What the tuners and the handler do holds as long as    *)
(* nothing has raced on rec_progress_ (Sound), and rests on two queues: a  *)
(* tuner is held by the message, the fiber or the recording that will give *)
(* it back, and gets one stop and one close, next to each other.           *)
(***************************************************************************)
EXTENDS Recording, FiniteSetTheorems, FunctionTheorems, TLAPS

-----------------------------------------------------------------------------
(* The inductive invariant.  What the types leave open: only the answer to  *)
(* open may have no tuner, flags tell a reserve from a recording, and each  *)
(* fiber has its own places.                                                *)
Events == [what : {"opened"}, g : Groups \cup {NoGroup}]
            \cup [what : {"post", "start", "stop", "pat_lost", "tuned", "not_tuned"}, g : Groups]
Calls  == [what : {"open"}, g : {NoGroup}]
            \cup [what : {"tune", "tuning", "tune_stop", "close"}, g : Groups]

Entry(F) == [used : BOOLEAN, key : [service : Nat, event : Nat], start : Nat, end : Nat,
             event : BOOLEAN, period : Nat, flags : SUBSET F]

In(g, t) == h[g][t].pc \in {"work", "noticed"}

FiberType ==
  /\ fiber \in [Fibers -> [pc : Pcs, g : Groups \cup {NoGroup}, n : Nat]]
  /\ fiber["check"].pc \in {"sleep", "open", "start"}
  /\ fiber["start"].pc \in {"sleep", "channel", "tune", "event", "pause", "force", "readd"}
  /\ IF At("start", "sleep") THEN Starting = NoGroup ELSE Starting \in Groups
  /\ At("epg", "ask") => fiber["epg"].n \in Slots
  /\ At("watch", "ask") => fiber["watch"].g \in Groups

(* The files, now or after a save.                                          *)
Image == [reserves : [Slots -> Entry({"req", "passed"})], results : 0..ResultMax]

DataType ==
  /\ reserves \in [Slots -> Entry({"req", "passed"})] /\ disk \in Seq(Image)
  /\ recordings \in [Groups -> Entry({"now", "passed"})]
  /\ results \in 0..ResultMax /\ accepted \in Nat /\ gone \in Nat

WorldType ==
  /\ now \in 1..MaxTime /\ up \in BOOLEAN
  /\ inbox \in Seq(Events) /\ svcq \in Seq(Calls)
  /\ progress \in [Groups -> Progress] /\ b25 \in [Groups -> BOOLEAN]
  /\ h \in [Groups -> [Threads -> [pc : {"out", "call", "work", "noticed"}, case : Progress]]]
  /\ tuner \in [Groups -> {"free", "mine", "other"}]
  /\ stream \in [Groups -> {"off", "tuning", "on", "silent"}]
  /\ odd \subseteq {"raced", "early", "moved", "stale", "leak", "crash", "cut"}
  /\ \A g \in Groups : /\ h[g]["tune"].pc # "call"
                       /\ \A t \in Threads : /\ In(g, t) => h[g][t].case # "init"
                                             /\ h[g][t].pc = "noticed" => h[g][t].case # "recording"

TypeInv == FiberType /\ DataType /\ WorldType

(* The tables.                                                              *)
Empty(t)   == \A i \in Slots : ~t[i].used => t[i].start = 0
Lasting(t) == \A i \in Slots : ~t[i].used => t[i].period = 0

(* A table that is kept, as far as nothing has moved or left a gap in it.   *)
Kept(t, o) ==
  /\ t \in [Slots -> Entry({"req", "passed"})]
  /\ Lasting(t) /\ NoneTwice(t)
  /\ "stale" \notin o => InFront(t) /\ Empty(t)
  /\ "moved" \notin o => InOrder(t)

(* What a crash may leave in the files is kept, too; the flag of a reserve  *)
(* that has passed is in one only if the loop was cut off while it took     *)
(* several out.                                                             *)
Clean(t) == t \in [Slots -> Entry({"req"})]

TableInv ==
  /\ Kept(reserves, odd) /\ \A k \in DOMAIN disk : Kept(disk[k].reserves, odd)
  /\ "moved" \notin odd => "stale" \notin odd
  /\ "cut" \notin odd => Clean(reserves) /\ Clean(Last(disk).reserves)
  /\ ~up => Len(disk) <= 1
  /\ SavedIsCurrent

(* How many in a queue are of a kind, and how many of those are for a       *)
(* tuner.                                                                   *)
Count(q, S)        == Cardinality({i \in DOMAIN q : q[i] \in S})
Queued(q, what)    == Count(q, [what : {what}, g : Groups \cup {NoGroup}])
QueuedFor(q, what, g) == Count(q, {On(what, g)})
One(b)             == IF b THEN 1 ELSE 0

(* One request of the check loop and one of a start are under way at most.  *)
OpenOnce  == Queued(svcq, "open") + Queued(inbox, "opened") = One(At("check", "open"))
StartOnce == Queued(inbox, "start") + One(~At("start", "sleep")) = One(At("check", "start"))
TuneOnce  ==
  Queued(svcq, "tune") + Queued(svcq, "tuning") + Queued(inbox, "tuned") + Queued(inbox, "not_tuned")
    = One(At("start", "tune"))
TuneFor(g) ==
  QueuedFor(svcq, "tune", g) + QueuedFor(svcq, "tuning", g)
    + QueuedFor(inbox, "tuned", g) + QueuedFor(inbox, "not_tuned", g)
TunesStarting == \A g \in Groups : TuneFor(g) # 0 => g = Starting

Control == OpenOnce /\ StartOnce /\ TuneOnce /\ TunesStarting

(* The handler of a tuner, as long as nothing has raced: rec_progress_ is   *)
(* the case that a thread is in, only one is in it, and the notice of the   *)
(* end goes out once.                                                       *)
Posts(g)   == QueuedFor(inbox, "post", g)
Records(g) == "now" \in recordings[g].flags
Closing(g) == \E t \in Threads : h[g][t].pc = "noticed" /\ h[g][t].case = "post"
Written    == {"recording", "success", "error", "post"}

Handled(g) ==
  /\ \A t \in Threads : In(g, t) =>
       IF h[g][t].case = "recording" THEN progress[g] \in Written ELSE progress[g] = h[g][t].case
  /\ ~(In(g, "tune") /\ In(g, "rec"))
  /\ Posts(g) # 0 => Records(g) /\ Posts(g) = 1 /\ (progress[g] = "init" \/ Closing(g))
  /\ Posts(g) = 0 => IF Records(g) THEN progress[g] # "init" /\ ~Closing(g)
                                   ELSE progress[g] = "init" \/ Closing(g)
  /\ "early" \notin odd =>
       /\ progress[g] \in Written /\ ~Closing(g) => b25[g]
       /\ \A t \in Threads : h[g][t].pc = "noticed" /\ h[g][t].case = "pre" => b25[g]

(* The tuner: it is held by the answer to open, by a start or by a          *)
(* recording, or is about to be closed, once; what is fed has a stream.     *)
Begun(g)  == Starting = g \/ QueuedFor(inbox, "start", g) # 0
Opened(g) == QueuedFor(inbox, "opened", g) # 0
Held(g)   == Opened(g) \/ Begun(g) \/ Records(g)
Given(g)  == QueuedFor(svcq, "close", g)
Fed(g)    == \/ Records(g)
             \/ Starting = g /\ fiber["start"].pc \in {"event", "pause", "force", "readd"}
             \/ QueuedFor(inbox, "tuned", g) # 0
             \/ QueuedFor(svcq, "tuning", g) # 0

Owned(g) ==
  /\ Begun(g) \/ Records(g) => recordings[g].used
  /\ ~(Begun(g) /\ Records(g))
  /\ Opened(g) => ~Begun(g) /\ ~Records(g)
  /\ Held(g) => tuner[g] = "mine" /\ Given(g) = 0
  /\ Given(g) # 0 => tuner[g] = "mine" /\ Given(g) = 1
  /\ "leak" \notin odd /\ tuner[g] = "mine" => Held(g) \/ Given(g) # 0
  /\ Fed(g) => stream[g] # "off"

(* A stop and a close follow each other.                                    *)
Pairs(q) ==
  \A i \in DOMAIN q :
    /\ q[i].what = "tune_stop" => i < Len(q) /\ q[i + 1] = On("close", q[i].g)
    /\ q[i].what = "close" /\ i # 1 => q[i - 1] = On("tune_stop", q[i].g)
Paired == Pairs(svcq) /\ (First("close") => stream[Head(svcq).g] = "off")

Sound == Paired /\ \A g \in Groups : Handled(g) /\ Owned(g)

Base == TypeInv /\ TableInv /\ Accounted /\ Control
IInv == Base /\ (~Raced => Sound)

-----------------------------------------------------------------------------
(* Numbers.                                                                 *)
LEMMA Least0 ==
  ASSUME NEW T \in SUBSET Nat, T # {}
  PROVE  \E n \in T : \A m \in T : n <= m
<1> DEFINE R == {ss \in Nat \X Nat : ss[1] < ss[2]}
<1>1. IsWellFoundedOn(R, Nat)
  BY NatLessThanWellFounded DEF OpToRel
<1>2. ASSUME NEW x \in Nat, NEW y \in Nat, y < x
      PROVE  <<y, x>> \in R
  BY <1>2
<1> HIDE DEF R
<1>3. PICK x \in T : \A y \in T : ~(<<y, x>> \in R)
  BY <1>1, WFMin
<1>4. ASSUME NEW y \in T PROVE x <= y
  <2>1. x \in Nat /\ y \in Nat /\ ~(y < x)
    BY <1>2, <1>3
  <2>2. QED BY <2>1
<1>5. QED BY <1>4

LEMMA Induct ==
  ASSUME NEW T \in SUBSET Nat, 0 \in T, \A n \in T : n + 1 \in T
  PROVE  T = Nat
<1>1. SUFFICES ASSUME Nat \ T # {} PROVE FALSE
  OBVIOUS
<1>2. PICK n \in Nat \ T : \A m \in Nat \ T : n <= m
  BY <1>1, Least0
<1>3. n # 0 /\ n - 1 \in Nat /\ n - 1 \in T
  BY <1>2
<1>4. QED BY <1>2, <1>3

(* Least is what its name says.                                             *)
LEMMA LeastIs ==
  ASSUME NEW S \in SUBSET Slots, S # {}
  PROVE  Least(S) \in S /\ \A j \in S : Least(S) <= j
<1>1. S \in SUBSET Nat
  BY DEF Slots
<1>2. \E i \in S : \A j \in S : i <= j
  BY <1>1, Least0
<1>3. QED BY <1>2 DEF Least

LEMMA UpTo ==
  ASSUME NEW n \in Nat
  PROVE  IsFiniteSet(1..n) /\ Cardinality(1..n) = n
<1>1. 1 \in Int /\ n \in Int
  OBVIOUS
<1>2. IsFiniteSet(1..n) /\ Cardinality(1..n) = IF 1 > n THEN 0 ELSE n - 1 + 1
  BY <1>1, FS_Interval
<1>3. QED BY <1>2

-----------------------------------------------------------------------------
(* How many elements of a queue are in a set.                               *)
LEMMA CountType ==
  ASSUME NEW M, NEW q \in Seq(M), NEW S
  PROVE  /\ Count(q, S) \in Nat
         /\ Count(q, S) = 0 <=> \A i \in DOMAIN q : q[i] \notin S
         /\ IsFiniteSet({i \in DOMAIN q : q[i] \in S})
<1> DEFINE D == {i \in DOMAIN q : q[i] \in S}
<1>1. DOMAIN q = 1..Len(q) /\ Len(q) \in Nat
  OBVIOUS
<1>2. IsFiniteSet(DOMAIN q)
  BY <1>1, UpTo
<1>3. IsFiniteSet(D)
  BY <1>2, FS_Subset
<1>4. Cardinality(D) \in Nat
  BY <1>3, FS_CardinalityType
<1>5. Cardinality(D) = 0 <=> D = {}
  BY <1>3, FS_EmptySet
<1>6. QED BY <1>3, <1>4, <1>5 DEF Count

(* One more at the end.                                                     *)
LEMMA CountLast ==
  ASSUME NEW M, NEW q \in Seq(M), NEW e \in M, NEW S
  PROVE  Count(Append(q, e), S) = Count(q, S) + One(e \in S)
<1> DEFINE D == {i \in DOMAIN q : q[i] \in S}
           p == Append(q, e)
           E == {i \in DOMAIN p : p[i] \in S}
           n == Len(q) + 1
<1>1. /\ DOMAIN q = 1..Len(q) /\ Len(q) \in Nat /\ DOMAIN p = 1..n
      /\ \A i \in 1..Len(q) : p[i] = q[i]
      /\ p[n] = e
  OBVIOUS
<1>2. IsFiniteSet(D)
  BY CountType
<1>3. n \notin D
  BY <1>1
<1>4. E = IF e \in S THEN D \cup {n} ELSE D
  <2> HIDE DEF p
  <2>1. \A i : i \in 1..n <=> i \in 1..Len(q) \/ i = n
    BY <1>1
  <2> HIDE DEF n
  <2>2. \A i : i \in E <=> (i \in D \/ (i = n /\ e \in S))
    BY <1>1, <2>1
  <2>3. QED BY <2>2
<1> HIDE DEF D, E, n
<1>5. Cardinality(D \cup {n}) = Cardinality(D) + 1
  BY <1>2, <1>3, FS_AddElement
<1>6. Cardinality(D) \in Nat
  BY <1>2, FS_CardinalityType
<1>7. Cardinality(E) = Cardinality(D) + One(e \in S)
  BY <1>4, <1>5, <1>6 DEF One
<1>8. QED BY <1>7 DEF Count, D, E

(* One less at the beginning.                                               *)
LEMMA CountHead ==
  ASSUME NEW M, NEW q \in Seq(M), q # <<>>, NEW S
  PROVE  /\ Tail(q) \in Seq(M) /\ Head(q) \in M
         /\ Count(q, S) = Count(Tail(q), S) + One(Head(q) \in S)
<1> DEFINE p == Tail(q)
           D == {i \in DOMAIN q : q[i] \in S}
           E == {i \in DOMAIN p : p[i] \in S}
<1>1. /\ DOMAIN q = 1..Len(q) /\ Len(q) \in Nat /\ Len(q) # 0
      /\ p \in Seq(M) /\ DOMAIN p = 1..(Len(q) - 1)
      /\ Head(q) = q[1] /\ Head(q) \in M
      /\ \A i \in 1..(Len(q) - 1) : p[i] = q[i + 1]
  OBVIOUS
<1> DEFINE f == [i \in E |-> i + 1]
<1>2. IsFiniteSet(D)
  BY CountType
<1>3. IsFiniteSet(E)
  BY <1>1, CountType
<1> HIDE DEF p
<1>4. f \in Bijection(E, D \ {1})
  <2>1. \A i \in E : i \in Nat /\ i + 1 \in D \ {1}
    BY <1>1
  <2>2. f \in [E -> D \ {1}]
    BY <2>1
  <2>3. ASSUME NEW a \in E, NEW b \in E, f[a] = f[b] PROVE a = b
    BY <2>1, <2>3
  <2>4. ASSUME NEW t \in D \ {1} PROVE \E s \in E : f[s] = t
    <3>1. t \in 1..Len(q) /\ t # 1 /\ q[t] \in S
      OBVIOUS
    <3>2. t - 1 \in 1..(Len(q) - 1) /\ t - 1 + 1 = t
      BY <3>1, <1>1
    <3>3. t - 1 \in E
      BY <3>1, <3>2, <1>1
    <3>4. QED BY <3>2, <3>3
  <2> HIDE DEF f, D, E
  <2>5. f \in Injection(E, D \ {1})
    BY <2>2, <2>3, Fun_IsInj
  <2>6. f \in Surjection(E, D \ {1})
    BY <2>2, <2>4, Fun_IsSurj
  <2>7. QED BY <2>5, <2>6 DEF Bijection
<1>5. Cardinality(D \ {1}) = Cardinality(E)
  <2> HIDE DEF f, D, E
  <2>1. ExistsBijection(E, D \ {1})
    BY <1>4 DEF ExistsBijection
  <2>2. QED BY <2>1, <1>3, FS_Bijection
<1>6. 1 \in D <=> Head(q) \in S
  BY <1>1
<1> HIDE DEF D, E, f
<1>7. Cardinality(D \ {1}) = IF 1 \in D THEN Cardinality(D) - 1 ELSE Cardinality(D)
  BY <1>2, FS_RemoveElement
<1>8. Cardinality(D) \in Nat /\ Cardinality(E) \in Nat
  BY <1>2, <1>3, FS_CardinalityType
<1>9. Cardinality(D) = Cardinality(E) + One(Head(q) \in S)
  BY <1>5, <1>6, <1>7, <1>8 DEF One
<1>10. QED BY <1>1, <1>9 DEF Count, D, E, p

-----------------------------------------------------------------------------
(* The table.  The first k slots and no others are used.                    *)
Filled(t, k) == \A i \in Slots : t[i].used <=> i <= k

LEMMA SlotsAre ==
  /\ ReserveMax \in Nat /\ ReserveMax # 0 /\ ResultMax \in Nat /\ ResultMax # 0
  /\ Slots = 1..ReserveMax /\ IsFiniteSet(Slots)
<1>1. ReserveMax \in Nat /\ ReserveMax # 0 /\ ResultMax \in Nat /\ ResultMax # 0
  BY RecTableAssumption
<1>2. QED BY <1>1, UpTo DEF Slots

LEMMA BlankIs ==
  ASSUME NEW F
  PROVE  Blank \in Entry(F) /\ ~Blank.used /\ Blank.start = 0 /\ Blank.period = 0 /\ Blank.flags = {}
BY DEF Blank, NoKey, Entry

LEMMA EntryHas ==
  ASSUME NEW F, NEW r \in Entry(F)
  PROVE  /\ r.used \in BOOLEAN /\ r.start \in Nat /\ r.end \in Nat /\ r.period \in Nat
         /\ r.event \in BOOLEAN /\ r.key \in [service : Nat, event : Nat] /\ r.flags \subseteq F
BY DEF Entry

LEMMA PackedFills ==
  ASSUME NEW F, NEW t \in [Slots -> Entry(F)], InFront(t)
  PROVE  \E k \in 0..ReserveMax : Filled(t, k)
<1>1. CASE Unused(t) = {}
  <2>1. Filled(t, ReserveMax) /\ ReserveMax \in 0..ReserveMax
    BY <1>1, SlotsAre DEF Filled, Unused
  <2>2. QED BY <2>1
<1>2. CASE Unused(t) # {}
  <2> DEFINE n == Least(Unused(t))
  <2>1. n \in Unused(t) /\ \A j \in Unused(t) : n <= j
    <3>1. Unused(t) \in SUBSET Slots
      BY DEF Unused
    <3>2. QED BY <3>1, <1>2, LeastIs
  <2> HIDE DEF n
  <2>2. n \in Slots /\ ~t[n].used
    BY <2>1 DEF Unused
  <2>3. ASSUME NEW i \in Slots PROVE t[i].used <=> i <= n - 1
    <3>1. CASE i < n
      <4>1. i \notin Unused(t) /\ i <= n - 1
        BY <3>1, <2>1, <2>2, SlotsAre
      <4>2. QED BY <4>1 DEF Unused
    <3>2. CASE i = n
      BY <3>2, <2>2, SlotsAre
    <3>3. CASE i > n
      <4>1. n < i /\ ~(i <= n - 1)
        BY <3>3, <2>2, SlotsAre
      <4>2. QED BY <4>1, <2>2 DEF InFront
    <3>4. QED BY <3>1, <3>2, <3>3, <2>2, SlotsAre
  <2>4. n - 1 \in 0..ReserveMax
    BY <2>2, SlotsAre
  <2>5. QED BY <2>3, <2>4 DEF Filled
<1>3. QED BY <1>1, <1>2

LEMMA FilledPacks ==
  ASSUME NEW t, NEW k \in Nat, Filled(t, k)
  PROVE  InFront(t)
BY SlotsAre DEF Filled, InFront

LEMMA FilledCounts ==
  ASSUME NEW t, DOMAIN t = Slots, NEW k \in 0..ReserveMax, Filled(t, k)
  PROVE  UsedIn(t) = k
<1>1. {i \in DOMAIN t : t[i].used} = 1..k
  BY SlotsAre DEF Filled
<1>2. Cardinality(1..k) = k
  BY UpTo
<1>3. QED BY <1>1, <1>2 DEF UsedIn

(* Closing up over a slot.                                                  *)
LEMMA CloseUpIs ==
  ASSUME NEW F, NEW t \in [Slots -> Entry(F)], NEW i \in Slots
  PROVE  /\ CloseUp(t, i) \in [Slots -> Entry(F)]
         /\ \A j \in Slots : CloseUp(t, i)[j] =
              IF j < i THEN t[j] ELSE IF j < ReserveMax THEN t[j + 1] ELSE Blank
         /\ \A j \in Slots : j < ReserveMax => j + 1 \in Slots
<1>1. \A j \in Slots : j < ReserveMax => j + 1 \in Slots
  BY SlotsAre
<1>2. \A j \in Slots : t[j] \in Entry(F)
  OBVIOUS
<1>3. Blank \in Entry(F)
  BY BlankIs
<1>4. QED BY <1>1, <1>2, <1>3 DEF CloseUp

LEMMA CloseUpKeeps ==
  ASSUME NEW F, NEW t \in [Slots -> Entry(F)], NEW i \in Slots
  PROVE  LET u == CloseUp(t, i)
         IN  /\ Lasting(t) => Lasting(u)
             /\ Empty(t) => Empty(u)
             /\ NoneTwice(t) => NoneTwice(u)
             /\ InOrder(t) => InOrder(u)
<1> DEFINE u == CloseUp(t, i)
<1>1. /\ \A j \in Slots : u[j] = IF j < i THEN t[j] ELSE IF j < ReserveMax THEN t[j + 1] ELSE Blank
      /\ \A j \in Slots : j < ReserveMax => j + 1 \in Slots
  BY CloseUpIs
<1>2. ~Blank.used /\ Blank.start = 0 /\ Blank.period = 0
  BY BlankIs
<1> DEFINE from(j) == IF j < i THEN j ELSE j + 1
<1>3. ASSUME NEW j \in Slots
      PROVE  u[j] = Blank \/ (from(j) \in Slots /\ u[j] = t[from(j)])
  BY <1>1, SlotsAre
<1>4. \A j, k \in Slots : j < k => from(j) < from(k)
  BY SlotsAre
<1>5. \A j, k \in Slots : j # k => from(j) # from(k)
  BY SlotsAre
<1> HIDE DEF u, from
<1>6. ASSUME Lasting(t) PROVE Lasting(u)
  BY <1>2, <1>3, <1>6 DEF Lasting
<1>7. ASSUME Empty(t) PROVE Empty(u)
  BY <1>2, <1>3, <1>7 DEF Empty
<1>8. ASSUME NoneTwice(t) PROVE NoneTwice(u)
  <2>1. SUFFICES ASSUME NEW j \in Slots, NEW k \in Slots, j # k, u[j].used, u[k].used
                 PROVE  u[j].key # u[k].key
    BY DEF NoneTwice
  <2>2. from(j) \in Slots /\ u[j] = t[from(j)] /\ from(k) \in Slots /\ u[k] = t[from(k)]
    BY <2>1, <1>2, <1>3
  <2>3. from(j) # from(k)
    BY <2>1, <1>5
  <2>4. QED BY <2>1, <2>2, <2>3, <1>8 DEF NoneTwice
<1>9. ASSUME InOrder(t) PROVE InOrder(u)
  <2>1. SUFFICES ASSUME NEW j \in Slots, NEW k \in Slots, j < k, u[k].used
                 PROVE  u[j].start <= u[k].start
    BY DEF InOrder
  <2>2. from(k) \in Slots /\ u[k] = t[from(k)]
    BY <2>1, <1>2, <1>3
  <2>3. from(j) < from(k)
    BY <2>1, <1>4
  <2>4. CASE u[j] = Blank
    <3>1. u[k].start \in Nat
      BY <2>2, EntryHas
    <3>2. QED BY <2>4, <1>2, <3>1
  <2>5. CASE from(j) \in Slots /\ u[j] = t[from(j)]
    BY <2>1, <2>2, <2>3, <2>5, <1>9 DEF InOrder
  <2>6. QED BY <2>4, <2>5, <1>3
<1>10. QED BY <1>6, <1>7, <1>8, <1>9 DEF u

LEMMA CloseUpFills ==
  ASSUME NEW F, NEW t \in [Slots -> Entry(F)], NEW i \in Slots, NEW k \in 0..ReserveMax, Filled(t, k)
  PROVE  /\ Filled(CloseUp(t, i), IF t[i].used THEN k - 1 ELSE k)
         /\ (IF t[i].used THEN k - 1 ELSE k) \in 0..ReserveMax
<1> DEFINE u == CloseUp(t, i)
<1>1. /\ \A j \in Slots : u[j] = IF j < i THEN t[j] ELSE IF j < ReserveMax THEN t[j + 1] ELSE Blank
      /\ \A j \in Slots : j < ReserveMax => j + 1 \in Slots
  BY CloseUpIs
<1>2. ~Blank.used
  BY BlankIs
<1>3. \A j \in Slots : t[j].used <=> j <= k
  BY DEF Filled
<1> HIDE DEF u
<1>4. CASE t[i].used
  <2>1. i <= k
    BY <1>3, <1>4
  <2>2. ASSUME NEW j \in Slots PROVE u[j].used <=> j <= k - 1
    BY <2>1, <1>1, <1>2, <1>3, SlotsAre
  <2>3. k - 1 \in 0..ReserveMax
    BY <2>1, SlotsAre
  <2>4. QED BY <2>2, <2>3, <1>4 DEF Filled, u
<1>5. CASE ~t[i].used
  <2>1. k < i
    BY <1>3, <1>5, SlotsAre
  <2>2. ASSUME NEW j \in Slots PROVE u[j].used <=> j <= k
    BY <2>1, <1>1, <1>2, <1>3, SlotsAre
  <2>3. QED BY <2>2, <1>5 DEF Filled, u
<1>6. QED BY <1>4, <1>5

-----------------------------------------------------------------------------
(* A reserve that is accepted is put in its place.                          *)
Room(t, i, r, u) ==
  \A j \in Slots : u[j] = IF j < i THEN t[j] ELSE IF j = i THEN r ELSE t[j - 1]

LEMMA AddToIs ==
  ASSUME NEW F, NEW t \in [Slots -> Entry(F)], NEW rs, NEW r \in Entry(F), Accepted(t, rs, r)
  PROVE  LET u == AddTo(t, rs, r)
         IN  /\ u \in [Slots -> Entry(F)]
             /\ \/ \E i \in Slots : /\ Room(t, i, r, u)
                                    /\ t[i].start > r.start
                                    /\ \A j \in Slots : j < i => t[j].start <= r.start
                \/ \E i \in Slots : /\ u = [t EXCEPT ![i] = r] /\ ~t[i].used
                                    /\ \A j \in Slots : j < i => t[j].used
                                    /\ \A j \in Slots : t[j].start <= r.start
<1>1. AddTo(t, rs, r) = InsertAscending(t, r)
  BY DEF AddTo
<1>2. r.start \in Nat /\ \A j \in Slots : t[j] \in Entry(F) /\ t[j].start \in Nat /\ t[j].used \in BOOLEAN
  BY EntryHas
<1>3. CASE Later(t, r) # {}
  <2> DEFINE i == Least(Later(t, r))
             u == MakeRoom(t, i, r)
  <2>1. i \in Later(t, r) /\ \A j \in Later(t, r) : i <= j
    <3>1. Later(t, r) \in SUBSET Slots
      BY DEF Later
    <3>2. QED BY <3>1, <1>3, LeastIs
  <2>2. InsertAscending(t, r) = u
    BY <1>3 DEF InsertAscending
  <2> HIDE DEF i
  <2>3. i \in Slots /\ t[i].start > r.start
    BY <2>1 DEF Later
  <2>4. ASSUME NEW j \in Slots, j < i PROVE t[j].start <= r.start
    <3>1. j \notin Later(t, r)
      BY <2>1, <2>3, <2>4, SlotsAre
    <3>2. QED BY <3>1, <1>2 DEF Later
  <2>5. u \in [Slots -> Entry(F)] /\ Room(t, i, r, u)
    <3>1. \A j \in Slots : j > i => j - 1 \in Slots
      BY <2>3, SlotsAre
    <3>2. \A j \in Slots : j < i \/ j = i \/ j > i
      BY <2>3, SlotsAre
    <3>3. \A j \in Slots : u[j] = IF j < i THEN t[j] ELSE IF j = i THEN r ELSE t[j - 1]
      BY DEF MakeRoom
    <3>4. \A j \in Slots : u[j] \in Entry(F)
      BY <3>1, <3>2, <3>3
    <3>5. u = [j \in Slots |-> u[j]]
      BY DEF MakeRoom
    <3> HIDE DEF u
    <3>6. u \in [Slots -> Entry(F)]
      BY <3>4, <3>5
    <3>7. QED BY <3>3, <3>6 DEF Room
  <2> HIDE DEF u
  <2>6. QED BY <1>1, <2>2, <2>3, <2>4, <2>5
<1>4. CASE Later(t, r) = {}
  <2> DEFINE i == Least(Unused(t))
  <2>1. i \in Unused(t) /\ \A j \in Unused(t) : i <= j
    <3>1. Unused(t) \in SUBSET Slots /\ Unused(t) # {}
      BY DEF Unused, Accepted
    <3>2. QED BY <3>1, LeastIs
  <2>2. InsertAscending(t, r) = [t EXCEPT ![i] = r]
    BY <1>4 DEF InsertAscending
  <2> HIDE DEF i
  <2>3. i \in Slots /\ ~t[i].used
    BY <2>1 DEF Unused
  <2>4. \A j \in Slots : j < i => t[j].used
    <3>1. \A j \in Slots : j < i => j \notin Unused(t)
      BY <2>1, <2>3, SlotsAre
    <3>2. QED BY <3>1 DEF Unused
  <2>5. \A j \in Slots : t[j].start <= r.start
    <3>1. \A j \in Slots : ~(t[j].start > r.start)
      BY <1>4 DEF Later
    <3>2. QED BY <3>1, <1>2
  <2>6. [t EXCEPT ![i] = r] \in [Slots -> Entry(F)]
    OBVIOUS
  <2>7. QED BY <1>1, <2>2, <2>3, <2>4, <2>5, <2>6
<1>5. QED BY <1>3, <1>4

(* Where the slots of the new table come from.                              *)
Comes(t, i, r, u, j) ==
  \/ j = i /\ u[j] = r
  \/ j < i /\ u[j] = t[j]
  \/ j > i /\ j - 1 \in Slots /\ u[j] = t[j - 1]

LEMMA RoomFrom ==
  ASSUME NEW t, NEW r, NEW u, NEW i \in Slots, Room(t, i, r, u)
  PROVE  \A j \in Slots : Comes(t, i, r, u, j)
<1>1. SUFFICES ASSUME NEW j \in Slots PROVE Comes(t, i, r, u, j)
  OBVIOUS
<1>2. u[j] = IF j < i THEN t[j] ELSE IF j = i THEN r ELSE t[j - 1]
  BY DEF Room
<1>3. CASE j < i
  BY <1>2, <1>3 DEF Comes
<1>4. CASE j = i
  BY <1>2, <1>4, SlotsAre DEF Comes
<1>5. CASE j > i
  <2>1. j - 1 \in Slots /\ ~(j < i) /\ j # i
    BY <1>5, SlotsAre
  <2>2. QED BY <2>1, <1>2, <1>5 DEF Comes
<1>6. QED BY <1>3, <1>4, <1>5, SlotsAre

LEMMA AddToKeeps ==
  ASSUME NEW F, NEW t \in [Slots -> Entry(F)], NEW rs, NEW r \in Entry(F), r.used, Accepted(t, rs, r)
  PROVE  LET u == AddTo(t, rs, r)
         IN  /\ u \in [Slots -> Entry(F)]
             /\ Lasting(t) => Lasting(u)
             /\ Empty(t) => Empty(u)
             /\ NoneTwice(t) => NoneTwice(u)
<1> DEFINE u == AddTo(t, rs, r)
<1>1. /\ u \in [Slots -> Entry(F)]
      /\ \/ \E i \in Slots : Room(t, i, r, u)
         \/ \E i \in Slots : u = [t EXCEPT ![i] = r]
  BY AddToIs
<1>2. \A j \in Slots : t[j].used => t[j].key # r.key
  BY DEF Accepted, Listed
<1> HIDE DEF u
(* from(j) is where slot j of u comes from.                                 *)
<1>3. \E i \in Slots, from \in [Slots -> Int] :
        /\ \A j \in Slots : j # i => from[j] \in Slots /\ u[j] = t[from[j]]
        /\ u[i] = r
        /\ \A j, k \in Slots : j # i /\ k # i /\ j # k => from[j] # from[k]
  <2>1. ASSUME NEW i \in Slots, Room(t, i, r, u)
        PROVE  \E from \in [Slots -> Int] :
                 /\ \A j \in Slots : j # i => from[j] \in Slots /\ u[j] = t[from[j]]
                 /\ u[i] = r
                 /\ \A j, k \in Slots : j # i /\ k # i /\ j # k => from[j] # from[k]
    <3> DEFINE from == [j \in Slots |-> IF j < i THEN j ELSE j - 1]
    <3>0. \A j \in Slots : Comes(t, i, r, u, j)
      BY <2>1, RoomFrom
    <3>1. from \in [Slots -> Int]
      BY SlotsAre
    <3>2. ASSUME NEW j \in Slots, j # i PROVE from[j] \in Slots /\ u[j] = t[from[j]]
      <4>1. (j < i /\ u[j] = t[j]) \/ (~(j < i) /\ j - 1 \in Slots /\ u[j] = t[j - 1])
        BY <3>0, <3>2, SlotsAre DEF Comes
      <4>2. QED BY <4>1
    <3>3. u[i] = r
      BY <3>0, SlotsAre DEF Comes
    <3>4. \A j, k \in Slots : j # i /\ k # i /\ j # k => from[j] # from[k]
      BY SlotsAre
    <3> HIDE DEF from
    <3>5. QED BY <3>1, <3>2, <3>3, <3>4
  <2>2. ASSUME NEW i \in Slots, u = [t EXCEPT ![i] = r]
        PROVE  \E from \in [Slots -> Int] :
                 /\ \A j \in Slots : j # i => from[j] \in Slots /\ u[j] = t[from[j]]
                 /\ u[i] = r
                 /\ \A j, k \in Slots : j # i /\ k # i /\ j # k => from[j] # from[k]
    <3> DEFINE from == [j \in Slots |-> j]
    <3>1. from \in [Slots -> Int]
      BY SlotsAre
    <3>2. \A j \in Slots : j # i => from[j] \in Slots /\ u[j] = t[from[j]]
      BY <2>2
    <3>3. u[i] = r
      BY <2>2
    <3>4. \A j, k \in Slots : j # k => from[j] # from[k]
      OBVIOUS
    <3> HIDE DEF from
    <3>5. QED BY <3>1, <3>2, <3>3, <3>4
  <2>3. QED BY <1>1, <2>1, <2>2
<1>4. PICK i \in Slots, from \in [Slots -> Int] :
        /\ \A j \in Slots : j # i => from[j] \in Slots /\ u[j] = t[from[j]]
        /\ u[i] = r
        /\ \A j, k \in Slots : j # i /\ k # i /\ j # k => from[j] # from[k]
  BY <1>3
<1>5. ASSUME Lasting(t) PROVE Lasting(u)
  BY <1>4, <1>5 DEF Lasting
<1>6. ASSUME Empty(t) PROVE Empty(u)
  BY <1>4, <1>6 DEF Empty
<1>7. ASSUME NoneTwice(t) PROVE NoneTwice(u)
  <2>1. SUFFICES ASSUME NEW j \in Slots, NEW k \in Slots, j # k, u[j].used, u[k].used
                 PROVE  u[j].key # u[k].key
    BY DEF NoneTwice
  <2>2. CASE j # i /\ k # i
    <3>1. /\ from[j] \in Slots /\ u[j] = t[from[j]]
          /\ from[k] \in Slots /\ u[k] = t[from[k]] /\ from[j] # from[k]
      BY <2>1, <2>2, <1>4
    <3>2. QED BY <3>1, <2>1, <1>7 DEF NoneTwice
  <2>3. CASE j = i
    <3>1. u[j] = r /\ from[k] \in Slots /\ u[k] = t[from[k]]
      BY <2>1, <2>3, <1>4
    <3>2. QED BY <3>1, <2>1, <1>2
  <2>4. CASE k = i
    <3>1. u[k] = r /\ from[j] \in Slots /\ u[j] = t[from[j]]
      BY <2>1, <2>4, <1>4
    <3>2. QED BY <3>1, <2>1, <1>2
  <2>5. QED BY <2>2, <2>3, <2>4
<1>8. QED BY <1>1, <1>5, <1>6, <1>7 DEF u

LEMMA AddToFills ==
  ASSUME NEW F, NEW t \in [Slots -> Entry(F)], NEW rs, NEW r \in Entry(F), r.used, Accepted(t, rs, r),
         Empty(t), NEW k \in 0..ReserveMax, Filled(t, k)
  PROVE  /\ k + 1 \in 0..ReserveMax
         /\ Filled(AddTo(t, rs, r), k + 1)
         /\ InOrder(t) => InOrder(AddTo(t, rs, r))
<1> DEFINE u == AddTo(t, rs, r)
<1>1. /\ u \in [Slots -> Entry(F)]
      /\ \/ \E i \in Slots : /\ Room(t, i, r, u)
                             /\ t[i].start > r.start
                             /\ \A j \in Slots : j < i => t[j].start <= r.start
         \/ \E i \in Slots : /\ u = [t EXCEPT ![i] = r] /\ ~t[i].used
                             /\ \A j \in Slots : j < i => t[j].used
                             /\ \A j \in Slots : t[j].start <= r.start
  BY AddToIs
<1>2. \A j \in Slots : t[j].used <=> j <= k
  BY DEF Filled
<1>3. r.start \in Nat /\ \A j \in Slots : t[j] \in Entry(F) /\ t[j].start \in Nat
  BY EntryHas
<1>4. k \in Nat /\ k < ReserveMax
  <2>1. PICK j \in Slots : ~t[j].used
    BY DEF Accepted, Unused
  <2>2. QED BY <2>1, <1>2, SlotsAre
<1> HIDE DEF u
<1>5. ASSUME NEW i \in Slots, Room(t, i, r, u), t[i].start > r.start,
             \A j \in Slots : j < i => t[j].start <= r.start
      PROVE  Filled(u, k + 1) /\ (InOrder(t) => InOrder(u))
  <2>1. i <= k
    <3>1. t[i].start # 0
      BY <1>3, <1>5
    <3>2. t[i].used
      BY <3>1 DEF Empty
    <3>3. QED BY <3>2, <1>2
  <2>0. \A j \in Slots : Comes(t, i, r, u, j)
    BY <1>5, RoomFrom
  <2>2. ASSUME NEW j \in Slots PROVE u[j].used <=> j <= k + 1
    <3>1. CASE j = i /\ u[j] = r
      BY <3>1, <2>1, <1>4, SlotsAre
    <3>2. CASE j < i /\ u[j] = t[j]
      BY <3>2, <2>1, <1>2, <1>4, SlotsAre
    <3>3. CASE j > i /\ j - 1 \in Slots /\ u[j] = t[j - 1]
      BY <3>3, <1>2, <1>4, SlotsAre
    <3>4. QED BY <2>0, <3>1, <3>2, <3>3 DEF Comes
  <2>3. ASSUME InOrder(t) PROVE InOrder(u)
    <3>1. SUFFICES ASSUME NEW a \in Slots, NEW b \in Slots, a < b, u[b].used
                   PROVE  u[a].start <= u[b].start
      BY DEF InOrder
    <3>2. \A x \in Slots, y \in Slots : x < y /\ t[y].used => t[x].start <= t[y].start
      BY <2>3 DEF InOrder
    <3>3. \A x \in Slots : x > i /\ t[x].used => r.start <= t[x].start
      BY <3>2, <1>3, <1>5
    <3>4. CASE b = i /\ u[b] = r
      <4>1. a < i /\ u[a] = t[a]
        BY <3>1, <3>4, <2>0, SlotsAre DEF Comes
      <4>2. t[a].start <= r.start
        BY <4>1, <1>5
      <4>3. QED BY <4>1, <4>2, <3>4
    <3>5. CASE b < i /\ u[b] = t[b]
      <4>1. a < i /\ u[a] = t[a]
        BY <3>1, <3>5, <2>0, SlotsAre DEF Comes
      <4>2. QED BY <4>1, <3>1, <3>2, <3>5
    <3>6. CASE b > i /\ b - 1 \in Slots /\ u[b] = t[b - 1]
      <4>1. CASE a = i /\ u[a] = r
        <5>1. CASE b - 1 = i
          BY <5>1, <4>1, <3>6, <1>3, <1>5
        <5>2. CASE b - 1 # i
          <6>1. b - 1 > i
            BY <5>2, <3>6, SlotsAre
          <6>2. QED BY <6>1, <4>1, <3>1, <3>3, <3>6
        <5>3. QED BY <5>1, <5>2
      <4>2. CASE a < i /\ u[a] = t[a]
        <5>1. a < b - 1
          BY <4>2, <3>6, SlotsAre
        <5>2. QED BY <5>1, <4>2, <3>1, <3>2, <3>6
      <4>3. CASE a > i /\ a - 1 \in Slots /\ u[a] = t[a - 1]
        <5>1. a - 1 < b - 1
          BY <3>1, SlotsAre
        <5>2. QED BY <5>1, <4>3, <3>1, <3>2, <3>6
      <4>4. QED BY <4>1, <4>2, <4>3, <2>0 DEF Comes
    <3>7. QED BY <3>4, <3>5, <3>6, <2>0 DEF Comes
  <2>4. QED BY <2>2, <2>3 DEF Filled
<1>6. ASSUME NEW i \in Slots, u = [t EXCEPT ![i] = r], ~t[i].used,
             \A j \in Slots : j < i => t[j].used, \A j \in Slots : t[j].start <= r.start
      PROVE  Filled(u, k + 1) /\ (InOrder(t) => InOrder(u))
  <2>1. i = k + 1
    <3>1. k < i
      BY <1>2, <1>4, <1>6, SlotsAre
    <3>2. k + 1 \in Slots /\ ~(k + 1 <= k)
      BY <1>4, SlotsAre
    <3>3. ~(k + 1 < i)
      BY <3>2, <1>2, <1>6
    <3>4. QED BY <3>1, <3>3, <1>4, SlotsAre
  <2>2. \A j \in Slots : u[j] = IF j = i THEN r ELSE t[j]
    BY <1>6
  <2>3. \A j \in Slots : u[j].used <=> j <= k + 1
    BY <2>1, <2>2, <1>2, <1>4, SlotsAre
  <2>4. ASSUME InOrder(t) PROVE InOrder(u)
    <3>1. SUFFICES ASSUME NEW a \in Slots, NEW b \in Slots, a < b, u[b].used
                   PROVE  u[a].start <= u[b].start
      BY DEF InOrder
    <3>2. b <= k + 1 /\ a # i
      BY <3>1, <2>1, <2>3, <1>4, SlotsAre
    <3>3. CASE b = i
      BY <3>2, <3>3, <2>2, <1>6
    <3>4. CASE b # i
      BY <3>1, <3>2, <3>4, <2>2, <2>4 DEF InOrder
    <3>5. QED BY <3>3, <3>4
  <2>5. QED BY <2>3, <2>4 DEF Filled
<1>7. Filled(u, k + 1) /\ (InOrder(t) => InOrder(u))
  BY <1>1, <1>5, <1>6
<1>8. k + 1 \in 0..ReserveMax
  BY <1>4, SlotsAre
<1>9. QED BY <1>7, <1>8 DEF u

-----------------------------------------------------------------------------
(* A repeat is never added: the reserve it repeats is still listed, or is   *)
(* the recording that has just been made of it.                             *)
LEMMA RepeatedIs ==
  ASSUME NEW F, NEW t, NEW rs, NEW r \in Entry(F),
         r.period # 0 => Listed(t, r.key) \/ Recorded(rs, r.key)
  PROVE  Repeated(t, rs, r) = t
<1>1. RepeatOf(r).key = r.key
  BY DEF RepeatOf, Entry
<1>2. CASE r.period = 0
  BY <1>2 DEF Repeated
<1>3. CASE r.period # 0
  <2>1. ~Accepted(t, rs, RepeatOf(r))
    BY <1>1, <1>3 DEF Accepted
  <2>2. QED BY <2>1 DEF Repeated, AddTo
<1>4. QED BY <1>2, <1>3

(* What a reserve adds to the number of those in use.                       *)
Fill(r) == IF r.used THEN 1 ELSE 0

LEMMA ResultsAre ==
  ASSUME NEW n \in 0..ResultMax, NEW r, r.used \in BOOLEAN
  PROVE  /\ SetResult(n, r) \in 0..ResultMax /\ Dropped(n) \in Nat
         /\ SetResult(n, r) + Dropped(n) = n + Fill(r)
<1>1. n \in Nat /\ ResultMax \in Nat /\ ResultMax # 0 /\ n <= ResultMax
  BY SlotsAre
<1>2. CASE n < ResultMax
  BY <1>1, <1>2 DEF SetResult, Dropped, Fill, One
<1>3. CASE n = ResultMax
  BY <1>1, <1>3 DEF SetResult, Dropped, Fill, One
<1>4. QED BY <1>1, <1>2, <1>3

-----------------------------------------------------------------------------
(* The files as a step leaves them: each of them is kept, and the last has  *)
(* the table t and the number n of results.                                 *)
Agrees(a, t) == \A i \in Slots : a.reserves[i].used = t[i].used /\ a.reserves[i].key = t[i].key
Stored(d, t, n, o) ==
  /\ d \in Seq(Image) /\ d # <<>>
  /\ \A k \in DOMAIN d : Kept(d[k].reserves, o)
  /\ Last(d).results = n /\ Agrees(Last(d), t)

LEMMA LastIs ==
  ASSUME NEW S, NEW d \in Seq(S), d # <<>>
  PROVE  /\ Len(d) \in Nat /\ Len(d) # 0 /\ Len(d) \in DOMAIN d /\ 1 \in DOMAIN d
         /\ Last(d) = d[Len(d)] /\ Last(d) \in S /\ Head(d) = d[1] /\ Head(d) \in S
BY DEF Last

LEMMA AppendedIs ==
  ASSUME NEW S, NEW d \in Seq(S), NEW e \in S
  PROVE  /\ Append(d, e) \in Seq(S) /\ Append(d, e) # <<>> /\ Last(Append(d, e)) = e
         /\ \A k \in DOMAIN Append(d, e) :
              Append(d, e)[k] = e \/ (k \in DOMAIN d /\ Append(d, e)[k] = d[k])
BY DEF Last

LEMMA StoredReserves ==
  ASSUME NEW d, NEW t, NEW n, NEW o, Stored(d, t, n, o), NEW u, Kept(u, o)
  PROVE  Stored(SavesReserves(u, d), u, n, o) /\ Last(SavesReserves(u, d)).reserves = u
<1> DEFINE e == Files(u, Last(d).results)
<1>1. d \in Seq(Image) /\ d # <<>> /\ Last(d).results = n /\ \A k \in DOMAIN d : Kept(d[k].reserves, o)
  BY DEF Stored
<1>2. Last(d) \in Image
  BY <1>1, LastIs
<1>3. e \in Image /\ e.reserves = u /\ e.results = n
  BY <1>1, <1>2 DEF Files, Image, Kept
<1>4. SavesReserves(u, d) = Append(d, e)
  BY DEF SavesReserves
<1> HIDE DEF e
<1>5. /\ Append(d, e) \in Seq(Image) /\ Append(d, e) # <<>> /\ Last(Append(d, e)) = e
      /\ \A k \in DOMAIN Append(d, e) : Append(d, e)[k] = e \/ (k \in DOMAIN d /\ Append(d, e)[k] = d[k])
  BY <1>1, <1>3, AppendedIs
<1>6. QED BY <1>1, <1>3, <1>4, <1>5 DEF Stored, Agrees

LEMMA StoredResults ==
  ASSUME NEW d, NEW t, NEW n, NEW o, Stored(d, t, n, o), NEW m \in 0..ResultMax
  PROVE  /\ Stored(SavesResults(m, d), t, m, o)
         /\ Last(SavesResults(m, d)).reserves = Last(d).reserves
<1> DEFINE e == Files(Last(d).reserves, m)
<1>1. /\ d \in Seq(Image) /\ d # <<>> /\ Agrees(Last(d), t)
      /\ \A k \in DOMAIN d : Kept(d[k].reserves, o)
  BY DEF Stored
<1>2. Last(d) \in Image /\ Kept(Last(d).reserves, o)
  BY <1>1, LastIs
<1>3. e \in Image /\ e.reserves = Last(d).reserves /\ e.results = m
  BY <1>2 DEF Files, Image
<1>4. SavesResults(m, d) = Append(d, e)
  BY DEF SavesResults
<1> HIDE DEF e
<1>5. /\ Append(d, e) \in Seq(Image) /\ Append(d, e) # <<>> /\ Last(Append(d, e)) = e
      /\ \A k \in DOMAIN Append(d, e) : Append(d, e)[k] = e \/ (k \in DOMAIN d /\ Append(d, e)[k] = d[k])
  BY <1>1, <1>3, AppendedIs
<1>6. QED BY <1>1, <1>2, <1>3, <1>4, <1>5 DEF Stored, Agrees

LEMMA StoredAlike ==
  ASSUME NEW d, NEW t, NEW n, NEW o, Stored(d, t, n, o), NEW u,
         \A i \in Slots : u[i].used = t[i].used /\ u[i].key = t[i].key
  PROVE  Stored(d, u, n, o)
BY DEF Stored, Agrees

-----------------------------------------------------------------------------
(* check_reserves changes nothing but flags; each reserve that has passed   *)
(* is entered in the results.                                               *)
Alike(a, b)  == a.used = b.used /\ a.key = b.key /\ a.start = b.start /\ a.period = b.period
PassedOf(t)  == {i \in Slots : "passed" \in t[i].flags}
Turn         == [t : [Slots -> Entry({"req", "passed"})], q : 0..ResultMax, gone : Nat, disk : Seq(Image)]
Counted(s, n) ==
  /\ \A i \in PassedOf(s.t) : s.t[i].used /\ i <= n
  /\ s.q + s.gone = results + gone + Cardinality(PassedOf(s.t))
Looked(s, n) ==
  /\ s \in Turn
  /\ \A i \in Slots : Alike(s.t[i], reserves[i])
  /\ Stored(s.disk, s.t, s.q, odd) /\ Last(s.disk).reserves = Last(disk).reserves
  /\ Clean(reserves) => Counted(s, n)

LEMMA FlagsAre ==
  ASSUME NEW F, NEW t \in [Slots -> Entry(F)], NEW i \in Slots, NEW flags \in SUBSET F
  PROVE  /\ Flagged(t, i, flags) \in [Slots -> Entry(F)]
         /\ Flagged(t, i, flags)[i].flags = t[i].flags \cup flags /\ Alike(Flagged(t, i, flags)[i], t[i])
         /\ \A j \in Slots \ {i} : Flagged(t, i, flags)[j] = t[j]
<1> DEFINE r == [t[i] EXCEPT !.flags = t[i].flags \cup flags]
<1>1. t[i] \in Entry(F)
  OBVIOUS
<1>2. r \in Entry(F) /\ r.flags = t[i].flags \cup flags /\ Alike(r, t[i])
  BY <1>1 DEF Entry, Alike
<1>3. Flagged(t, i, flags) = [t EXCEPT ![i] = r]
  BY DEF Flagged
<1> HIDE DEF r
<1>4. QED BY <1>2, <1>3

LEMMA LookAtLooks ==
  ASSUME results \in 0..ResultMax, gone \in Nat, NEW i \in Slots, NEW s, Looked(s, i - 1)
  PROVE  Looked(LookAt(s, i), i)
<1> DEFINE F == {"req", "passed"}
           t == s.t
           r == t[i]
<1>1. /\ s = [t |-> t, q |-> s.q, gone |-> s.gone, disk |-> s.disk]
      /\ t \in [Slots -> Entry(F)] /\ s.q \in 0..ResultMax /\ s.gone \in Nat /\ s.disk \in Seq(Image)
      /\ \A j \in Slots : Alike(t[j], reserves[j])
      /\ Stored(s.disk, t, s.q, odd) /\ Last(s.disk).reserves = Last(disk).reserves
      /\ Clean(reserves) => Counted(s, i - 1)
  BY DEF Looked, Turn
<1> HIDE DEF t, F
<1>2. i \in Nat /\ i - 1 < i /\ \A j \in Slots : j <= i - 1 => j <= i
  BY SlotsAre
<1>3. r \in Entry(F)
  BY <1>1
<1>4. ASSUME NEW u, Looked(u, i - 1) PROVE Looked(u, i)
  <2>1. \A j \in PassedOf(u.t) : j \in Slots
    BY DEF PassedOf
  <2>2. Counted(u, i - 1) => Counted(u, i)
    BY <2>1, <1>2 DEF Counted
  <2>3. QED BY <1>4, <2>2 DEF Looked
<1>5. CASE Stops(t, i) \/ (~Passed(r) /\ ~Due(r))
  <2>1. LookAt(s, i) = s
    BY <1>5 DEF LookAt, t
  <2>2. QED BY <2>1, <1>4
<1>6. CASE ~Stops(t, i) /\ Passed(r)
  <2> DEFINE u == Flagged(t, i, {"passed"})
             q == SetResult(s.q, r)
             g == s.gone + Dropped(s.q)
             d == SavesResults(q, s.disk)
  <2>1. /\ u \in [Slots -> Entry(F)] /\ u[i].flags = r.flags \cup {"passed"} /\ Alike(u[i], r)
        /\ \A j \in Slots \ {i} : u[j] = t[j]
    <3>1. {"passed"} \in SUBSET F
      BY DEF F
    <3>2. QED BY <3>1, <1>1, FlagsAre
  <2>2. r.used
    BY <1>6 DEF Passed
  <2>3. q \in 0..ResultMax /\ g \in Nat /\ q + g = s.q + s.gone + 1
    <3>1. q \in 0..ResultMax /\ Dropped(s.q) \in Nat /\ q + Dropped(s.q) = s.q + Fill(r)
      BY <1>1, <1>3, EntryHas, ResultsAre
    <3>2. Fill(r) = 1
      BY <2>2 DEF Fill, One
    <3> HIDE DEF q
    <3>3. s.q \in Nat /\ q \in Nat
      BY <1>1, <3>1, SlotsAre
    <3>4. QED BY <3>1, <3>2, <3>3, <1>1
  <2> HIDE DEF u, q, g
  <2>4. Repeated(u, recordings, r) = u
    <3>1. Listed(u, r.key)
      BY <2>1, <2>2 DEF Listed, Alike
    <3>2. QED BY <3>1, <1>3, RepeatedIs
  <2>5. LookAt(s, i) = [t |-> u, q |-> q, gone |-> g, disk |-> d]
    <3>1. LookAt(s, i) = [t |-> Repeated(u, recordings, r), q |-> q, gone |-> g,
                          disk |-> SavesRepeat(u, Repeated(u, recordings, r), d)]
      BY <1>6 DEF LookAt, t, u, q, g
    <3>2. SavesRepeat(u, u, d) = d
      BY DEF SavesRepeat
    <3>3. QED BY <3>1, <3>2, <2>4
  <2>6. \A j \in Slots : Alike(u[j], t[j])
    BY <2>1 DEF Alike
  <2>7. Stored(d, u, q, odd) /\ Last(d).reserves = Last(disk).reserves
    <3>1. Stored(d, t, q, odd) /\ Last(d).reserves = Last(s.disk).reserves
      BY <1>1, <2>3, StoredResults
    <3> HIDE DEF d
    <3>2. Stored(d, u, q, odd)
      BY <2>6, <3>1, StoredAlike DEF Alike
    <3>3. QED BY <3>1, <3>2, <1>1
  <2> HIDE DEF d
  <2>8. \A j \in Slots : Alike(u[j], reserves[j])
    BY <2>6, <1>1 DEF Alike
  <2>9. ASSUME Clean(reserves) PROVE Counted([t |-> u, q |-> q, gone |-> g, disk |-> d], i)
    <3>1. /\ \A j \in PassedOf(t) : t[j].used /\ j <= i - 1
          /\ s.q + s.gone = results + gone + Cardinality(PassedOf(t))
      BY <2>9, <1>1 DEF Counted, t
    <3>2. PassedOf(u) = PassedOf(t) \cup {i}
      <4>1. \A j \in Slots : j \in PassedOf(u) <=> (j \in PassedOf(t) \/ j = i)
        BY <2>1 DEF PassedOf
      <4>2. PassedOf(u) \subseteq Slots /\ PassedOf(t) \subseteq Slots
        BY DEF PassedOf
      <4>3. QED BY <4>1, <4>2
    <3>3. i \notin PassedOf(t) /\ IsFiniteSet(PassedOf(t)) /\ Cardinality(PassedOf(t)) \in Nat
      <4>1. ~(i <= i - 1)
        BY <1>2
      <4>2. PassedOf(t) \in SUBSET Slots
        BY DEF PassedOf
      <4>3. IsFiniteSet(PassedOf(t))
        BY <4>2, SlotsAre, FS_Subset
      <4>4. QED BY <4>1, <4>3, <3>1, FS_CardinalityType
    <3>4. Cardinality(PassedOf(u)) = Cardinality(PassedOf(t)) + 1
      BY <3>2, <3>3, FS_AddElement
    <3>5. q + g = results + gone + Cardinality(PassedOf(u))
      <4>1. results \in Nat /\ s.q \in Nat
        BY <1>1, SlotsAre
      <4>2. QED BY <4>1, <2>3, <3>1, <3>3, <3>4, <1>1
    <3>6. ASSUME NEW j \in PassedOf(u) PROVE u[j].used /\ j <= i
      <4>1. CASE j = i
        BY <4>1, <2>1, <2>2, <1>2 DEF Alike
      <4>2. CASE j # i
        <5>1. j \in PassedOf(t) /\ j \in Slots
          BY <4>2, <3>2 DEF PassedOf
        <5>2. QED BY <5>1, <4>2, <2>1, <3>1, <1>2
      <4>3. QED BY <4>1, <4>2
    <3>7. QED BY <3>5, <3>6 DEF Counted
  <2>10. Looked([t |-> u, q |-> q, gone |-> g, disk |-> d], i)
    <3>1. d \in Seq(Image)
      BY <2>7 DEF Stored
    <3>2. [t |-> u, q |-> q, gone |-> g, disk |-> d] \in Turn
      BY <3>1, <2>1, <2>3 DEF Turn, F
    <3>3. QED BY <3>2, <2>7, <2>8, <2>9 DEF Looked
  <2>11. QED BY <2>5, <2>10
<1>7. CASE ~Stops(t, i) /\ ~Passed(r) /\ Due(r)
  <2> DEFINE u == Flagged(t, i, {"req"})
  <2>1. {"req"} \in SUBSET F
    BY DEF F
  <2>2. /\ u \in [Slots -> Entry(F)] /\ u[i].flags = r.flags \cup {"req"} /\ Alike(u[i], r)
        /\ \A j \in Slots \ {i} : u[j] = t[j]
    BY <1>1, <2>1, FlagsAre
  <2>3. LookAt(s, i) = [s EXCEPT !.t = u]
    BY <1>7 DEF LookAt, t
  <2> HIDE DEF u
  <2>4. PassedOf(u) = PassedOf(t)
    <3>1. \A j \in Slots : "passed" \in u[j].flags <=> "passed" \in t[j].flags
      BY <2>2
    <3>2. QED BY <3>1 DEF PassedOf
  <2>5. \A j \in Slots : Alike(u[j], t[j])
    BY <2>2 DEF Alike
  <2>6. \A j \in Slots : Alike(u[j], reserves[j])
    BY <2>5, <1>1 DEF Alike
  <2>7. Stored(s.disk, u, s.q, odd)
    BY <2>5, <1>1, StoredAlike DEF Alike
  <2>8. [s EXCEPT !.t = u] = [t |-> u, q |-> s.q, gone |-> s.gone, disk |-> s.disk]
    BY <1>1
  <2> DEFINE v == [t |-> u, q |-> s.q, gone |-> s.gone, disk |-> s.disk]
  <2>9. ASSUME Clean(reserves) PROVE Counted(v, i - 1)
    <3>1. /\ \A j \in PassedOf(t) : t[j].used /\ j <= i - 1
          /\ s.q + s.gone = results + gone + Cardinality(PassedOf(t))
      BY <2>9, <1>1 DEF Counted, t
    <3>2. \A j \in PassedOf(u) : j \in Slots
      BY DEF PassedOf
    <3>3. \A j \in PassedOf(u) : u[j].used /\ j <= i - 1
      BY <3>1, <3>2, <2>4, <2>5 DEF Alike
    <3>4. QED BY <3>1, <3>3, <2>4 DEF Counted
  <2>10. v \in Turn
    BY <2>2, <1>1 DEF Turn, F
  <2>11. Looked(v, i - 1)
    BY <2>6, <2>7, <2>9, <2>10, <1>1 DEF Looked
  <2> HIDE DEF v
  <2>12. QED BY <2>3, <2>8, <2>11, <1>4 DEF v
<1>8. QED BY <1>5, <1>6, <1>7

IsLook(look, n) ==
  look = [i \in 0..n |-> IF i = 0 THEN [t |-> reserves, q |-> results, gone |-> gone, disk |-> disk]
                         ELSE LookAt(look[i - 1], i)]
LookBack == CHOOSE look : IsLook(look, ReserveMax)

LEMMA LookExists ==
  ASSUME NEW k \in Nat
  PROVE  \E look : IsLook(look, k)
<1> DEFINE begin == [t |-> reserves, q |-> results, gone |-> gone, disk |-> disk]
           Some(n) == \E look : IsLook(look, n)
           T == {n \in Nat : Some(n)}
<1>1. Some(0)
  <2> DEFINE a == [i \in 0..0 |-> begin]
  <2>1. a = [i \in 0..0 |-> IF i = 0 THEN begin ELSE LookAt(a[i - 1], i)]
    OBVIOUS
  <2>2. QED BY <2>1 DEF IsLook
<1>2. ASSUME NEW n \in T PROVE Some(n + 1)
  <2>1. PICK a : a = [i \in 0..n |-> IF i = 0 THEN begin ELSE LookAt(a[i - 1], i)]
    BY DEF T, IsLook
  <2> DEFINE b == [i \in 0..(n + 1) |-> IF i = n + 1 THEN LookAt(a[n], n + 1) ELSE a[i]]
  <2> HIDE DEF begin
  <2>2. n \in Nat
    OBVIOUS
  <2>3. ASSUME NEW i \in 0..(n + 1)
        PROVE  b[i] = IF i = 0 THEN begin ELSE LookAt(b[i - 1], i)
    <3>1. CASE i = 0
      BY <3>1, <2>1, <2>2
    <3>2. CASE i # 0 /\ i <= n
      <4>1. b[i] = a[i] /\ b[i - 1] = a[i - 1]
        BY <3>2, <2>2
      <4>2. a[i] = LookAt(a[i - 1], i)
        BY <3>2, <2>1, <2>2
      <4>3. QED BY <4>1, <4>2, <3>2
    <3>3. CASE i = n + 1
      <4>1. b[i - 1] = a[n] /\ b[i] = LookAt(a[n], n + 1) /\ i # 0
        BY <3>3, <2>2
      <4>2. QED BY <4>1, <3>3
    <3>4. QED BY <3>1, <3>2, <3>3, <2>2
  <2>4. b = [i \in 0..(n + 1) |-> b[i]]
    OBVIOUS
  <2> HIDE DEF b
  <2>5. b = [i \in 0..(n + 1) |-> IF i = 0 THEN begin ELSE LookAt(b[i - 1], i)]
    BY <2>3, <2>4
  <2>6. QED BY <2>5 DEF IsLook, begin
<1> HIDE DEF Some
<1>3. 0 \in T /\ \A n \in T : n + 1 \in T
  BY <1>1, <1>2
<1>4. T = Nat
  BY <1>3, Induct
<1>5. Some(k)
  BY <1>4
<1>6. QED BY <1>5 DEF Some

LEMMA CheckedLooks ==
  ASSUME reserves \in [Slots -> Entry({"req", "passed"})], results \in 0..ResultMax, gone \in Nat,
         Stored(disk, reserves, results, odd)
  PROVE  Looked(Checked, ReserveMax)
<1> DEFINE begin == [t |-> reserves, q |-> results, gone |-> gone, disk |-> disk]
<1>1. Checked = LookBack[ReserveMax]
  BY DEF Checked, LookBack, IsLook
<1>2. IsLook(LookBack, ReserveMax)
  <2>1. \E look : IsLook(look, ReserveMax)
    BY LookExists, SlotsAre
  <2>2. QED BY <2>1 DEF LookBack
<1>3. LookBack[0] = begin /\ \A i \in Slots : LookBack[i] = LookAt(LookBack[i - 1], i)
  <2> DEFINE look == LookBack
  <2>1. look = [i \in 0..ReserveMax |-> IF i = 0 THEN begin ELSE LookAt(look[i - 1], i)]
    BY <1>2 DEF IsLook
  <2> HIDE DEF look, begin
  <2>2. 0 \in 0..ReserveMax /\ \A i \in Slots : i \in 0..ReserveMax /\ i # 0
    BY SlotsAre
  <2>3. look[0] = begin
    BY <2>1, <2>2
  <2>4. \A i \in Slots : look[i] = LookAt(look[i - 1], i)
    BY <2>1, <2>2
  <2>5. QED BY <2>3, <2>4 DEF look
<1> DEFINE Good(n) == n > ReserveMax \/ Looked(LookBack[n], n)
           T == {n \in Nat : Good(n)}
<1>4. Good(0)
  <2>1. begin \in Turn
    BY DEF Turn, Stored
  <2>2. \A i \in Slots : Alike(reserves[i], reserves[i])
    BY DEF Alike
  <2>3. ASSUME Clean(reserves) PROVE Counted(begin, 0)
    <3>1. PassedOf(reserves) = {}
      <4>1. \A i \in Slots : reserves[i].flags \subseteq {"req"}
        BY <2>3, EntryHas DEF Clean
      <4>2. QED BY <4>1 DEF PassedOf
    <3>2. Cardinality(PassedOf(reserves)) = 0
      BY <3>1, FS_EmptySet
    <3>3. results + gone = results + gone + Cardinality(PassedOf(reserves))
      BY <3>2, SlotsAre
    <3>4. QED BY <3>1, <3>3 DEF Counted
  <2>4. Looked(begin, 0)
    BY <2>1, <2>2, <2>3 DEF Looked
  <2>5. QED BY <2>4, <1>3
<1>5. ASSUME NEW n \in T PROVE Good(n + 1)
  <2>1. CASE n + 1 > ReserveMax
    BY <2>1
  <2>2. CASE ~(n + 1 > ReserveMax)
    <3>1. n + 1 \in Slots /\ n + 1 - 1 = n /\ ~(n > ReserveMax)
      BY <2>2, SlotsAre
    <3>2. Looked(LookBack[n], n)
      BY <3>1
    <3>3. LookBack[n + 1] = LookAt(LookBack[n], n + 1)
      BY <3>1, <1>3
    <3> HIDE DEF begin
    <3>4. Looked(LookAt(LookBack[n], n + 1), n + 1)
      BY <3>1, <3>2, LookAtLooks
    <3>5. QED BY <3>3, <3>4
  <2>3. QED BY <2>1, <2>2
<1> HIDE DEF Good
<1>6. 0 \in T /\ \A n \in T : n + 1 \in T
  BY <1>4, <1>5
<1>7. T = Nat
  BY <1>6, Induct
<1>8. Good(ReserveMax)
  BY <1>7, SlotsAre
<1>9. QED BY <1>1, <1>8, SlotsAre DEF Good

(* What a table is does not depend on its flags.                            *)
LEMMA AlikeKeeps ==
  ASSUME NEW t, NEW u, \A i \in Slots : Alike(u[i], t[i])
  PROVE  /\ Lasting(u) <=> Lasting(t)
         /\ Empty(u) <=> Empty(t)
         /\ NoneTwice(u) <=> NoneTwice(t)
         /\ InOrder(u) <=> InOrder(t)
         /\ InFront(u) <=> InFront(t)
         /\ \A k : Filled(u, k) <=> Filled(t, k)
BY DEF Alike, Lasting, Empty, NoneTwice, InOrder, InFront, Filled

LEMMA KeptAlike ==
  ASSUME NEW t, NEW o, Kept(t, o), NEW u \in [Slots -> Entry({"req", "passed"})],
         \A i \in Slots : Alike(u[i], t[i])
  PROVE  Kept(u, o)
BY AlikeKeeps DEF Kept

LEMMA KeptClose ==
  ASSUME NEW t, NEW o, Kept(t, o), NEW i \in Slots
  PROVE  /\ Kept(CloseUp(t, i), o)
         /\ "stale" \notin o => /\ UsedIn(t) \in Nat /\ UsedIn(CloseUp(t, i)) \in Nat
                                /\ UsedIn(CloseUp(t, i)) + Fill(t[i]) = UsedIn(t)
<1> DEFINE u == CloseUp(t, i)
<1>1. t \in [Slots -> Entry({"req", "passed"})]
  BY DEF Kept
<1>2. u \in [Slots -> Entry({"req", "passed"})]
  BY <1>1, CloseUpIs
<1>3. Lasting(t) => Lasting(u)
  BY <1>1, CloseUpKeeps
<1>4. Empty(t) => Empty(u)
  BY <1>1, CloseUpKeeps
<1>5. NoneTwice(t) => NoneTwice(u)
  BY <1>1, CloseUpKeeps
<1>6. InOrder(t) => InOrder(u)
  BY <1>1, CloseUpKeeps
<1>7. ASSUME "stale" \notin o
      PROVE  /\ InFront(u) /\ UsedIn(t) \in Nat /\ UsedIn(u) \in Nat
             /\ UsedIn(u) + Fill(t[i]) = UsedIn(t)
  <2>1. PICK k \in 0..ReserveMax : Filled(t, k)
    BY <1>1, <1>7, PackedFills DEF Kept
  <2> DEFINE m == IF t[i].used THEN k - 1 ELSE k
  <2>2. m \in 0..ReserveMax /\ Filled(u, m)
    BY <1>1, <2>1, CloseUpFills
  <2>3. m + Fill(t[i]) = k
    BY DEF Fill, One
  <2> HIDE DEF u, m
  <2>4. UsedIn(t) = k /\ UsedIn(u) = m
    BY <1>1, <1>2, <2>1, <2>2, FilledCounts
  <2>5. InFront(u)
    BY <2>2, FilledPacks
  <2>6. QED BY <2>2, <2>3, <2>4, <2>5
<1> HIDE DEF u
<1>8. Kept(u, o)
  BY <1>2, <1>3, <1>4, <1>5, <1>6, <1>7 DEF Kept
<1>9. QED BY <1>7, <1>8 DEF u

-----------------------------------------------------------------------------
(* refresh_reserves takes out what has passed and nothing else.             *)
PassedFrom(t, n) == {i \in PassedOf(t) : i > n}
Fills(t, u, n) ==
  \A k \in 0..ReserveMax : Filled(t, k) =>
    /\ k - Cardinality(PassedFrom(t, ReserveMax - n)) \in 0..ReserveMax
    /\ Filled(u, k - Cardinality(PassedFrom(t, ReserveMax - n)))
Shutting(s, c, n) ==
  /\ c \in Turn /\ c.q = s.q /\ c.gone = s.gone
  /\ \A j \in Slots : IF j <= ReserveMax - n THEN c.t[j] = s.t[j] ELSE "passed" \notin c.t[j].flags
  /\ Kept(c.t, odd) /\ Stored(c.disk, c.t, c.q, odd)
  /\ Last(c.disk).reserves \in {Last(s.disk).reserves, c.t}
  /\ (\A i \in PassedOf(s.t) : s.t[i].used) => Fills(s.t, c.t, n)

LEMMA ShutShuts ==
  ASSUME NEW s, NEW n \in Nat, n < ReserveMax, NEW c, Shutting(s, c, n)
  PROVE  Shutting(s, Shut(c, ReserveMax - n), n + 1)
<1> DEFINE F == {"req", "passed"}
           i == ReserveMax - n
           t == s.t
           u == c.t
           w == Shut(c, i)
<1>1. i \in Slots /\ i \in Nat /\ ReserveMax - (n + 1) = i - 1
  BY SlotsAre
<1>2. /\ c = [t |-> u, q |-> c.q, gone |-> c.gone, disk |-> c.disk]
      /\ u \in [Slots -> Entry(F)] /\ c \in Turn /\ c.q = s.q /\ c.gone = s.gone
      /\ \A j \in Slots : IF j <= i THEN u[j] = t[j] ELSE "passed" \notin u[j].flags
      /\ Kept(u, odd) /\ Stored(c.disk, u, c.q, odd)
      /\ Last(c.disk).reserves \in {Last(s.disk).reserves, u}
      /\ (\A j \in PassedOf(t) : t[j].used) => Fills(t, u, n)
  BY DEF Shutting, Turn
<1>3. u[i] = t[i]
  BY <1>1, <1>2
<1>4. IsFiniteSet(PassedFrom(t, i)) /\ Cardinality(PassedFrom(t, i)) \in Nat
  <2> HIDE DEF i, t
  <2>1. PassedFrom(t, i) \in SUBSET Slots
    BY DEF PassedFrom, PassedOf
  <2>2. QED BY <2>1, SlotsAre, FS_Subset, FS_CardinalityType
<1> DEFINE m(k) == k - Cardinality(PassedFrom(t, i))
<1>5. ASSUME \A j \in PassedOf(t) : t[j].used, NEW k \in 0..ReserveMax, Filled(t, k)
      PROVE  m(k) \in 0..ReserveMax /\ Filled(u, m(k))
  BY <1>2, <1>5 DEF Fills
<1> HIDE DEF i, t, u
<1>6. CASE "passed" \notin t[i].flags
  <2>1. w = c
    BY <1>3, <1>6 DEF Shut, u
  <2>2. PassedFrom(t, i - 1) = PassedFrom(t, i)
    <3>1. \A j \in PassedOf(t) : j > i - 1 <=> j > i
      BY <1>1, <1>6, SlotsAre DEF PassedOf
    <3>2. QED BY <3>1 DEF PassedFrom
  <2>3. \A j \in Slots : IF j <= i - 1 THEN u[j] = t[j] ELSE "passed" \notin u[j].flags
    BY <1>1, <1>2, <1>3, <1>6, SlotsAre
  <2>4. (\A j \in PassedOf(t) : t[j].used) => Fills(t, u, n + 1)
    BY <2>2, <1>1, <1>5 DEF Fills
  <2> HIDE DEF w
  <2>5. Shutting(s, c, n + 1)
    BY <2>3, <2>4, <1>1, <1>2 DEF Shutting, t, u
  <2>6. QED BY <2>1, <2>5 DEF w, i
<1>7. CASE "passed" \in t[i].flags
  <2> DEFINE v == CloseUp(u, i)
             d == SavesReserves(v, c.disk)
  <2>1. w = [t |-> v, q |-> c.q, gone |-> c.gone, disk |-> d]
    <3>1. w = [c EXCEPT !.t = v, !.disk = d]
      BY <1>3, <1>7 DEF Shut, u
    <3> HIDE DEF v, d, w
    <3>2. QED BY <3>1, <1>2
  <2>2. i \in PassedOf(t)
    BY <1>1, <1>7 DEF PassedOf
  <2>3. PassedFrom(t, i - 1) = PassedFrom(t, i) \cup {i}
    <3>1. \A j \in PassedOf(t) : j > i - 1 <=> (j > i \/ j = i)
      BY <1>1, SlotsAre DEF PassedOf
    <3>2. i \in PassedOf(t) /\ i > i - 1
      BY <1>1, <2>2
    <3>3. QED BY <3>1, <3>2 DEF PassedFrom
  <2>4. i \notin PassedFrom(t, i)
    BY <1>1 DEF PassedFrom
  <2>5. Cardinality(PassedFrom(t, i - 1)) = Cardinality(PassedFrom(t, i)) + 1
    BY <2>3, <2>4, <1>4, FS_AddElement
  <2>6. /\ v \in [Slots -> Entry(F)]
        /\ \A j \in Slots : v[j] = IF j < i THEN u[j] ELSE IF j < ReserveMax THEN u[j + 1] ELSE Blank
        /\ \A j \in Slots : j < ReserveMax => j + 1 \in Slots
    <3> HIDE DEF F
    <3>1. QED BY <1>1, <1>2, CloseUpIs
  <2>7. Kept(v, odd)
    BY <1>1, <1>2, KeptClose
  <2> HIDE DEF v
  <2>8. Stored(d, v, c.q, odd) /\ Last(d).reserves = v
    BY <2>7, <1>2, StoredReserves
  <2>9. ASSUME NEW j \in Slots
        PROVE  IF j <= i - 1 THEN v[j] = t[j] ELSE "passed" \notin v[j].flags
    <3>1. CASE j <= i - 1
      <4>1. j < i /\ j <= i
        BY <3>1, <1>1, SlotsAre
      <4>2. QED BY <4>1, <3>1, <2>6, <1>2
    <3>2. CASE ~(j <= i - 1) /\ j < ReserveMax
      <4>1. ~(j < i) /\ j + 1 \in Slots /\ ~(j + 1 <= i)
        BY <3>2, <1>1, <2>6, SlotsAre
      <4>2. QED BY <4>1, <3>2, <2>6, <1>2
    <3>3. CASE ~(j <= i - 1) /\ ~(j < ReserveMax)
      <4>1. ~(j < i)
        BY <3>3, <1>1, SlotsAre
      <4>2. Blank.flags = {}
        BY DEF Blank
      <4>3. QED BY <4>1, <4>2, <3>3, <2>6
    <3>4. QED BY <3>1, <3>2, <3>3
  <2>10. ASSUME \A j \in PassedOf(t) : t[j].used, NEW k \in 0..ReserveMax, Filled(t, k)
         PROVE  /\ k - Cardinality(PassedFrom(t, i - 1)) \in 0..ReserveMax
                /\ Filled(v, k - Cardinality(PassedFrom(t, i - 1)))
    <3>1. m(k) \in 0..ReserveMax /\ Filled(u, m(k))
      BY <2>10, <1>5
    <3>2. u[i].used
      BY <2>2, <2>10, <1>3
    <3>3. m(k) - 1 = k - Cardinality(PassedFrom(t, i - 1))
      BY <2>5, <1>4
    <3> HIDE DEF m, F
    <3>4. Filled(CloseUp(u, i), m(k) - 1) /\ m(k) - 1 \in 0..ReserveMax
      BY <3>1, <3>2, <1>1, <1>2, CloseUpFills
    <3>5. QED BY <3>3, <3>4 DEF v
  <2>11. (\A j \in PassedOf(t) : t[j].used) => Fills(t, v, n + 1)
    BY <2>10, <1>1 DEF Fills
  <2>12. w \in Turn /\ w.t = v /\ w.q = c.q /\ w.gone = c.gone /\ w.disk = d
    <3>1. d \in Seq(Image)
      BY <2>8 DEF Stored
    <3> HIDE DEF w, d
    <3>2. QED BY <3>1, <2>1, <2>6, <1>2 DEF Turn, F
  <2> HIDE DEF w, d
  <2>13. Shutting(s, w, n + 1)
    BY <2>7, <2>8, <2>9, <2>11, <2>12, <1>1, <1>2 DEF Shutting, t
  <2>14. QED BY <2>13 DEF w, i
<1>8. QED BY <1>6, <1>7

IsShut(shut, t, n) ==
  shut = [i \in 0..n |-> IF i = 0 THEN t ELSE Shut(shut[i - 1], ReserveMax + 1 - i)]
ShutBack(t) == CHOOSE shut : IsShut(shut, t, ReserveMax)

LEMMA ShutExists ==
  ASSUME NEW t, NEW k \in Nat
  PROVE  \E shut : IsShut(shut, t, k)
<1> DEFINE Some(n) == \E shut : IsShut(shut, t, n)
           T == {n \in Nat : Some(n)}
<1>1. Some(0)
  <2> DEFINE a == [i \in 0..0 |-> t]
  <2>1. a = [i \in 0..0 |-> IF i = 0 THEN t ELSE Shut(a[i - 1], ReserveMax + 1 - i)]
    OBVIOUS
  <2>2. QED BY <2>1 DEF IsShut
<1>2. ASSUME NEW n \in T PROVE Some(n + 1)
  <2>1. PICK a : a = [i \in 0..n |-> IF i = 0 THEN t ELSE Shut(a[i - 1], ReserveMax + 1 - i)]
    BY DEF T, IsShut
  <2> DEFINE b == [i \in 0..(n + 1) |-> IF i = n + 1 THEN Shut(a[n], ReserveMax + 1 - i) ELSE a[i]]
  <2>2. n \in Nat
    OBVIOUS
  <2>3. ASSUME NEW i \in 0..(n + 1)
        PROVE  b[i] = IF i = 0 THEN t ELSE Shut(b[i - 1], ReserveMax + 1 - i)
    <3>1. CASE i = 0
      BY <3>1, <2>1, <2>2
    <3>2. CASE i # 0 /\ i <= n
      <4>1. b[i] = a[i] /\ b[i - 1] = a[i - 1]
        BY <3>2, <2>2
      <4>2. a[i] = Shut(a[i - 1], ReserveMax + 1 - i)
        BY <3>2, <2>1, <2>2
      <4>3. QED BY <4>1, <4>2, <3>2
    <3>3. CASE i = n + 1
      <4>1. b[i - 1] = a[n] /\ b[i] = Shut(a[n], ReserveMax + 1 - i) /\ i # 0
        BY <3>3, <2>2
      <4>2. QED BY <4>1
    <3>4. QED BY <3>1, <3>2, <3>3, <2>2
  <2>4. b = [i \in 0..(n + 1) |-> b[i]]
    OBVIOUS
  <2> HIDE DEF b
  <2>5. b = [i \in 0..(n + 1) |-> IF i = 0 THEN t ELSE Shut(b[i - 1], ReserveMax + 1 - i)]
    BY <2>3, <2>4
  <2>6. QED BY <2>5 DEF IsShut
<1> HIDE DEF Some
<1>3. 0 \in T /\ \A n \in T : n + 1 \in T
  BY <1>1, <1>2
<1>4. T = Nat
  BY <1>3, Induct
<1>5. Some(k)
  BY <1>4
<1>6. QED BY <1>5 DEF Some

LEMMA RefreshedShuts ==
  ASSUME NEW t \in Turn, Kept(t.t, odd), Stored(t.disk, t.t, t.q, odd)
  PROVE  Shutting(t, Refreshed(t), ReserveMax)
<1>1. Refreshed(t) = ShutBack(t)[ReserveMax]
  BY DEF Refreshed, ShutBack, IsShut
<1>2. IsShut(ShutBack(t), t, ReserveMax)
  <2>1. \E shut : IsShut(shut, t, ReserveMax)
    BY ShutExists, SlotsAre
  <2>2. QED BY <2>1 DEF ShutBack
<1>3. /\ ShutBack(t)[0] = t
      /\ \A i \in Slots : ShutBack(t)[i] = Shut(ShutBack(t)[i - 1], ReserveMax + 1 - i)
  <2> DEFINE shut == ShutBack(t)
  <2>1. shut = [i \in 0..ReserveMax |-> IF i = 0 THEN t ELSE Shut(shut[i - 1], ReserveMax + 1 - i)]
    BY <1>2 DEF IsShut
  <2> HIDE DEF shut
  <2>2. 0 \in 0..ReserveMax /\ \A i \in Slots : i \in 0..ReserveMax /\ i # 0
    BY SlotsAre
  <2>3. shut[0] = t
    BY <2>1, <2>2
  <2>4. \A i \in Slots : shut[i] = Shut(shut[i - 1], ReserveMax + 1 - i)
    BY <2>1, <2>2
  <2>5. QED BY <2>3, <2>4 DEF shut
<1> DEFINE Good(n) == n > ReserveMax \/ Shutting(t, ShutBack(t)[n], n)
           T == {n \in Nat : Good(n)}
<1>4. Good(0)
  <2>1. \A j \in Slots : j <= ReserveMax - 0
    BY SlotsAre
  <2>2. PassedFrom(t.t, ReserveMax - 0) = {}
    <3>1. \A j \in PassedOf(t.t) : ~(j > ReserveMax - 0)
      BY SlotsAre DEF PassedOf
    <3>2. QED BY <3>1 DEF PassedFrom
  <2>3. \A k \in 0..ReserveMax : k - Cardinality(PassedFrom(t.t, ReserveMax - 0)) = k
    <3>1. Cardinality(PassedFrom(t.t, ReserveMax - 0)) = 0
      BY <2>2, FS_EmptySet
    <3>2. \A k \in 0..ReserveMax : k - 0 = k
      BY SlotsAre
    <3>3. QED BY <3>1, <3>2
  <2>4. Fills(t.t, t.t, 0)
    BY <2>3 DEF Fills
  <2>5. Shutting(t, t, 0)
    BY <2>1, <2>4 DEF Shutting
  <2>6. QED BY <2>5, <1>3
<1>5. ASSUME NEW n \in T PROVE Good(n + 1)
  <2>1. CASE n + 1 > ReserveMax
    BY <2>1
  <2>2. CASE ~(n + 1 > ReserveMax)
    <3>1. n + 1 \in Slots /\ n + 1 - 1 = n /\ ~(n > ReserveMax) /\ n < ReserveMax
          /\ ReserveMax + 1 - (n + 1) = ReserveMax - n
      BY <2>2, SlotsAre
    <3>2. Shutting(t, ShutBack(t)[n], n)
      BY <3>1
    <3>3. ShutBack(t)[n + 1] = Shut(ShutBack(t)[n], ReserveMax - n)
      BY <3>1, <1>3
    <3>4. Shutting(t, Shut(ShutBack(t)[n], ReserveMax - n), n + 1)
      BY <3>1, <3>2, ShutShuts
    <3>5. QED BY <3>3, <3>4
  <2>3. QED BY <2>1, <2>2
<1> HIDE DEF Good
<1>6. 0 \in T /\ \A n \in T : n + 1 \in T
  BY <1>4, <1>5
<1>7. T = Nat
  BY <1>6, Induct
<1>8. Good(ReserveMax)
  BY <1>7, SlotsAre
<1>9. QED BY <1>1, <1>8, SlotsAre DEF Good

(* The table, the results, what is gone and the files after a turn of the   *)
(* check loop.                                                              *)
LEMMA CheckedKeeps ==
  ASSUME Kept(reserves, odd), results \in 0..ResultMax, gone \in Nat,
         Stored(disk, reserves, results, odd)
  PROVE  LET s == Checked
             c == Refreshed(s)
         IN  /\ Kept(c.t, odd) /\ Stored(c.disk, c.t, s.q, odd)
             /\ Clean(c.t) /\ (Clean(Last(disk).reserves) => Clean(Last(c.disk).reserves))
             /\ s.q \in 0..ResultMax /\ s.gone \in Nat
             /\ UsedIn(s.t) = UsedIn(reserves)
             /\ Clean(reserves) /\ InFront(reserves) =>
                  UsedIn(c.t) + s.q + s.gone = UsedIn(reserves) + results + gone
<1> DEFINE s == Checked
           c == Refreshed(s)
           u == c.t
<1>0. reserves \in [Slots -> Entry({"req", "passed"})]
  BY DEF Kept
<1>1. /\ s \in Turn /\ s.t \in [Slots -> Entry({"req", "passed"})] /\ s.q \in 0..ResultMax /\ s.gone \in Nat
      /\ \A i \in Slots : Alike(s.t[i], reserves[i])
      /\ Stored(s.disk, s.t, s.q, odd) /\ Last(s.disk).reserves = Last(disk).reserves
      /\ Clean(reserves) => Counted(s, ReserveMax)
  BY <1>0, CheckedLooks DEF Looked, Turn
<1> HIDE DEF s
<1>2. Kept(s.t, odd)
  BY <1>1, KeptAlike
<1>3. Shutting(s, c, ReserveMax)
  BY <1>1, <1>2, RefreshedShuts
<1> HIDE DEF c
<1>4. /\ u \in [Slots -> Entry({"req", "passed"})] /\ c.q = s.q
      /\ Kept(u, odd) /\ Stored(c.disk, u, c.q, odd)
      /\ Last(c.disk).reserves \in {Last(s.disk).reserves, u}
      /\ (\A i \in PassedOf(s.t) : s.t[i].used) => Fills(s.t, u, ReserveMax)
      /\ \A i \in Slots : "passed" \notin u[i].flags
  <2>1. \A i \in Slots : ~(i <= ReserveMax - ReserveMax)
    BY SlotsAre
  <2>2. QED BY <1>3, <2>1 DEF Shutting, Turn
<1> HIDE DEF u
<1>5. Clean(u)
  <2>1. \A i \in Slots : u[i] \in Entry({"req"})
    BY <1>4 DEF Entry
  <2>2. QED BY <2>1, <1>4 DEF Clean
<1>6. Clean(Last(disk).reserves) => Clean(Last(c.disk).reserves)
  BY <1>1, <1>4, <1>5
<1>7. UsedIn(s.t) = UsedIn(reserves)
  <2>1. {i \in DOMAIN s.t : s.t[i].used} = {i \in DOMAIN reserves : reserves[i].used}
    BY <1>0, <1>1 DEF Alike
  <2>2. QED BY <2>1 DEF UsedIn
<1>8. ASSUME Clean(reserves), InFront(reserves)
      PROVE  UsedIn(u) + s.q + s.gone = UsedIn(reserves) + results + gone
  <2>1. PICK k \in 0..ReserveMax : Filled(reserves, k)
    BY <1>0, <1>8, PackedFills
  <2>2. PassedFrom(s.t, ReserveMax - ReserveMax) = PassedOf(s.t)
    BY SlotsAre DEF PassedFrom, PassedOf
  <2> DEFINE n == Cardinality(PassedOf(s.t))
  <2>3. k - n \in 0..ReserveMax /\ Filled(u, k - n)
    <3>1. Filled(s.t, k)
      BY <2>1, <1>1, AlikeKeeps
    <3>2. Fills(s.t, u, ReserveMax)
      BY <1>1, <1>4, <1>8 DEF Counted
    <3>3. QED BY <3>1, <3>2, <2>2 DEF Fills
  <2>4. n \in Nat
    <3>1. PassedOf(s.t) \in SUBSET Slots
      BY DEF PassedOf
    <3>2. QED BY <3>1, SlotsAre, FS_Subset, FS_CardinalityType
  <2>5. s.q + s.gone = results + gone + n
    BY <1>1, <1>8 DEF Counted
  <2> HIDE DEF n
  <2>6. UsedIn(reserves) = k
    BY <2>1, <1>0, FilledCounts
  <2>7. UsedIn(u) = k - n
    <3>1. DOMAIN u = Slots
      BY <1>4
    <3>2. QED BY <3>1, <2>3, FilledCounts
  <2>8. k - n + s.q + s.gone = k + results + gone
    <3>1. s.q \in Nat /\ results \in Nat /\ k \in Nat
      BY <1>1, SlotsAre
    <3>2. QED BY <3>1, <2>4, <2>5, <1>1
  <2>9. QED BY <2>6, <2>7, <2>8
<1>9. QED BY <1>1, <1>4, <1>5, <1>6, <1>7, <1>8 DEF s, c, u

-----------------------------------------------------------------------------
(* The tables of the program.                                               *)
DataInv == DataType /\ TableInv /\ Accounted

LEMMA UsedInType ==
  ASSUME NEW t, IsFiniteSet(DOMAIN t)
  PROVE  UsedIn(t) \in Nat
<1>1. IsFiniteSet({i \in DOMAIN t : t[i].used})
  BY FS_Subset
<1>2. QED BY <1>1, FS_CardinalityType DEF UsedIn

LEMMA SameUsed ==
  ASSUME NEW t, NEW u, DOMAIN t = DOMAIN u, \A i \in DOMAIN t : t[i].used = u[i].used
  PROVE  UsedIn(t) = UsedIn(u)
<1>1. {i \in DOMAIN t : t[i].used} = {i \in DOMAIN u : u[i].used}
  OBVIOUS
<1>2. QED BY <1>1 DEF UsedIn

(* One recording more or less.                                              *)
Put(rs, g, r) == [rs EXCEPT ![g] = r]

LEMMA PlaceCounts ==
  ASSUME NEW rs \in [Groups -> Entry({"now", "passed"})], NEW g \in Groups, NEW r \in Entry({"now", "passed"}),
         NEW us, us = Put(rs, g, r)
  PROVE  /\ us \in [Groups -> Entry({"now", "passed"})]
         /\ UsedIn(rs) \in Nat /\ UsedIn(us) \in Nat
         /\ UsedIn(us) + Fill(rs[g]) = UsedIn(rs) + Fill(r)
<1> DEFINE D == {x \in Groups : rs[x].used}
           E == {x \in Groups : us[x].used}
           C == {x \in Groups \ {g} : rs[x].used}
<1>1. us \in [Groups -> Entry({"now", "passed"})] /\ us[g] = r /\ \A x \in Groups \ {g} : us[x] = rs[x]
  BY DEF Put
<1>2. IsFiniteSet(Groups)
  BY RecordingAssumption
<1>3. IsFiniteSet(D) /\ IsFiniteSet(E) /\ IsFiniteSet(C)
  BY <1>2, FS_Subset
<1>4. D = IF rs[g].used THEN C \cup {g} ELSE C
  OBVIOUS
<1>5. E = IF r.used THEN C \cup {g} ELSE C
  BY <1>1
<1>6. g \notin C
  OBVIOUS
<1> HIDE DEF C, D, E
<1>7. Cardinality(C \cup {g}) = Cardinality(C) + 1
  BY <1>3, <1>6, FS_AddElement
<1>8. Cardinality(C) \in Nat /\ Cardinality(D) \in Nat /\ Cardinality(E) \in Nat
  BY <1>3, FS_CardinalityType
<1>9. UsedIn(rs) = Cardinality(D) /\ UsedIn(us) = Cardinality(E)
  <2>1. DOMAIN rs = Groups /\ DOMAIN us = Groups
    BY <1>1
  <2>2. QED BY <2>1 DEF UsedIn, D, E
<1>10. Cardinality(D) = Cardinality(C) + Fill(rs[g])
  BY <1>4, <1>7, <1>8 DEF Fill, One
<1>11. Cardinality(E) = Cardinality(C) + Fill(r)
  BY <1>5, <1>7, <1>8 DEF Fill, One
<1>12. Fill(rs[g]) \in Nat /\ Fill(r) \in Nat
  BY DEF Fill, One
<1>13. UsedIn(us) + Fill(rs[g]) = UsedIn(rs) + Fill(r)
  BY <1>8, <1>9, <1>10, <1>11, <1>12
<1>14. QED BY <1>1, <1>8, <1>9, <1>13

LEMMA KeptAdd ==
  ASSUME NEW t, NEW o, Kept(t, o), NEW rs, NEW r \in Entry({"req", "passed"}), r.used, Accepted(t, rs, r),
         "moved" \notin o => "stale" \notin o
  PROVE  /\ Kept(AddTo(t, rs, r), o)
         /\ "stale" \notin o => /\ UsedIn(t) \in Nat
                                /\ UsedIn(AddTo(t, rs, r)) = UsedIn(t) + 1
<1> DEFINE u == AddTo(t, rs, r)
<1>1. t \in [Slots -> Entry({"req", "passed"})]
  BY DEF Kept
<1>2. u \in [Slots -> Entry({"req", "passed"})]
  BY <1>1, AddToKeeps
<1>3. Lasting(t) => Lasting(u)
  BY <1>1, AddToKeeps
<1>4. Empty(t) => Empty(u)
  BY <1>1, AddToKeeps
<1>5. NoneTwice(t) => NoneTwice(u)
  BY <1>1, AddToKeeps
<1>6. ASSUME "stale" \notin o
      PROVE  /\ InFront(u) /\ UsedIn(t) \in Nat /\ UsedIn(u) = UsedIn(t) + 1
             /\ InOrder(t) => InOrder(u)
  <2>1. PICK k \in 0..ReserveMax : Filled(t, k)
    BY <1>1, <1>6, PackedFills DEF Kept
  <2>2. Empty(t)
    BY <1>6 DEF Kept
  <2>3. k + 1 \in 0..ReserveMax /\ Filled(u, k + 1) /\ (InOrder(t) => InOrder(u))
    BY <1>1, <2>1, <2>2, AddToFills
  <2> HIDE DEF u
  <2>4. UsedIn(t) = k /\ UsedIn(u) = k + 1
    BY <1>1, <1>2, <2>1, <2>3, FilledCounts
  <2>5. InFront(u)
    BY <2>3, FilledPacks
  <2>6. QED BY <2>3, <2>4, <2>5
<1> HIDE DEF u
<1>7. Kept(u, o)
  BY <1>2, <1>3, <1>4, <1>5, <1>6 DEF Kept
<1>8. QED BY <1>6, <1>7 DEF u

-----------------------------------------------------------------------------
(* The queues.                                                              *)
Notes == [what : {"opened", "post", "start", "stop", "pat_lost", "tuned", "not_tuned",
                  "open", "tune", "tuning", "tune_stop", "close"},
          g : Groups \cup {NoGroup}]

LEMMA NotesAre == Events \subseteq Notes /\ Calls \subseteq Notes
<1>1. ASSUME NEW e \in [what : {"opened"}, g : Groups \cup {NoGroup}] PROVE e \in Notes
  BY DEF Notes
<1>2. ASSUME NEW e \in [what : {"post", "start", "stop", "pat_lost", "tuned", "not_tuned"}, g : Groups]
      PROVE  e \in Notes
  BY DEF Notes
<1>3. ASSUME NEW e \in [what : {"open"}, g : {NoGroup}] PROVE e \in Notes
  BY DEF Notes
<1>4. ASSUME NEW e \in [what : {"tune", "tuning", "tune_stop", "close"}, g : Groups] PROVE e \in Notes
  BY DEF Notes
<1> HIDE DEF Notes
<1>5. Events \subseteq Notes
  BY <1>1, <1>2 DEF Events
<1>6. Calls \subseteq Notes
  BY <1>3, <1>4 DEF Calls
<1>7. QED BY <1>5, <1>6

LEMMA NoteIs ==
  ASSUME NEW e \in Notes, NEW w, NEW g
  PROVE  /\ e \in [what : {w}, g : Groups \cup {NoGroup}] <=> e.what = w
         /\ e \in {On(w, g)} <=> e.what = w /\ e.g = g
<1>1. e = [what |-> e.what, g |-> e.g] /\ e.g \in Groups \cup {NoGroup}
  BY DEF Notes
<1>2. e \in [what : {w}, g : Groups \cup {NoGroup}] <=> e.what = w
  BY <1>1
<1>3. e = On(w, g) <=> e.what = w /\ e.g = g
  BY <1>1 DEF On
<1>4. QED BY <1>2, <1>3

LEMMA QueuesCount ==
  ASSUME NEW q \in Seq(Notes)
  PROVE  /\ \A w : Queued(q, w) \in Nat
         /\ \A w, g : QueuedFor(q, w, g) \in Nat
BY CountType DEF Queued, QueuedFor

(* What one more in a queue adds to these numbers.                          *)
Is(e, w)       == IF e.what = w THEN 1 ELSE 0
IsFor(e, w, g) == IF e.what = w /\ e.g = g THEN 1 ELSE 0

LEMMA AppendCounts ==
  ASSUME NEW q \in Seq(Notes), NEW e \in Notes
  PROVE  /\ Append(q, e) \in Seq(Notes)
         /\ \A w : Queued(Append(q, e), w) = Queued(q, w) + Is(e, w)
         /\ \A w, g : QueuedFor(Append(q, e), w, g) = QueuedFor(q, w, g) + IsFor(e, w, g)
<1>1. Append(q, e) \in Seq(Notes)
  OBVIOUS
<1>2. ASSUME NEW w PROVE Queued(Append(q, e), w) = Queued(q, w) + Is(e, w)
  <2> DEFINE S == [what : {w}, g : Groups \cup {NoGroup}]
  <2>1. (e \in S) = (e.what = w)
    BY NoteIs
  <2>2. Count(Append(q, e), S) = Count(q, S) + One(e \in S)
    BY CountLast
  <2>3. QED BY <2>1, <2>2 DEF Queued, Is, One
<1>3. ASSUME NEW w, NEW g
      PROVE  QueuedFor(Append(q, e), w, g) = QueuedFor(q, w, g) + IsFor(e, w, g)
  <2> DEFINE S == {On(w, g)}
  <2>1. (e \in S) = (e.what = w /\ e.g = g)
    BY NoteIs
  <2>2. Count(Append(q, e), S) = Count(q, S) + One(e \in S)
    BY CountLast
  <2>3. QED BY <2>1, <2>2 DEF QueuedFor, IsFor, One
<1>4. QED BY <1>1, <1>2, <1>3

LEMMA TailCounts ==
  ASSUME NEW q \in Seq(Notes), q # <<>>
  PROVE  /\ Tail(q) \in Seq(Notes) /\ Head(q) \in Notes
         /\ \A w : Queued(q, w) = Queued(Tail(q), w) + Is(Head(q), w)
         /\ \A w, g : QueuedFor(q, w, g) = QueuedFor(Tail(q), w, g) + IsFor(Head(q), w, g)
<1>1. Tail(q) \in Seq(Notes) /\ Head(q) \in Notes
  OBVIOUS
<1> DEFINE e == Head(q)
<1>2. e \in Notes
  BY <1>1
<1> HIDE DEF e
<1>3. ASSUME NEW w PROVE Queued(q, w) = Queued(Tail(q), w) + Is(e, w)
  <2> DEFINE S == [what : {w}, g : Groups \cup {NoGroup}]
  <2>1. (e \in S) = (e.what = w)
    BY <1>2, NoteIs
  <2>2. Count(q, S) = Count(Tail(q), S) + One(e \in S)
    BY CountHead DEF e
  <2>3. QED BY <2>1, <2>2 DEF Queued, Is, One
<1>4. ASSUME NEW w, NEW g
      PROVE  QueuedFor(q, w, g) = QueuedFor(Tail(q), w, g) + IsFor(e, w, g)
  <2> DEFINE S == {On(w, g)}
  <2>1. (e \in S) = (e.what = w /\ e.g = g)
    BY <1>2, NoteIs
  <2>2. Count(q, S) = Count(Tail(q), S) + One(e \in S)
    BY CountHead DEF e
  <2>3. QED BY <2>1, <2>2 DEF QueuedFor, IsFor, One
<1>5. QED BY <1>1, <1>3, <1>4 DEF e

(* The forms in which the actions write their queues.                       *)
LEMMA Forms ==
  ASSUME NEW M, NEW q \in Seq(M), NEW a \in M, NEW b \in M
  PROVE  /\ q \o <<>> = q
         /\ q \o <<a>> = Append(q, a)
         /\ q \o <<a, b>> = Append(Append(q, a), b)
         /\ <<a>> \o q \in Seq(M) /\ <<a>> \o q # <<>>
         /\ Head(<<a>> \o q) = a /\ Tail(<<a>> \o q) = q
<1>1. q \o <<>> = q
  OBVIOUS
<1>2. q \o <<a>> = Append(q, a)
  OBVIOUS
<1>3. q \o <<a, b>> = Append(Append(q, a), b)
  OBVIOUS
<1>4. <<a>> \o q \in Seq(M) /\ <<a>> \o q # <<>>
  OBVIOUS
<1>5. Head(<<a>> \o q) = a
  OBVIOUS
<1>6. Tail(<<a>> \o q) = q
  OBVIOUS
<1>7. QED BY <1>1, <1>2, <1>3, <1>4, <1>5, <1>6

LEMMA PostedCounts ==
  ASSUME NEW q \in Seq(Notes), NEW e \in Notes
  PROVE  /\ q \o <<e>> \in Seq(Notes)
         /\ \A w : Queued(q \o <<e>>, w) = Queued(q, w) + Is(e, w)
         /\ \A w, g : QueuedFor(q \o <<e>>, w, g) = QueuedFor(q, w, g) + IsFor(e, w, g)
<1> DEFINE p == q \o <<e>>
<1>1. p = Append(q, e)
  BY Forms
<1> HIDE DEF p
<1>2. p \in Seq(Notes)
  BY <1>1, AppendCounts
<1>3. \A w : Queued(p, w) = Queued(q, w) + Is(e, w)
  BY <1>1, AppendCounts
<1>4. \A w, g : QueuedFor(p, w, g) = QueuedFor(q, w, g) + IsFor(e, w, g)
  BY <1>1, AppendCounts
<1>5. QED BY <1>2, <1>3, <1>4 DEF p

(* The same, by kinds: p has one message more than q.                       *)
More(p, q, what, who) ==
  /\ p \in Seq(Notes) /\ q \in Seq(Notes)
  /\ Queued(p, what) = Queued(q, what) + 1
  /\ \A w : w # what => Queued(p, w) = Queued(q, w)
  /\ QueuedFor(p, what, who) = QueuedFor(q, what, who) + 1
  /\ \A w, g : w # what => QueuedFor(p, w, g) = QueuedFor(q, w, g)
  /\ \A w, g : g # who => QueuedFor(p, w, g) = QueuedFor(q, w, g)

LEMMA MoreIs ==
  ASSUME NEW p \in Seq(Notes), NEW q \in Seq(Notes), NEW e,
         \A w : Queued(p, w) = Queued(q, w) + Is(e, w),
         \A w, g : QueuedFor(p, w, g) = QueuedFor(q, w, g) + IsFor(e, w, g)
  PROVE  More(p, q, e.what, e.g)
<1>1. Queued(p, e.what) = Queued(q, e.what) + 1
  BY DEF Is
<1>2. ASSUME NEW w, w # e.what PROVE Queued(p, w) = Queued(q, w)
  BY <1>2, QueuesCount DEF Is
<1>3. QueuedFor(p, e.what, e.g) = QueuedFor(q, e.what, e.g) + 1
  BY DEF IsFor
<1>4. ASSUME NEW w, NEW g, w # e.what \/ g # e.g PROVE QueuedFor(p, w, g) = QueuedFor(q, w, g)
  <2>1. IsFor(e, w, g) = 0
    BY <1>4 DEF IsFor
  <2>2. QueuedFor(p, w, g) = QueuedFor(q, w, g) + 0
    BY <2>1
  <2>3. QueuedFor(q, w, g) \in Nat
    BY QueuesCount
  <2>4. QED BY <2>2, <2>3
<1>5. \A w : w # e.what => Queued(p, w) = Queued(q, w)
  BY <1>2
<1>6. \A w, g : w # e.what => QueuedFor(p, w, g) = QueuedFor(q, w, g)
  BY <1>4
<1>7. \A w, g : g # e.g => QueuedFor(p, w, g) = QueuedFor(q, w, g)
  BY <1>4
<1>8. QED BY <1>1, <1>3, <1>5, <1>6, <1>7 DEF More

LEMMA Posted ==
  ASSUME NEW q \in Seq(Notes), NEW e \in Notes
  PROVE  More(q \o <<e>>, q, e.what, e.g)
<1> DEFINE p == q \o <<e>>
<1>1. /\ p \in Seq(Notes)
      /\ \A w : Queued(p, w) = Queued(q, w) + Is(e, w)
      /\ \A w, g : QueuedFor(p, w, g) = QueuedFor(q, w, g) + IsFor(e, w, g)
  BY PostedCounts
<1> HIDE DEF p
<1>2. More(p, q, e.what, e.g)
  BY <1>1, MoreIs
<1>3. QED BY <1>2 DEF p

LEMMA Taken ==
  ASSUME NEW q \in Seq(Notes), q # <<>>
  PROVE  More(q, Tail(q), Head(q).what, Head(q).g)
<1> DEFINE e == Head(q)
           p == Tail(q)
<1>1. /\ p \in Seq(Notes)
      /\ \A w : Queued(q, w) = Queued(p, w) + Is(e, w)
      /\ \A w, g : QueuedFor(q, w, g) = QueuedFor(p, w, g) + IsFor(e, w, g)
  BY TailCounts
<1> HIDE DEF e, p
<1>2. More(q, p, e.what, e.g)
  BY <1>1, MoreIs
<1>3. QED BY <1>2 DEF e, p

LEMMA Replaced ==
  ASSUME NEW q \in Seq(Notes), NEW e \in Notes
  PROVE  More(<<e>> \o q, q, e.what, e.g)
<1> DEFINE p == <<e>> \o q
<1>1. p \in Seq(Notes) /\ p # <<>> /\ Head(p) = e /\ Tail(p) = q
  BY Forms
<1> HIDE DEF p
<1>2. More(p, Tail(p), Head(p).what, Head(p).g)
  BY <1>1, Taken
<1>3. More(p, q, e.what, e.g)
  BY <1>1, <1>2
<1>4. QED BY <1>3 DEF p

(* What GiveBack asks of tuner_service.                                     *)
LEMMA GivenCounts ==
  ASSUME NEW q \in Seq(Notes), NEW x \in Groups
  PROVE  LET p == q \o <<On("tune_stop", x), On("close", x)>>
         IN  /\ p \in Seq(Notes)
             /\ \A w : w \notin {"tune_stop", "close"} => Queued(p, w) = Queued(q, w)
             /\ \A w, g : w \notin {"tune_stop", "close"} => QueuedFor(p, w, g) = QueuedFor(q, w, g)
             /\ \A g : QueuedFor(p, "close", g) = QueuedFor(q, "close", g) + One(g = x)
<1> DEFINE a == On("tune_stop", x)
           b == On("close", x)
           r == Append(q, a)
           p == Append(r, b)
<1>1. a \in Notes /\ b \in Notes /\ a.what = "tune_stop" /\ b.what = "close" /\ a.g = x /\ b.g = x
  BY DEF On, Notes
<1> HIDE DEF a, b
<1>2. q \o <<a, b>> = p
  BY <1>1, Forms
<1>3. /\ r \in Seq(Notes)
      /\ \A w : Queued(r, w) = Queued(q, w) + Is(a, w)
      /\ \A w, g : QueuedFor(r, w, g) = QueuedFor(q, w, g) + IsFor(a, w, g)
  BY <1>1, AppendCounts
<1> HIDE DEF r
<1>4. /\ p \in Seq(Notes)
      /\ \A w : Queued(p, w) = Queued(r, w) + Is(b, w)
      /\ \A w, g : QueuedFor(p, w, g) = QueuedFor(r, w, g) + IsFor(b, w, g)
  BY <1>1, <1>3, AppendCounts
<1> HIDE DEF p
<1>5. \A w : Queued(q, w) \in Nat /\ \A g : QueuedFor(q, w, g) \in Nat
  BY QueuesCount
<1>6. \A w : w \notin {"tune_stop", "close"} => Queued(p, w) = Queued(q, w)
  BY <1>1, <1>3, <1>4, <1>5 DEF Is, IsFor, One
<1>7. ASSUME NEW w, NEW g, w \notin {"tune_stop", "close"}
      PROVE  QueuedFor(p, w, g) = QueuedFor(q, w, g)
  <2>1. IsFor(a, w, g) = 0 /\ IsFor(b, w, g) = 0
    BY <1>1, <1>7 DEF Is, IsFor, One
  <2>2. QueuedFor(q, w, g) \in Nat
    BY <1>5
  <2>3. QueuedFor(r, w, g) = QueuedFor(q, w, g) + 0
    BY <1>3, <2>1
  <2>4. QueuedFor(p, w, g) = QueuedFor(r, w, g) + 0
    BY <1>4, <2>1
  <2>5. QED BY <2>2, <2>3, <2>4
<1>8. ASSUME NEW g PROVE QueuedFor(p, "close", g) = QueuedFor(q, "close", g) + One(g = x)
  <2>1. IsFor(a, "close", g) = 0 /\ IsFor(b, "close", g) = One(g = x)
    BY <1>1 DEF Is, IsFor, One
  <2>2. QueuedFor(q, "close", g) \in Nat
    BY <1>5
  <2>3. QueuedFor(r, "close", g) = QueuedFor(q, "close", g) + 0
    BY <1>3, <2>1
  <2>4. QueuedFor(p, "close", g) = QueuedFor(r, "close", g) + One(g = x)
    BY <1>4, <2>1
  <2>5. QED BY <2>2, <2>3, <2>4
<1>9. QED BY <1>2, <1>4, <1>6, <1>7, <1>8 DEF a, b

LEMMA NoneFor ==
  ASSUME NEW q \in Seq(Notes), NEW w, NEW g \in Groups
  PROVE  QueuedFor(q, w, g) <= Queued(q, w)
<1> DEFINE S == [what : {w}, g : Groups \cup {NoGroup}]
           T == {On(w, g)}
           D == {i \in DOMAIN q : q[i] \in S}
           E == {i \in DOMAIN q : q[i] \in T}
<1>1. IsFiniteSet(D) /\ IsFiniteSet(E)
  BY CountType
<1>2. T \subseteq S
  BY DEF On
<1>3. E \subseteq D
  BY <1>2
<1>4. Cardinality(E) <= Cardinality(D)
  BY <1>1, <1>3, FS_Subset
<1>5. QED BY <1>4 DEF Queued, QueuedFor, Count

-----------------------------------------------------------------------------
(* The fibers.                                                              *)
FiberSet == [pc : Pcs, g : Groups \cup {NoGroup}, n : Nat]

LEMMA FibersAre ==
  ASSUME FiberType
  PROVE  /\ fiber \in [Fibers -> FiberSet]
         /\ "check" \in Fibers /\ "start" \in Fibers /\ "epg" \in Fibers /\ "watch" \in Fibers
         /\ ~At("start", "sleep") => Starting \in Groups
BY DEF FiberType, FiberSet, Fibers

LEMMA GoesIs ==
  ASSUME FiberType, NEW f \in Fibers, NEW pc \in Pcs, Goes(f, pc)
  PROVE  /\ fiber' \in [Fibers -> FiberSet]
         /\ fiber'[f].pc = pc /\ fiber'[f].g = fiber[f].g /\ fiber'[f].n = fiber[f].n
         /\ \A x \in Fibers : x # f => fiber'[x] = fiber[x]
<1>1. fiber \in [Fibers -> FiberSet]
  BY FibersAre
<1>2. fiber' = [fiber EXCEPT ![f] = [fiber[f] EXCEPT !.pc = pc]]
  BY DEF Goes
<1>3. [fiber[f] EXCEPT !.pc = pc] \in FiberSet
  BY <1>1 DEF FiberSet
<1>4. fiber'[f] = [fiber[f] EXCEPT !.pc = pc]
  BY <1>1, <1>2
<1>5. fiber[f] \in FiberSet
  BY <1>1
<1>6. fiber'[f].pc = pc /\ fiber'[f].g = fiber[f].g /\ fiber'[f].n = fiber[f].n
  BY <1>4, <1>5 DEF FiberSet
<1>7. QED BY <1>1, <1>2, <1>3, <1>6

LEMMA OverIs ==
  ASSUME FiberType, StartOver
  PROVE  /\ fiber' \in [Fibers -> FiberSet]
         /\ fiber'["check"] = Asleep /\ fiber'["start"] = Asleep
         /\ fiber'["epg"] = fiber["epg"] /\ fiber'["watch"] = fiber["watch"]
<1>1. fiber \in [Fibers -> FiberSet]
  BY FibersAre
<1>2. Asleep \in FiberSet
  BY DEF Asleep, FiberSet, Pcs
<1>3. fiber' = [fiber EXCEPT !["start"] = Asleep, !["check"] = Asleep]
  BY DEF StartOver
<1>4. QED BY <1>1, <1>2, <1>3, FibersAre DEF Fibers

LEMMA AsleepIs == Asleep.pc = "sleep" /\ Asleep.g = NoGroup /\ Asleep.n = 0
BY DEF Asleep

(* What the fibers check and start have moved to is a place of theirs.      *)
LEMMA FiberMoves ==
  ASSUME FiberType, fiber' \in [Fibers -> FiberSet],
         fiber'["check"].pc \in {"sleep", "open", "start"},
         fiber'["start"].pc \in {"sleep", "channel", "tune", "event", "pause", "force", "readd"},
         IF fiber'["start"].pc = "sleep" THEN fiber'["start"].g = NoGroup ELSE fiber'["start"].g \in Groups,
         fiber'["epg"] = fiber["epg"], fiber'["watch"] = fiber["watch"]
  PROVE  FiberType'
BY DEF FiberType, FiberSet, At, Starting

LEMMA OverMoves ==
  ASSUME FiberType, StartOver
  PROVE  FiberType'
BY OverIs, AsleepIs, FiberMoves

(* A step of the start of a recording.                                      *)
LEMMA StartMoves ==
  ASSUME FiberType, ~At("start", "sleep"),
         NEW pc \in {"channel", "tune", "event", "pause", "force", "readd"}, Goes("start", pc)
  PROVE  FiberType'
<1>1. pc \in Pcs
  BY DEF Pcs
<1>2. /\ fiber' \in [Fibers -> FiberSet]
      /\ fiber'["start"].pc = pc /\ fiber'["start"].g = fiber["start"].g
      /\ \A x \in Fibers : x # "start" => fiber'[x] = fiber[x]
  BY <1>1, GoesIs, FibersAre
<1>3. fiber["start"].g \in Groups
  BY FibersAre DEF Starting
<1>4. fiber["check"].pc \in {"sleep", "open", "start"}
  BY DEF FiberType
<1>5. QED BY <1>2, <1>3, <1>4, FiberMoves, FibersAre

LEMMA CheckMoves ==
  ASSUME FiberType, NEW pc \in {"sleep", "open", "start"}, Goes("check", pc)
  PROVE  FiberType'
<1>1. pc \in Pcs
  BY DEF Pcs
<1>2. /\ fiber' \in [Fibers -> FiberSet]
      /\ fiber'["check"].pc = pc
      /\ \A x \in Fibers : x # "check" => fiber'[x] = fiber[x]
  BY <1>1, GoesIs, FibersAre
<1>3. /\ fiber["start"].pc \in {"sleep", "channel", "tune", "event", "pause", "force", "readd"}
      /\ IF fiber["start"].pc = "sleep" THEN fiber["start"].g = NoGroup ELSE fiber["start"].g \in Groups
  BY DEF FiberType, At, Starting
<1>4. QED BY <1>2, <1>3, FiberMoves, FibersAre

(* The messages that the fibers check and start wait for, and those that    *)
(* they do not.                                                             *)
Awaited == {"open", "opened", "start", "tune", "tuning", "tuned", "not_tuned"}

SameFor(p, q) ==
  \A w \in Awaited : /\ Queued(p, w) = Queued(q, w)
                     /\ \A g \in Groups : QueuedFor(p, w, g) = QueuedFor(q, w, g)

LEMMA ControlStays ==
  ASSUME Control, SameFor(inbox', inbox), SameFor(svcq', svcq),
         fiber'["check"].pc = fiber["check"].pc,
         fiber'["start"].pc = fiber["start"].pc, fiber'["start"].g = fiber["start"].g
  PROVE  Control'
<1>1. OpenOnce'
  BY DEF Control, OpenOnce, At, SameFor, Awaited
<1>2. StartOnce'
  BY DEF Control, StartOnce, At, SameFor, Awaited
<1>3. TuneOnce'
  BY DEF Control, TuneOnce, At, SameFor, Awaited
<1>4. \A g \in Groups : TuneFor(g)' = TuneFor(g)
  BY DEF TuneFor, SameFor, Awaited
<1>5. TunesStarting'
  BY <1>4 DEF Control, TunesStarting, Starting
<1>6. QED BY <1>1, <1>2, <1>3, <1>5 DEF Control

LEMMA SameIfPosted ==
  ASSUME NEW q \in Seq(Notes), NEW e \in Notes, e.what \notin Awaited
  PROVE  SameFor(q \o <<e>>, q)
<1>1. \A w \in Awaited : Is(e, w) = 0 /\ \A g : IsFor(e, w, g) = 0
  BY DEF Is, IsFor
<1>2. \A w \in Awaited : Queued(q, w) \in Nat /\ \A g : QueuedFor(q, w, g) \in Nat
  BY QueuesCount
<1>3. QED BY <1>1, <1>2, PostedCounts DEF SameFor

LEMMA SameIfTaken ==
  ASSUME NEW q \in Seq(Notes), q # <<>>, Head(q).what \notin Awaited
  PROVE  SameFor(Tail(q), q)
<1>1. \A w \in Awaited : Is(Head(q), w) = 0 /\ \A g : IsFor(Head(q), w, g) = 0
  BY DEF Is, IsFor
<1>2. Tail(q) \in Seq(Notes)
  OBVIOUS
<1>3. \A w \in Awaited : Queued(Tail(q), w) \in Nat /\ \A g : QueuedFor(Tail(q), w, g) \in Nat
  BY <1>2, QueuesCount
<1>4. QED BY <1>1, <1>3, TailCounts DEF SameFor

LEMMA SameIfGiven ==
  ASSUME NEW q \in Seq(Notes), NEW x \in Groups
  PROVE  SameFor(q \o <<On("tune_stop", x), On("close", x)>>, q)
<1>1. \A w \in Awaited : w \notin {"tune_stop", "close"}
  BY DEF Awaited
<1>2. QED BY <1>1, GivenCounts DEF SameFor

LEMMA SameIfSame ==
  ASSUME NEW p, NEW q, p = q
  PROVE  SameFor(p, q)
BY DEF SameFor

LEMMA QueuesAre ==
  ASSUME WorldType
  PROVE  /\ inbox \in Seq(Notes) /\ svcq \in Seq(Notes)
         /\ \A w : Queued(inbox, w) \in Nat /\ Queued(svcq, w) \in Nat
         /\ \A w, g : QueuedFor(inbox, w, g) \in Nat /\ QueuedFor(svcq, w, g) \in Nat
<1>1. inbox \in Seq(Events) /\ svcq \in Seq(Calls)
  BY DEF WorldType
<1>2. inbox \in Seq(Notes) /\ svcq \in Seq(Notes)
  BY <1>1, NotesAre
<1>3. QED BY <1>2, QueuesCount

LEMMA EventIs ==
  ASSUME WorldType, NEW what, Event(what)
  PROVE  /\ inbox # <<>> /\ Head(inbox) \in Events /\ Head(inbox).what = what
         /\ EventOf \in Groups \cup {NoGroup}
         /\ what # "opened" => EventOf \in Groups
<1>1. inbox \in Seq(Events) /\ inbox # <<>> /\ Head(inbox).what = what
  BY DEF WorldType, Event
<1>2. Head(inbox) \in Events
  BY <1>1
<1>3. QED BY <1>1, <1>2 DEF Events, EventOf

LEMMA TakenIs ==
  ASSUME WorldType, inbox # <<>>, Then(<<>>)
  PROVE  inbox' = Tail(inbox) /\ inbox' \in Seq(Events) /\ inbox' \in Seq(Notes)
<1>1. inbox \in Seq(Events)
  BY DEF WorldType
<1>2. Tail(inbox) \in Seq(Events)
  BY <1>1
<1>3. inbox' = Tail(inbox)
  BY <1>2 DEF Then
<1>4. QED BY <1>2, <1>3, NotesAre

LEMMA CallIs ==
  ASSUME WorldType, NEW what, First(what)
  PROVE  /\ svcq # <<>> /\ Head(svcq) \in Calls /\ Head(svcq).what = what
         /\ Tail(svcq) \in Seq(Calls) /\ Tail(svcq) \in Seq(Notes)
         /\ Head(svcq).g = NoGroup <=> what = "open"
         /\ what # "open" => Head(svcq).g \in Groups
<1>1. svcq \in Seq(Calls) /\ svcq # <<>> /\ Head(svcq).what = what
  BY DEF WorldType, First
<1>2. Head(svcq) \in Calls /\ Tail(svcq) \in Seq(Calls) /\ Tail(svcq) \in Seq(Notes)
  BY <1>1, NotesAre
<1>3. NoGroup \notin Groups
  BY RecordingAssumption
<1>4. QED BY <1>1, <1>2, <1>3 DEF Calls

(* Who is under way when a start is.                                        *)
LEMMA Busy ==
  ASSUME FiberType, WorldType, Control, ~At("start", "sleep")
  PROVE  /\ At("check", "start")
         /\ Queued(svcq, "open") = 0 /\ Queued(inbox, "opened") = 0 /\ Queued(inbox, "start") = 0
         /\ ~At("start", "tune") =>
              /\ Queued(svcq, "tune") = 0 /\ Queued(svcq, "tuning") = 0
              /\ Queued(inbox, "tuned") = 0 /\ Queued(inbox, "not_tuned") = 0
<1>1. \A w : Queued(inbox, w) \in Nat /\ Queued(svcq, w) \in Nat
  BY QueuesAre
<1>2. Queued(inbox, "start") + 1 = One(At("check", "start"))
  BY DEF Control, StartOnce, One
<1>3. At("check", "start") /\ Queued(inbox, "start") = 0
  BY <1>1, <1>2 DEF One
<1>4. ~At("check", "open")
  BY <1>3 DEF At
<1>5. Queued(svcq, "open") = 0 /\ Queued(inbox, "opened") = 0
  BY <1>1, <1>4 DEF Control, OpenOnce, One
<1>6. ~At("start", "tune") =>
              /\ Queued(svcq, "tune") = 0 /\ Queued(svcq, "tuning") = 0
              /\ Queued(inbox, "tuned") = 0 /\ Queued(inbox, "not_tuned") = 0
  BY <1>1 DEF Control, TuneOnce, One
<1>7. QED BY <1>3, <1>5, <1>6

(* Control with the check loop and the start asleep again.                  *)
LEMMA ControlOver ==
  ASSUME FiberType, StartOver, inbox' \in Seq(Notes), svcq' \in Seq(Notes),
         Queued(svcq', "open") = 0, Queued(inbox', "opened") = 0, Queued(inbox', "start") = 0,
         Queued(svcq', "tune") = 0, Queued(svcq', "tuning") = 0,
         Queued(inbox', "tuned") = 0, Queued(inbox', "not_tuned") = 0
  PROVE  Control'
<1>1. fiber'["check"].pc = "sleep" /\ fiber'["start"].pc = "sleep"
  BY OverIs, AsleepIs
<1>2. OpenOnce'
  BY <1>1 DEF OpenOnce, At, One
<1>3. StartOnce'
  BY <1>1 DEF StartOnce, At, One
<1>4. TuneOnce'
  BY <1>1 DEF TuneOnce, At, One
<1>5. TunesStarting'
  <2>1. ASSUME NEW g \in Groups
        PROVE  /\ QueuedFor(svcq', "tune", g) = 0 /\ QueuedFor(svcq', "tuning", g) = 0
               /\ QueuedFor(inbox', "tuned", g) = 0 /\ QueuedFor(inbox', "not_tuned", g) = 0
    <3>1. /\ QueuedFor(svcq', "tune", g) \in Nat /\ QueuedFor(svcq', "tuning", g) \in Nat
          /\ QueuedFor(inbox', "tuned", g) \in Nat /\ QueuedFor(inbox', "not_tuned", g) \in Nat
      BY QueuesCount
    <3>2. /\ QueuedFor(svcq', "tune", g) <= 0 /\ QueuedFor(svcq', "tuning", g) <= 0
          /\ QueuedFor(inbox', "tuned", g) <= 0 /\ QueuedFor(inbox', "not_tuned", g) <= 0
      BY NoneFor
    <3>3. QED BY <3>1, <3>2
  <2>2. \A g \in Groups : (TuneFor(g))' = 0
    BY <2>1 DEF TuneFor
  <2>3. QED BY <2>2 DEF TunesStarting
<1>6. QED BY <1>2, <1>3, <1>4, <1>5 DEF Control

(* Whenever a start fails: after its tune has been answered, or when no     *)
(* tune is under way.                                                       *)
LEMMA ControlIfOver ==
  ASSUME FiberType, WorldType, Control, ~At("start", "sleep"), ~At("start", "tune"),
         StartOver, svcq' = svcq \/ \E g \in Groups : GiveBack(g), UNCHANGED inbox
  PROVE  Control'
<1>1. inbox' \in Seq(Notes) /\ svcq \in Seq(Notes) /\ inbox' = inbox
  BY QueuesAre
<1>2. svcq' \in Seq(Notes) /\ SameFor(svcq', svcq)
  <2>1. CASE svcq' = svcq
    BY <1>1, <2>1, SameIfSame
  <2>2. ASSUME NEW g \in Groups, GiveBack(g) PROVE svcq' \in Seq(Notes) /\ SameFor(svcq', svcq)
    BY <1>1, <2>2, SameIfGiven, GivenCounts DEF GiveBack
  <2>3. QED BY <2>1, <2>2
<1>3. /\ Queued(svcq', "open") = Queued(svcq, "open") /\ Queued(svcq', "tune") = Queued(svcq, "tune")
      /\ Queued(svcq', "tuning") = Queued(svcq, "tuning")
  BY <1>2 DEF SameFor, Awaited
<1>4. QED BY <1>1, <1>2, <1>3, Busy, ControlOver

(* A step of the check loop.                                                *)
LEMMA ControlInCheckLoop ==
  ASSUME FiberType, WorldType, Control, CheckLoop
  PROVE  FiberType' /\ Control'
<1>1. At("check", "sleep")
  BY DEF CheckLoop
<1>2. SameFor(inbox', inbox)
  <2>1. CASE inbox' = inbox
    BY <2>1, SameIfSame
  <2>2. ASSUME NEW g \in Groups, inbox' = inbox \o <<On("stop", g)>> PROVE SameFor(inbox', inbox)
    <3>1. On("stop", g) \in Notes /\ On("stop", g).what \notin Awaited
      BY DEF On, Notes, Awaited
    <3>2. QED BY <2>2, <3>1, QueuesAre, SameIfPosted
  <2>3. QED BY <2>1, <2>2 DEF CheckLoop, Post, Stoppable
<1>3. CASE svcq' = svcq /\ fiber' = fiber
  <2>1. FiberType'
    BY <1>3 DEF FiberType, At, Starting
  <2>2. QED BY <1>2, <1>3, <2>1, SameIfSame, ControlStays
<1>4. CASE svcq' = Append(svcq, On("open", NoGroup)) /\ Goes("check", "open")
  <2>1. FiberType'
    BY <1>4, CheckMoves
  <2>2. /\ fiber'["check"].pc = "open" /\ fiber'["start"] = fiber["start"]
    BY <1>4, GoesIs, FibersAre DEF Pcs
  <2> DEFINE e == On("open", NoGroup)
  <2>3. e \in Notes /\ e.what = "open"
    BY DEF On, Notes
  <2>4. /\ \A w : Queued(svcq', w) = Queued(svcq, w) + Is(e, w)
        /\ \A w, g : QueuedFor(svcq', w, g) = QueuedFor(svcq, w, g) + IsFor(e, w, g)
    BY <1>4, <2>3, QueuesAre, AppendCounts
  <2>5. Queued(svcq', "open") = Queued(svcq, "open") + 1
    BY <2>3, <2>4 DEF Is
  <2>6. /\ Queued(svcq', "tune") = Queued(svcq, "tune") + 0
        /\ Queued(svcq', "tuning") = Queued(svcq, "tuning") + 0
        /\ \A g : QueuedFor(svcq', "tune", g) = QueuedFor(svcq, "tune", g) + 0
        /\ \A g : QueuedFor(svcq', "tuning", g) = QueuedFor(svcq, "tuning", g) + 0
    BY <2>3, <2>4 DEF Is, IsFor
  <2> HIDE DEF e
  <2>7. /\ Queued(svcq', "tune") = Queued(svcq, "tune")
        /\ Queued(svcq', "tuning") = Queued(svcq, "tuning")
        /\ \A g : QueuedFor(svcq', "tune", g) = QueuedFor(svcq, "tune", g)
        /\ \A g : QueuedFor(svcq', "tuning", g) = QueuedFor(svcq, "tuning", g)
    BY <2>6, QueuesAre
  <2>8. OpenOnce'
    <3>1. Queued(inbox', "opened") = Queued(inbox, "opened")
      BY <1>2 DEF SameFor, Awaited
    <3>2. Queued(svcq, "open") + Queued(inbox, "opened") = 0
      BY <1>1 DEF Control, OpenOnce, One, At
    <3>3. Queued(svcq', "open") + Queued(inbox', "opened") = 1
      BY <2>5, <3>1, <3>2, QueuesAre
    <3>4. QED BY <2>2, <3>3 DEF OpenOnce, One, At
  <2>9. StartOnce'
    <3>1. Queued(inbox', "start") = Queued(inbox, "start")
      BY <1>2 DEF SameFor, Awaited
    <3>2. Queued(inbox, "start") + One(~At("start", "sleep")) = 0
      BY <1>1 DEF Control, StartOnce, One, At
    <3>3. QED BY <2>2, <3>1, <3>2 DEF StartOnce, One, At
  <2>10. TuneOnce'
    <3>1. Queued(inbox', "tuned") = Queued(inbox, "tuned") /\ Queued(inbox', "not_tuned") = Queued(inbox, "not_tuned")
      BY <1>2 DEF SameFor, Awaited
    <3>2. QED BY <2>2, <2>7, <3>1 DEF Control, TuneOnce, At
  <2>11. TunesStarting'
    <3>1. \A g \in Groups : /\ QueuedFor(inbox', "tuned", g) = QueuedFor(inbox, "tuned", g)
                            /\ QueuedFor(inbox', "not_tuned", g) = QueuedFor(inbox, "not_tuned", g)
      BY <1>2 DEF SameFor, Awaited
    <3>2. \A g \in Groups : TuneFor(g)' = TuneFor(g)
      BY <2>7, <3>1 DEF TuneFor
    <3>3. QED BY <2>2, <3>2 DEF Control, TunesStarting, Starting
  <2>12. QED BY <2>1, <2>8, <2>9, <2>10, <2>11 DEF Control
<1>5. QED BY <1>3, <1>4 DEF CheckLoop

(* The answer to open.                                                      *)
LEMMA OpenedIs ==
  ASSUME FiberType, WorldType, Control, Event("opened")
  PROVE  /\ At("check", "open") /\ At("start", "sleep")
         /\ Queued(svcq, "open") = 0 /\ Queued(inbox, "opened") = 1 /\ Queued(inbox, "start") = 0
         /\ \A w : w # "opened" => Queued(Tail(inbox), w) = Queued(inbox, w)
         /\ \A w, g : w # "opened" => QueuedFor(Tail(inbox), w, g) = QueuedFor(inbox, w, g)
         /\ Queued(Tail(inbox), "opened") = 0
<1> DEFINE e == Head(inbox)
<1>1. inbox \in Seq(Notes) /\ inbox # <<>> /\ e.what = "opened"
  BY QueuesAre, EventIs
<1>2. /\ Tail(inbox) \in Seq(Notes)
      /\ Queued(inbox, "opened") = Queued(Tail(inbox), "opened") + 1
      /\ \A w : w # "opened" => Queued(Tail(inbox), w) = Queued(inbox, w)
      /\ \A w, g : w # "opened" => QueuedFor(Tail(inbox), w, g) = QueuedFor(inbox, w, g)
  BY <1>1, Taken DEF More
<1>3. \A w : Queued(Tail(inbox), w) \in Nat
  BY <1>2, QueuesCount
<1>8. \A w : Queued(inbox, w) \in Nat /\ Queued(svcq, w) \in Nat
  BY QueuesAre
<1>9. At("check", "open") /\ Queued(svcq, "open") = 0 /\ Queued(inbox, "opened") = 1
  BY <1>2, <1>3, <1>8 DEF Control, OpenOnce, One
<1>10. ~At("check", "start")
  BY <1>9 DEF At
<1>11. Queued(inbox, "start") = 0 /\ At("start", "sleep")
  BY <1>8, <1>10 DEF Control, StartOnce, One
<1>12. QED BY <1>2, <1>3, <1>9, <1>11

LEMMA ControlInOpenAnswered ==
  ASSUME FiberType, WorldType, Control, OpenAnswered
  PROVE  FiberType' /\ Control'
<1>1. Event("opened") /\ UNCHANGED svcq
  BY DEF OpenAnswered, service
<1>2. /\ At("check", "open") /\ At("start", "sleep")
      /\ Queued(svcq, "open") = 0 /\ Queued(inbox, "opened") = 1 /\ Queued(inbox, "start") = 0
      /\ \A w : w # "opened" => Queued(Tail(inbox), w) = Queued(inbox, w)
      /\ \A w, g : w # "opened" => QueuedFor(Tail(inbox), w, g) = QueuedFor(inbox, w, g)
      /\ Queued(Tail(inbox), "opened") = 0
  BY <1>1, OpenedIs
<1>3. inbox \in Seq(Notes) /\ inbox # <<>> /\ Tail(inbox) \in Seq(Notes)
  BY <1>1, QueuesAre, EventIs
<1>4. \A w : /\ Queued(inbox, w) \in Nat /\ Queued(Tail(inbox), w) \in Nat
             /\ \A g : QueuedFor(inbox, w, g) \in Nat /\ QueuedFor(Tail(inbox), w, g) \in Nat
  BY <1>3, QueuesCount
<1>5. CASE Then(<<>>) /\ Goes("check", "sleep")
  <2>1. FiberType'
    BY <1>5, CheckMoves
  <2>2. fiber'["check"].pc = "sleep" /\ fiber'["start"] = fiber["start"]
    BY <1>5, GoesIs, FibersAre DEF Pcs
  <2>3. inbox' = Tail(inbox)
    BY <1>3, <1>5, TakenIs
  <2>4. OpenOnce' /\ StartOnce'
    BY <1>1, <1>2, <2>2, <2>3 DEF OpenOnce, StartOnce, At, One
  <2>5. TuneOnce'
    BY <1>1, <1>2, <2>2, <2>3 DEF Control, TuneOnce, At
  <2>6. \A g \in Groups : TuneFor(g)' = TuneFor(g)
    BY <1>1, <1>2, <2>3 DEF TuneFor
  <2>7. TunesStarting'
    BY <2>2, <2>6 DEF Control, TunesStarting, Starting
  <2>8. QED BY <2>1, <2>4, <2>5, <2>7 DEF Control
<1>6. CASE EventOf # NoGroup /\ Pick(EventOf)
  <2> DEFINE e == On("start", EventOf)
  <2>1. FiberType'
    BY <1>6, CheckMoves DEF Pick
  <2>2. fiber'["check"].pc = "start" /\ fiber'["start"] = fiber["start"]
    BY <1>6, GoesIs, FibersAre DEF Pcs, Pick
  <2>3. e \in Notes /\ e.what = "start"
    BY <1>1, <1>6, EventIs DEF On, Notes
  <2>4. inbox' = Tail(inbox) \o <<e>>
    BY <1>6 DEF Pick, Then
  <2>5. /\ Queued(inbox', "start") = Queued(Tail(inbox), "start") + 1
        /\ \A w : w # "start" => Queued(inbox', w) = Queued(Tail(inbox), w)
        /\ \A w, g : w # "start" => QueuedFor(inbox', w, g) = QueuedFor(Tail(inbox), w, g)
    <3>1. More(inbox', Tail(inbox), e.what, e.g)
      BY <1>3, <2>3, <2>4, Posted
    <3>2. QED BY <2>3, <3>1 DEF More
  <2>6. Queued(inbox', "start") = 1
    BY <1>2, <2>5
  <2>10. OpenOnce'
    BY <1>1, <1>2, <2>2, <2>5 DEF OpenOnce, At, One
  <2>11. StartOnce'
    BY <1>2, <2>2, <2>6 DEF StartOnce, At, One
  <2>12. TuneOnce'
    BY <1>1, <1>2, <2>2, <2>5 DEF Control, TuneOnce, At
  <2>13. \A g \in Groups : TuneFor(g)' = TuneFor(g)
    BY <1>1, <1>2, <2>5 DEF TuneFor
  <2>14. TunesStarting'
    BY <2>2, <2>13 DEF Control, TunesStarting, Starting
  <2>15. QED BY <2>1, <2>10, <2>11, <2>12, <2>14 DEF Control
<1>7. QED BY <1>5, <1>6 DEF OpenAnswered

(* The queues of the program.                                               *)
LEMMA InboxPosted ==
  ASSUME WorldType, NEW what, NEW g, On(what, g) \in Notes, Post(<<On(what, g)>>)
  PROVE  More(inbox', inbox, what, g)
<1> DEFINE e == On(what, g)
<1>1. e \in Notes /\ e.what = what /\ e.g = g
  BY DEF On
<1>2. inbox \in Seq(Notes) /\ inbox' = inbox \o <<e>>
  BY QueuesAre DEF Post
<1> HIDE DEF e
<1>3. QED BY <1>1, <1>2, Posted

LEMMA InboxTaken ==
  ASSUME WorldType, NEW what, Event(what), Then(<<>>)
  PROVE  More(inbox, inbox', what, EventOf)
<1>1. inbox' = Tail(inbox) /\ inbox # <<>> /\ Head(inbox).what = what /\ inbox \in Seq(Notes)
  BY TakenIs, EventIs, QueuesAre
<1>2. QED BY <1>1, Taken DEF EventOf

LEMMA SvcqPosted ==
  ASSUME WorldType, NEW what, NEW g, On(what, g) \in Notes, svcq' = Append(svcq, On(what, g))
  PROVE  More(svcq', svcq, what, g)
<1> DEFINE e == On(what, g)
<1>1. e \in Notes /\ e.what = what /\ e.g = g
  BY DEF On
<1>2. svcq \in Seq(Notes) /\ svcq' = Append(svcq, e)
  BY QueuesAre
<1> HIDE DEF e
<1>3. svcq' = svcq \o <<e>>
  BY <1>1, <1>2, Forms
<1>4. QED BY <1>1, <1>2, <1>3, Posted

LEMMA SvcqTaken ==
  ASSUME WorldType, NEW what, First(what)
  PROVE  More(svcq, Tail(svcq), what, Head(svcq).g)
<1>1. svcq # <<>> /\ Head(svcq).what = what /\ svcq \in Seq(Notes)
  BY CallIs, QueuesAre
<1>2. QED BY <1>1, Taken

LEMMA SvcqReplaced ==
  ASSUME WorldType, NEW w, First(w), NEW what, NEW g, On(what, g) \in Notes, svcq' = <<On(what, g)>> \o Tail(svcq)
  PROVE  More(svcq', Tail(svcq), what, g)
<1> DEFINE e == On(what, g)
<1>1. e \in Notes /\ e.what = what /\ e.g = g
  BY DEF On
<1>2. Tail(svcq) \in Seq(Notes)
  BY CallIs
<1> HIDE DEF e
<1>3. More(<<e>> \o Tail(svcq), Tail(svcq), e.what, e.g)
  BY <1>1, <1>2, Replaced
<1>4. svcq' = <<e>> \o Tail(svcq)
  BY DEF e
<1>5. QED BY <1>1, <1>3, <1>4

(* The start of a recording.                                                *)
LEMMA ControlInOnStart ==
  ASSUME FiberType, WorldType, Control, OnStart
  PROVE  FiberType' /\ Control'
<1>1. Event("start") /\ Then(<<>>)
  BY DEF OnStart
<1>2. EventOf \in Groups
  BY <1>1, EventIs
<1>3. More(inbox, inbox', "start", EventOf)
  BY <1>1, InboxTaken
<1>4. /\ \A w : Queued(inbox, w) \in Nat /\ Queued(svcq, w) \in Nat
      /\ Queued(inbox', "start") \in Nat
  BY <1>3, QueuesAre, QueuesCount DEF More
<1>5. /\ At("check", "start") /\ At("start", "sleep") /\ Queued(inbox', "start") = 0
  BY <1>3, <1>4 DEF More, Control, StartOnce, One
<1>6. ~At("check", "open") /\ ~At("start", "tune")
  BY <1>5 DEF At
<1>7. Queued(svcq, "open") = 0 /\ Queued(inbox, "opened") = 0
  BY <1>4, <1>6 DEF Control, OpenOnce, One
<1>8. /\ Queued(svcq, "tune") = 0 /\ Queued(svcq, "tuning") = 0
      /\ Queued(inbox, "tuned") = 0 /\ Queued(inbox, "not_tuned") = 0
  BY <1>4, <1>6 DEF Control, TuneOnce, One
<1>9. /\ Queued(inbox', "opened") = 0 /\ Queued(inbox', "tuned") = 0 /\ Queued(inbox', "not_tuned") = 0
      /\ inbox' \in Seq(Notes)
  BY <1>3, <1>7, <1>8 DEF More
<1>10. CASE StartFails(EventOf)
  <2>1. StartOver /\ GiveBack(EventOf)
    BY <1>10 DEF StartFails
  <2>2. svcq' \in Seq(Notes) /\ \A w : w \notin {"tune_stop", "close"} => Queued(svcq', w) = Queued(svcq, w)
    BY <1>2, <2>1, QueuesAre, GivenCounts DEF GiveBack
  <2>3. QED BY <1>5, <1>7, <1>8, <1>9, <2>1, <2>2, ControlOver, OverMoves
<1>11. CASE UNCHANGED svcq /\ fiber' = [fiber EXCEPT !["start"] = [pc |-> "channel", g |-> EventOf, n |-> 0]]
  <2>1. [pc |-> "channel", g |-> EventOf, n |-> 0] \in FiberSet
    BY <1>2 DEF FiberSet, Pcs
  <2>2. /\ fiber' \in [Fibers -> FiberSet] /\ fiber'["start"].pc = "channel" /\ fiber'["start"].g = EventOf
        /\ fiber'["check"] = fiber["check"] /\ fiber'["epg"] = fiber["epg"] /\ fiber'["watch"] = fiber["watch"]
    BY <1>11, <2>1, FibersAre
  <2>3. FiberType'
    <3>1. fiber["check"].pc \in {"sleep", "open", "start"}
      BY DEF FiberType
    <3>2. QED BY <1>2, <2>2, <3>1, FiberMoves
  <2>4. OpenOnce'
    BY <1>6, <1>7, <1>9, <1>11, <2>2 DEF OpenOnce, At, One
  <2>5. StartOnce'
    BY <1>5, <2>2 DEF StartOnce, At, One
  <2>6. TuneOnce'
    BY <1>8, <1>9, <1>11, <2>2 DEF TuneOnce, At, One
  <2>7. TunesStarting'
    <3>1. ASSUME NEW g \in Groups PROVE (TuneFor(g))' = 0
      <4>1. /\ QueuedFor(svcq, "tune", g) \in Nat /\ QueuedFor(svcq, "tuning", g) \in Nat
            /\ QueuedFor(inbox', "tuned", g) \in Nat /\ QueuedFor(inbox', "not_tuned", g) \in Nat
        BY <1>9, QueuesAre, QueuesCount
      <4>2. /\ QueuedFor(svcq, "tune", g) <= 0 /\ QueuedFor(svcq, "tuning", g) <= 0
            /\ QueuedFor(inbox', "tuned", g) <= 0 /\ QueuedFor(inbox', "not_tuned", g) <= 0
        BY <1>8, <1>9, NoneFor, QueuesAre
      <4>3. QED BY <1>11, <4>1, <4>2 DEF TuneFor
    <3>2. QED BY <3>1 DEF TunesStarting
  <2>8. QED BY <2>3, <2>4, <2>5, <2>6, <2>7 DEF Control
<1>12. QED BY <1>10, <1>11 DEF OnStart

(* A start that goes on while no message of its kind comes or goes.         *)
LEMMA ControlGoesOn ==
  ASSUME FiberType, WorldType, Control, ~At("start", "sleep"), ~At("start", "tune"),
         UNCHANGED <<inbox, svcq>>, fiber' \in [Fibers -> FiberSet],
         fiber'["start"].pc \in {"channel", "event", "pause", "force", "readd"}, fiber'["start"].g = fiber["start"].g,
         \A x \in Fibers : x # "start" => fiber'[x] = fiber[x]
  PROVE  FiberType' /\ Control'
<1>1. fiber'["check"] = fiber["check"] /\ fiber'["epg"] = fiber["epg"] /\ fiber'["watch"] = fiber["watch"]
  BY FibersAre
<1>2. fiber["check"].pc \in {"sleep", "open", "start"} /\ fiber["start"].g \in Groups
  BY FibersAre DEF FiberType, Starting
<1>3. FiberType'
  BY <1>1, <1>2, FiberMoves
<1>4. OpenOnce' /\ StartOnce' /\ TuneOnce' /\ TunesStarting'
  <2>1. OpenOnce'
    BY <1>1 DEF Control, OpenOnce, At
  <2>2. StartOnce'
    BY <1>1 DEF Control, StartOnce, At, One
  <2>3. TuneOnce'
    BY <1>1 DEF Control, TuneOnce, At, One
  <2>4. TunesStarting'
    BY <1>1 DEF Control, TunesStarting, TuneFor, Starting
  <2>5. QED BY <2>1, <2>2, <2>3, <2>4
<1>5. QED BY <1>3, <1>4 DEF Control

LEMMA ControlInChannelAnswered ==
  ASSUME FiberType, WorldType, Control, ChannelAnswered
  PROVE  FiberType' /\ Control'
<1>1. At("start", "channel") /\ UNCHANGED inbox
  BY DEF ChannelAnswered
<1>2. ~At("start", "sleep") /\ ~At("start", "tune") /\ Starting \in Groups
  BY <1>1, FibersAre DEF At
<1>3. CASE Goes("start", "tune") /\ svcq' = Append(svcq, On("tune", Starting))
  <2>1. FiberType'
    BY <1>2, <1>3, StartMoves
  <2>2. /\ fiber'["start"].pc = "tune" /\ fiber'["start"].g = fiber["start"].g
        /\ fiber'["check"] = fiber["check"]
    BY <1>3, GoesIs, FibersAre DEF Pcs
  <2>3. On("tune", Starting) \in Notes
    BY <1>2 DEF On, Notes
  <2>4. More(svcq', svcq, "tune", Starting)
    BY <1>3, <2>3, SvcqPosted
  <2>5. OpenOnce'
    BY <1>1, <2>2, <2>4 DEF Control, OpenOnce, At, More
  <2>6. StartOnce'
    BY <1>1, <1>2, <2>2 DEF Control, StartOnce, At, One
  <2>7. TuneOnce'
    BY <1>1, <1>2, <2>2, <2>4, Busy DEF TuneOnce, At, One, More
  <2>8. TunesStarting'
    <3>1. ASSUME NEW g \in Groups, g # Starting PROVE TuneFor(g)' = TuneFor(g)
      BY <1>1, <2>4, <3>1 DEF TuneFor, More
    <3>2. ASSUME NEW g \in Groups, (TuneFor(g))' # 0 PROVE g = Starting
      BY <3>1, <3>2 DEF Control, TunesStarting
    <3>3. Starting' = Starting
      BY <2>2 DEF Starting
    <3>4. QED BY <3>2, <3>3 DEF TunesStarting
  <2>9. QED BY <2>1, <2>5, <2>6, <2>7, <2>8 DEF Control
<1>4. CASE StartOver /\ GiveBack(Starting)
  BY <1>1, <1>2, <1>4, ControlIfOver, OverMoves
<1>5. QED BY <1>3, <1>4 DEF ChannelAnswered

(* The answer to tune.                                                      *)
LEMMA TuneAnswered ==
  ASSUME FiberType, WorldType, Control, NEW what \in {"tuned", "not_tuned"}, Event(what), Then(<<>>)
  PROVE  /\ At("start", "tune") /\ ~At("start", "sleep") /\ Starting \in Groups /\ EventOf = Starting
         /\ inbox' \in Seq(Notes)
         /\ Queued(svcq, "open") = 0 /\ Queued(inbox', "opened") = 0 /\ Queued(inbox', "start") = 0
         /\ Queued(svcq, "tune") = 0 /\ Queued(svcq, "tuning") = 0
         /\ Queued(inbox', "tuned") = 0 /\ Queued(inbox', "not_tuned") = 0
<1>1. More(inbox, inbox', what, EventOf)
  BY InboxTaken
<1>2. /\ \A w : Queued(inbox, w) \in Nat /\ Queued(svcq, w) \in Nat
      /\ \A w : Queued(inbox', w) \in Nat
  BY <1>1, QueuesAre, QueuesCount DEF More
<1>3. /\ At("start", "tune") /\ Queued(svcq, "tune") = 0 /\ Queued(svcq, "tuning") = 0
      /\ Queued(inbox', "tuned") = 0 /\ Queued(inbox', "not_tuned") = 0
  <2>1. One(At("start", "tune")) \in {0, 1} /\ (One(At("start", "tune")) = 1 => At("start", "tune"))
    BY DEF One
  <2>2. Queued(svcq, "tune") + Queued(svcq, "tuning") + Queued(inbox, "tuned") + Queued(inbox, "not_tuned")
          = One(At("start", "tune"))
    BY DEF Control, TuneOnce
  <2>3. ASSUME NEW a \in Nat, NEW b \in Nat, NEW c \in Nat, NEW d \in Nat, NEW k \in {0, 1},
               a + b + (c + 1) + d = k \/ a + b + c + (d + 1) = k
        PROVE  a = 0 /\ b = 0 /\ c = 0 /\ d = 0 /\ k = 1
    BY <2>3
  <2>4. \/ /\ Queued(inbox, "tuned") = Queued(inbox', "tuned") + 1
           /\ Queued(inbox, "not_tuned") = Queued(inbox', "not_tuned")
        \/ /\ Queued(inbox, "tuned") = Queued(inbox', "tuned")
           /\ Queued(inbox, "not_tuned") = Queued(inbox', "not_tuned") + 1
    BY <1>1 DEF More
  <2>5. /\ Queued(svcq, "tune") \in Nat /\ Queued(svcq, "tuning") \in Nat
        /\ Queued(inbox', "tuned") \in Nat /\ Queued(inbox', "not_tuned") \in Nat
    BY <1>2
  <2>6. QED BY <2>1, <2>2, <2>3, <2>4, <2>5
<1>4. ~At("start", "sleep") /\ Starting \in Groups
  BY <1>3, FibersAre DEF At
<1>5. Queued(inbox', "opened") = 0 /\ Queued(inbox', "start") = 0 /\ Queued(svcq, "open") = 0
  BY <1>1, <1>4, Busy DEF More
<1>6. EventOf = Starting
  <2>1. EventOf \in Groups
    BY EventIs
  <2>2. QueuedFor(inbox, what, EventOf) # 0
    BY <1>1, QueuesCount DEF More
  <2>3. TuneFor(EventOf) # 0
    <3>1. /\ QueuedFor(svcq, "tune", EventOf) \in Nat /\ QueuedFor(svcq, "tuning", EventOf) \in Nat
          /\ QueuedFor(inbox, "tuned", EventOf) \in Nat /\ QueuedFor(inbox, "not_tuned", EventOf) \in Nat
      BY QueuesAre
    <3>2. QueuedFor(inbox, "tuned", EventOf) # 0 \/ QueuedFor(inbox, "not_tuned", EventOf) # 0
      BY <2>2
    <3>3. QED BY <3>1, <3>2 DEF TuneFor
  <2>4. QED BY <2>1, <2>3 DEF Control, TunesStarting
<1>7. inbox' \in Seq(Notes)
  BY <1>1 DEF More
<1>8. QED BY <1>3, <1>4, <1>5, <1>6, <1>7

LEMMA SvcqGiven ==
  ASSUME WorldType, NEW x \in Groups, GiveBack(x)
  PROVE  /\ svcq' \in Seq(Notes)
         /\ \A w : w \notin {"tune_stop", "close"} => Queued(svcq', w) = Queued(svcq, w)
         /\ \A w, g : w \notin {"tune_stop", "close"} => QueuedFor(svcq', w, g) = QueuedFor(svcq, w, g)
         /\ \A g : QueuedFor(svcq', "close", g) = QueuedFor(svcq, "close", g) + One(g = x)
<1> DEFINE p == svcq \o <<On("tune_stop", x), On("close", x)>>
<1>1. /\ p \in Seq(Notes)
      /\ \A w : w \notin {"tune_stop", "close"} => Queued(p, w) = Queued(svcq, w)
      /\ \A w, g : w \notin {"tune_stop", "close"} => QueuedFor(p, w, g) = QueuedFor(svcq, w, g)
      /\ \A g : QueuedFor(p, "close", g) = QueuedFor(svcq, "close", g) + One(g = x)
  BY QueuesAre, GivenCounts
<1>2. svcq' = p
  BY DEF GiveBack
<1> HIDE DEF p
<1>3. /\ svcq' \in Seq(Notes)
      /\ \A w : w \notin {"tune_stop", "close"} => Queued(svcq', w) = Queued(svcq, w)
  BY <1>1, <1>2
<1>4. \A w, g : w \notin {"tune_stop", "close"} => QueuedFor(svcq', w, g) = QueuedFor(svcq, w, g)
  BY <1>1, <1>2
<1>5. ASSUME NEW g PROVE QueuedFor(svcq', "close", g) = QueuedFor(svcq, "close", g) + One(g = x)
  <2>1. QueuedFor(p, "close", g) = QueuedFor(svcq, "close", g) + One(g = x)
    BY <1>1
  <2>2. QED BY <1>2, <2>1
<1>6. QED BY <1>3, <1>4, <1>5

LEMMA ControlIfAnswered ==
  ASSUME FiberType, WorldType, Control, NEW what \in {"tuned", "not_tuned"}, Event(what), Then(<<>>),
         StartOver, svcq' = svcq \/ GiveBack(Starting)
  PROVE  FiberType' /\ Control'
<1>1. /\ Starting \in Groups /\ inbox' \in Seq(Notes)
      /\ Queued(svcq, "open") = 0 /\ Queued(inbox', "opened") = 0 /\ Queued(inbox', "start") = 0
      /\ Queued(svcq, "tune") = 0 /\ Queued(svcq, "tuning") = 0
      /\ Queued(inbox', "tuned") = 0 /\ Queued(inbox', "not_tuned") = 0
  BY TuneAnswered
<1>2. /\ svcq' \in Seq(Notes)
      /\ \A w : w \notin {"tune_stop", "close"} => Queued(svcq', w) = Queued(svcq, w)
  <2>1. CASE svcq' = svcq
    BY <2>1, QueuesAre
  <2>2. CASE GiveBack(Starting)
    BY <1>1, <2>2, SvcqGiven
  <2>3. QED BY <2>1, <2>2
<1>3. QED BY <1>1, <1>2, ControlOver, OverMoves

LEMMA ControlInTuned ==
  ASSUME FiberType, WorldType, Control, Tuned \/ NotTuned
  PROVE  FiberType' /\ Control'
<1>1. ASSUME Tuned, Go(Starting) PROVE FiberType' /\ Control'
  <2>1. Event("tuned") /\ Then(<<>>) /\ StartOver /\ (svcq' = svcq \/ GiveBack(Starting))
    BY <1>1 DEF Tuned, Go, StartFails
  <2>2. QED BY <2>1, ControlIfAnswered
<1>2. ASSUME NotTuned PROVE FiberType' /\ Control'
  <2>1. Event("not_tuned") /\ Then(<<>>) /\ StartOver /\ GiveBack(Starting)
    BY <1>2 DEF NotTuned, StartFails
  <2>2. QED BY <2>1, ControlIfAnswered
<1>3. ASSUME Tuned, StartGoes("event"), UNCHANGED svcq PROVE FiberType' /\ Control'
  <2>1. Event("tuned") /\ Then(<<>>) /\ Goes("start", "event")
    BY <1>3 DEF Tuned, StartGoes
  <2>2. /\ ~At("start", "sleep") /\ inbox' \in Seq(Notes)
        /\ Queued(svcq, "open") = 0 /\ Queued(inbox', "opened") = 0 /\ Queued(inbox', "start") = 0
        /\ Queued(svcq, "tune") = 0 /\ Queued(svcq, "tuning") = 0
        /\ Queued(inbox', "tuned") = 0 /\ Queued(inbox', "not_tuned") = 0
    BY <2>1, TuneAnswered
  <2>3. FiberType'
    BY <2>1, <2>2, StartMoves
  <2>4. fiber'["start"].pc = "event" /\ fiber'["check"] = fiber["check"]
    BY <2>1, GoesIs, FibersAre DEF Pcs
  <2>5. fiber["check"].pc = "start"
    BY <2>2, Busy DEF At
  <2>6. OpenOnce' /\ StartOnce' /\ TuneOnce'
    BY <1>3, <2>2, <2>4, <2>5 DEF OpenOnce, StartOnce, TuneOnce, At, One
  <2>7. TunesStarting'
    <3>1. ASSUME NEW g \in Groups PROVE (TuneFor(g))' = 0
      <4>1. /\ QueuedFor(svcq, "tune", g) \in Nat /\ QueuedFor(svcq, "tuning", g) \in Nat
            /\ QueuedFor(inbox', "tuned", g) \in Nat /\ QueuedFor(inbox', "not_tuned", g) \in Nat
        BY <2>2, QueuesAre, QueuesCount
      <4>2. /\ QueuedFor(svcq, "tune", g) <= 0 /\ QueuedFor(svcq, "tuning", g) <= 0
            /\ QueuedFor(inbox', "tuned", g) <= 0 /\ QueuedFor(inbox', "not_tuned", g) <= 0
        BY <2>2, NoneFor, QueuesAre
      <4>3. QED BY <1>3, <4>1, <4>2 DEF TuneFor
    <3>2. QED BY <3>1 DEF TunesStarting
  <2>8. QED BY <2>3, <2>6, <2>7 DEF Control
<1>4. QED BY <1>1, <1>2, <1>3 DEF Tuned

LEMMA ControlInLaterSteps ==
  ASSUME FiberType, WorldType, Control,
         \/ EventAnswered \/ PauseOver \/ ForceAnswered
         \/ \E time \in EpgTimes : ReAdd(time)
  PROVE  FiberType' /\ Control'
<1>1. /\ ~At("start", "sleep") /\ ~At("start", "tune") /\ Starting \in Groups
  <2>1. At("start", "event") \/ At("start", "pause") \/ At("start", "force") \/ At("start", "readd")
    BY DEF EventAnswered, PauseOver, ForceAnswered, ReAdd
  <2>2. ~At("start", "sleep") /\ ~At("start", "tune")
    BY <2>1 DEF At
  <2>3. QED BY <2>2, FibersAre
<1>2. UNCHANGED inbox
  BY DEF EventAnswered, PauseOver, ForceAnswered, ReAdd
<1>3. CASE StartOver /\ (svcq' = svcq \/ GiveBack(Starting))
  BY <1>1, <1>2, <1>3, ControlIfOver, OverMoves
<1>4. CASE UNCHANGED svcq /\ \E pc \in {"event", "pause", "force", "readd"} : Goes("start", pc)
  <2>1. PICK pc \in {"event", "pause", "force", "readd"} : Goes("start", pc)
    BY <1>4
  <2>2. pc \in Pcs
    BY DEF Pcs
  <2>3. /\ fiber' \in [Fibers -> FiberSet]
        /\ fiber'["start"].pc = pc /\ fiber'["start"].g = fiber["start"].g
        /\ \A x \in Fibers : x # "start" => fiber'[x] = fiber[x]
    BY <2>1, <2>2, GoesIs, FibersAre
  <2>4. QED BY <1>1, <1>2, <1>4, <2>3, ControlGoesOn
<1>5. CASE UNCHANGED svcq /\ fiber' = [fiber EXCEPT !["start"].pc = "event", !["start"].n = @ + 1]
  <2>1. fiber["start"] \in FiberSet /\ fiber \in [Fibers -> FiberSet] /\ "start" \in Fibers
    BY FibersAre
  <2> DEFINE b == [pc |-> "event", g |-> fiber["start"].g, n |-> fiber["start"].n + 1]
  <2>2. b \in FiberSet /\ b.pc = "event" /\ b.g = fiber["start"].g
    BY <2>1 DEF FiberSet, Pcs
  <2>3. fiber' = [fiber EXCEPT !["start"] = b]
    BY <1>5, <2>1 DEF FiberSet
  <2> HIDE DEF b
  <2>4. /\ fiber' \in [Fibers -> FiberSet]
        /\ fiber'["start"].pc = "event" /\ fiber'["start"].g = fiber["start"].g
        /\ \A x \in Fibers : x # "start" => fiber'[x] = fiber[x]
    BY <2>1, <2>2, <2>3
  <2>5. QED BY <1>1, <1>2, <1>5, <2>4, ControlGoesOn
<1>6. QED
  <2>1. CASE EventAnswered
    BY <1>3, <1>4, <2>1 DEF EventAnswered, Go, StartFails, StartGoes
  <2>2. CASE PauseOver
    BY <1>3, <1>5, <2>2 DEF PauseOver, StartFails
  <2>3. CASE ForceAnswered
    BY <1>3, <1>4, <2>3 DEF ForceAnswered, StartFails, StartGoes
  <2>4. CASE \E time \in EpgTimes : ReAdd(time)
    BY <1>3, <2>4 DEF ReAdd, StartFails
  <2>5. QED BY <2>1, <2>2, <2>3, <2>4

(* tuner_service.                                                           *)
LEMMA NotesIn ==
  ASSUME NEW g \in Groups \cup {NoGroup}
  PROVE  /\ On("opened", g) \in Notes /\ On("tuned", g) \in Notes /\ On("not_tuned", g) \in Notes
         /\ On("tuning", g) \in Notes /\ On("start", g) \in Notes /\ On("post", g) \in Notes
         /\ On("stop", g) \in Notes /\ On("pat_lost", g) \in Notes /\ On("tune", g) \in Notes
         /\ On("open", g) \in Notes
BY DEF On, Notes

(* A request that is taken and answered.                                    *)
Answers(w0, w1, x) ==
  /\ w0 \in {"open", "tune", "tuning"} /\ First(w0) /\ svcq' = Tail(svcq)
  /\ w1 \in {"opened", "tuned", "not_tuned"} /\ (w0 = "open" <=> w1 = "opened")
  /\ x \in Groups \cup {NoGroup} /\ Post(<<On(w1, x)>>) /\ (w0 # "open" => x = Head(svcq).g)

LEMMA ControlInService ==
  ASSUME FiberType, WorldType, Control, Service
  PROVE  FiberType' /\ Control'
<1>1. UNCHANGED fiber
  BY DEF Service, ServiceOpens, ServiceTunes, ServiceTuned, ServiceStops, ServiceCloses, ServiceOnly
<1>2. FiberType'
  BY <1>1 DEF FiberType, At, Starting
<1>3. /\ \A w : Queued(inbox, w) \in Nat /\ Queued(svcq, w) \in Nat
      /\ \A w, g : QueuedFor(inbox, w, g) \in Nat /\ QueuedFor(svcq, w, g) \in Nat
  BY QueuesAre
<1>4. ASSUME NEW w0, NEW w1, NEW x, Answers(w0, w1, x) PROVE Control'
  <2>0. /\ w0 \in {"open", "tune", "tuning"} /\ First(w0) /\ svcq' = Tail(svcq)
        /\ w1 \in {"opened", "tuned", "not_tuned"} /\ (w0 = "open" <=> w1 = "opened")
        /\ x \in Groups \cup {NoGroup} /\ Post(<<On(w1, x)>>) /\ (w0 # "open" => x = Head(svcq).g)
    BY <1>4 DEF Answers
  <2>1. More(svcq, svcq', w0, Head(svcq).g)
    BY <2>0, SvcqTaken
  <2>2. More(inbox', inbox, w1, x)
    BY <2>0, NotesIn, InboxPosted
  <2>3. \A w : Queued(svcq', w) \in Nat /\ Queued(inbox', w) \in Nat
    BY <2>1, <2>2, QueuesCount DEF More
  <2>4. OpenOnce'
    <3>1. Queued(svcq', "open") + Queued(inbox', "opened") = Queued(svcq, "open") + Queued(inbox, "opened")
      <4>1. CASE w0 = "open"
        <5>1. /\ Queued(svcq, "open") = Queued(svcq', "open") + 1
              /\ Queued(inbox', "opened") = Queued(inbox, "opened") + 1
          BY <2>0, <2>1, <2>2, <4>1 DEF More
        <5>2. QED BY <1>3, <2>3, <5>1
      <4>2. CASE w0 # "open"
        BY <2>0, <2>1, <2>2, <4>2 DEF More
      <4>3. QED BY <4>1, <4>2
    <3>2. QED BY <1>1, <3>1 DEF Control, OpenOnce, At
  <2>5. StartOnce'
    BY <1>1, <2>0, <2>2 DEF Control, StartOnce, More, At
  <2>6. TuneOnce'
    <3>1. Queued(svcq', "tune") + Queued(svcq', "tuning") + Queued(inbox', "tuned") + Queued(inbox', "not_tuned")
            = Queued(svcq, "tune") + Queued(svcq, "tuning") + Queued(inbox, "tuned") + Queued(inbox, "not_tuned")
      <4>1. CASE w0 = "open"
        BY <2>0, <2>1, <2>2, <4>1 DEF More
      <4>2. ASSUME NEW a \in {"tune", "tuning"}, NEW b \in {"tune", "tuning"}, a # b, w0 = a,
                   NEW c \in {"tuned", "not_tuned"}, NEW d \in {"tuned", "not_tuned"}, c # d, w1 = c
            PROVE  Queued(svcq', a) + Queued(svcq', b) + Queued(inbox', c) + Queued(inbox', d)
                     = Queued(svcq, a) + Queued(svcq, b) + Queued(inbox, c) + Queued(inbox, d)
        <5>1. /\ Queued(svcq, a) = Queued(svcq', a) + 1 /\ Queued(svcq', b) = Queued(svcq, b)
              /\ Queued(inbox', c) = Queued(inbox, c) + 1 /\ Queued(inbox', d) = Queued(inbox, d)
          BY <2>1, <2>2, <4>2 DEF More
        <5>2. /\ Queued(svcq', a) \in Nat /\ Queued(svcq, b) \in Nat
              /\ Queued(inbox, c) \in Nat /\ Queued(inbox, d) \in Nat
          BY <1>3, <2>3
        <5>3. QED BY <5>1, <5>2
      <4>3. /\ Queued(svcq', "tune") \in Nat /\ Queued(svcq', "tuning") \in Nat
            /\ Queued(inbox', "tuned") \in Nat /\ Queued(inbox', "not_tuned") \in Nat
            /\ Queued(svcq, "tune") \in Nat /\ Queued(svcq, "tuning") \in Nat
            /\ Queued(inbox, "tuned") \in Nat /\ Queued(inbox, "not_tuned") \in Nat
        BY <1>3, <2>3
      <4>4. CASE w0 = "tune" /\ w1 = "tuned"
        BY <4>2, <4>3, <4>4
      <4>5. CASE w0 = "tune" /\ w1 = "not_tuned"
        BY <4>2, <4>3, <4>5
      <4>6. CASE w0 = "tuning" /\ w1 = "tuned"
        BY <4>2, <4>3, <4>6
      <4>7. CASE w0 = "tuning" /\ w1 = "not_tuned"
        BY <4>2, <4>3, <4>7
      <4>8. QED BY <2>0, <4>1, <4>4, <4>5, <4>6, <4>7
    <3>2. QED BY <1>1, <3>1 DEF Control, TuneOnce, At
  <2>7. ASSUME NEW g \in Groups PROVE (TuneFor(g))' = TuneFor(g)
    <3>1. /\ QueuedFor(svcq', "tune", g) \in Nat /\ QueuedFor(svcq', "tuning", g) \in Nat
          /\ QueuedFor(inbox', "tuned", g) \in Nat /\ QueuedFor(inbox', "not_tuned", g) \in Nat
          /\ QueuedFor(svcq, "tune", g) \in Nat /\ QueuedFor(svcq, "tuning", g) \in Nat
          /\ QueuedFor(inbox, "tuned", g) \in Nat /\ QueuedFor(inbox, "not_tuned", g) \in Nat
      BY <2>1, <2>2, QueuesCount DEF More
    <3>2. CASE w0 = "open"
      BY <2>0, <2>1, <2>2, <3>2 DEF TuneFor, More
    <3>3. CASE w0 # "open" /\ g # x
      BY <2>0, <2>1, <2>2, <3>3 DEF TuneFor, More
    <3>4. CASE w0 # "open" /\ g = x
      <4>1. /\ QueuedFor(svcq, w0, g) = QueuedFor(svcq', w0, g) + 1
            /\ QueuedFor(inbox', w1, g) = QueuedFor(inbox, w1, g) + 1
            /\ \A w : w # w0 => QueuedFor(svcq', w, g) = QueuedFor(svcq, w, g)
            /\ \A w : w # w1 => QueuedFor(inbox', w, g) = QueuedFor(inbox, w, g)
        BY <2>0, <2>1, <2>2, <3>4 DEF More
      <4>2. QueuedFor(svcq', "tune", g) + QueuedFor(svcq', "tuning", g) + 1
              = QueuedFor(svcq, "tune", g) + QueuedFor(svcq, "tuning", g)
        <5>1. CASE w0 = "tune"
          BY <3>1, <4>1, <5>1
        <5>2. CASE w0 = "tuning"
          BY <3>1, <4>1, <5>2
        <5>3. QED BY <2>0, <3>4, <5>1, <5>2
      <4>3. QueuedFor(inbox', "tuned", g) + QueuedFor(inbox', "not_tuned", g)
              = QueuedFor(inbox, "tuned", g) + QueuedFor(inbox, "not_tuned", g) + 1
        <5>1. CASE w1 = "tuned"
          BY <3>1, <4>1, <5>1
        <5>2. CASE w1 = "not_tuned"
          BY <3>1, <4>1, <5>2
        <5>3. QED BY <2>0, <3>4, <5>1, <5>2
      <4>4. QED BY <3>1, <4>2, <4>3 DEF TuneFor
    <3>5. QED BY <3>2, <3>3, <3>4
  <2>8. TunesStarting'
    BY <1>1, <2>7 DEF Control, TunesStarting, Starting
  <2>9. QED BY <2>4, <2>5, <2>6, <2>8 DEF Control
<1>5. ASSUME First("tune"), svcq' = <<On("tuning", Head(svcq).g)>> \o Tail(svcq), UNCHANGED inbox
      PROVE  Control'
  <2> DEFINE x == Head(svcq).g
             q == Tail(svcq)
  <2>1. x \in Groups
    BY <1>5, CallIs
  <2>2. More(svcq, q, "tune", x)
    BY <1>5, SvcqTaken
  <2>3. More(svcq', q, "tuning", x)
    BY <1>5, <2>1, NotesIn, SvcqReplaced
  <2> HIDE DEF x, q
  <2>4. \A w : Queued(q, w) \in Nat
    BY <2>2, QueuesCount DEF More
  <2>5. OpenOnce' /\ StartOnce'
    BY <1>1, <1>5, <2>2, <2>3 DEF Control, OpenOnce, StartOnce, More, At
  <2>6. TuneOnce'
    <3>1. /\ Queued(svcq, "tune") = Queued(q, "tune") + 1 /\ Queued(q, "tuning") = Queued(svcq, "tuning")
          /\ Queued(svcq', "tuning") = Queued(q, "tuning") + 1 /\ Queued(svcq', "tune") = Queued(q, "tune")
      BY <2>2, <2>3 DEF More
    <3>2. Queued(svcq', "tune") + Queued(svcq', "tuning") = Queued(svcq, "tune") + Queued(svcq, "tuning")
      BY <1>3, <2>4, <3>1
    <3>3. QED BY <1>1, <1>5, <3>2 DEF Control, TuneOnce, At
  <2>7. ASSUME NEW g \in Groups PROVE (TuneFor(g))' = TuneFor(g)
    <3>1. /\ QueuedFor(q, "tune", g) \in Nat /\ QueuedFor(q, "tuning", g) \in Nat
          /\ QueuedFor(inbox, "tuned", g) \in Nat /\ QueuedFor(inbox, "not_tuned", g) \in Nat
      BY <2>2, QueuesAre, QueuesCount DEF More
    <3>2. CASE g # x
      BY <1>5, <2>2, <2>3, <3>2 DEF TuneFor, More
    <3>3. CASE g = x
      <4>1. /\ QueuedFor(svcq, "tune", g) = QueuedFor(q, "tune", g) + 1
            /\ QueuedFor(q, "tuning", g) = QueuedFor(svcq, "tuning", g)
            /\ QueuedFor(svcq', "tuning", g) = QueuedFor(q, "tuning", g) + 1
            /\ QueuedFor(svcq', "tune", g) = QueuedFor(q, "tune", g)
        BY <2>2, <2>3, <3>3 DEF More
      <4>2. QED BY <1>5, <3>1, <4>1 DEF TuneFor
    <3>4. QED BY <3>2, <3>3
  <2>8. TunesStarting'
    BY <1>1, <2>7 DEF Control, TunesStarting, Starting
  <2>9. QED BY <2>5, <2>6, <2>8 DEF Control
<1>6. ASSUME NEW w \in {"tune_stop", "close"}, First(w), svcq' = Tail(svcq), UNCHANGED inbox
      PROVE  Control'
  <2>1. svcq # <<>> /\ Head(svcq).what \notin Awaited
    BY <1>6, CallIs DEF Awaited
  <2>2. SameFor(svcq', svcq)
    BY <1>6, <2>1, QueuesAre, SameIfTaken
  <2>3. QED BY <1>1, <1>6, <2>2, SameIfSame, ControlStays
<1>7. CASE ServiceOpens
  <2>1. \E x \in Groups \cup {NoGroup} : Answers("open", "opened", x)
    BY <1>7 DEF ServiceOpens, Answers
  <2>2. QED BY <1>2, <1>4, <2>1
<1>8. CASE ServiceTunes
  <2>1. First("tune") /\ Head(svcq).g \in Groups
    BY <1>8, CallIs DEF ServiceTunes
  <2>2. \/ svcq' = <<On("tuning", Head(svcq).g)>> \o Tail(svcq) /\ UNCHANGED inbox
        \/ Answers("tune", "not_tuned", Head(svcq).g)
    BY <1>8, <2>1 DEF ServiceTunes, Answers
  <2>3. QED BY <1>2, <1>4, <1>5, <2>1, <2>2
<1>9. CASE ServiceTuned
  <2>1. First("tuning") /\ Head(svcq).g \in Groups
    BY <1>9, CallIs DEF ServiceTuned
  <2>2. Answers("tuning", "tuned", Head(svcq).g) \/ Answers("tuning", "not_tuned", Head(svcq).g)
    BY <1>9, <2>1 DEF ServiceTuned, Answers
  <2>3. QED BY <1>2, <1>4, <2>1, <2>2
<1>10. CASE ServiceStops
  <2>1. First("tune_stop") /\ svcq' = Tail(svcq) /\ UNCHANGED inbox
    BY <1>10 DEF ServiceStops
  <2>2. QED BY <1>2, <1>6, <2>1
<1>11. CASE ServiceCloses
  <2>1. First("close") /\ svcq' = Tail(svcq) /\ UNCHANGED inbox
    BY <1>11 DEF ServiceCloses
  <2>2. QED BY <1>2, <1>6, <2>1
<1>12. QED BY <1>2, <1>7, <1>8, <1>9, <1>10, <1>11 DEF Service

(* The fibers that watch the schedule.                                      *)
LEMMA TrackedIs ==
  ASSUME NEW t, NEW n
  PROVE  Tracked(t, n) # {} => Least(Tracked(t, n)) \in Slots
<1>1. Tracked(t, n) \in SUBSET Slots
  BY DEF Tracked
<1>2. QED BY <1>1, LeastIs

LEMMA ControlInWatching ==
  ASSUME FiberType, WorldType, Control, Watching
  PROVE  FiberType' /\ Control'
<1>1. UNCHANGED <<inbox, svcq>>
  BY DEF Watching, EpgBegins, WatchAsks, EpgAnswered, WatchAnswered, service
<1>2. PICK f \in {"epg", "watch"}, b \in FiberSet :
        /\ fiber' = [fiber EXCEPT ![f] = b]
        /\ f = "epg" /\ b.pc = "ask" => b.n \in Slots
        /\ f = "watch" /\ b.pc = "ask" => b.g \in Groups
  <2>1. Asleep \in FiberSet /\ Asleep.pc # "ask"
    BY DEF Asleep, FiberSet, Pcs
  <2>2. ASSUME NEW t, NEW n, EpgGoes(t, n)
        PROVE  \E b \in FiberSet : fiber' = [fiber EXCEPT !["epg"] = b] /\ (b.pc = "ask" => b.n \in Slots)
    <3>1. CASE Tracked(t, n) = {}
      BY <2>1, <2>2, <3>1 DEF EpgGoes
    <3>2. CASE Tracked(t, n) # {}
      <4> DEFINE b == [pc |-> "ask", g |-> NoGroup, n |-> Least(Tracked(t, n))]
      <4>1. Least(Tracked(t, n)) \in Slots
        BY <3>2, TrackedIs
      <4>2. b \in FiberSet /\ b.n \in Slots
        BY <4>1 DEF FiberSet, Pcs, Slots
      <4>3. fiber' = [fiber EXCEPT !["epg"] = b]
        BY <2>2, <3>2 DEF EpgGoes
      <4>4. QED BY <4>2, <4>3
    <3>3. QED BY <3>1, <3>2
  <2>3. ASSUME NEW g \in Groups, WatchAsks(g)
        PROVE  \E b \in FiberSet : fiber' = [fiber EXCEPT !["watch"] = b] /\ (b.pc = "ask" => b.g \in Groups)
    <3> DEFINE b == [pc |-> "ask", g |-> g, n |-> 0]
    <3>1. b \in FiberSet /\ b.g \in Groups
      BY DEF FiberSet, Pcs
    <3>2. fiber' = [fiber EXCEPT !["watch"] = b]
      BY <2>3 DEF WatchAsks
    <3>3. QED BY <3>1, <3>2
  <2>4. ASSUME NEW time, WatchAnswered(time)
        PROVE  \E b \in FiberSet : fiber' = [fiber EXCEPT !["watch"] = b] /\ (b.pc = "ask" => b.g \in Groups)
    BY <2>1, <2>4 DEF WatchAnswered
  <2>5. CASE EpgBegins \/ \E time \in EpgTimes : EpgAnswered(time)
    BY <2>2, <2>5 DEF EpgBegins, EpgAnswered
  <2>6. CASE (\E g \in Groups : WatchAsks(g)) \/ \E time \in EpgTimes : WatchAnswered(time)
    BY <2>3, <2>4, <2>6
  <2>7. QED BY <2>5, <2>6 DEF Watching
<1>3. fiber \in [Fibers -> FiberSet]
  BY FibersAre
<1>4. /\ fiber' \in [Fibers -> FiberSet] /\ fiber'[f] = b
      /\ \A x \in Fibers : x # f => fiber'[x] = fiber[x]
  BY <1>2, <1>3 DEF Fibers
<1>5. fiber'["check"] = fiber["check"] /\ fiber'["start"] = fiber["start"]
  BY <1>4, FibersAre
<1>6. FiberType'
  <2>1. CASE f = "epg"
    BY <1>2, <1>4, <1>5, <2>1, FibersAre DEF FiberType, FiberSet, At, Starting
  <2>2. CASE f = "watch"
    BY <1>2, <1>4, <1>5, <2>2, FibersAre DEF FiberType, FiberSet, At, Starting
  <2>3. QED BY <1>2, <2>1, <2>2
<1>7. Control'
  BY <1>1, <1>5, SameIfSame, ControlStays
<1>8. QED BY <1>6, <1>7

(* What else happens.                                                       *)
Quiet ==
  \/ OnNotice \/ OnStop \/ OnPatLost
  \/ Users \/ (up /\ World) \/ (up /\ Saves)
  \/ \E g \in Groups : DataArrives(g) \/ CallHandler(g)
  \/ \E g \in Groups, t \in Threads : InHandler(g, t)
  \/ UNCHANGED vars

LEMMA QuietInbox ==
  ASSUME WorldType, Quiet
  PROVE  SameFor(inbox', inbox)
<1>1. ASSUME UNCHANGED inbox PROVE SameFor(inbox', inbox)
  BY <1>1, SameIfSame
<1>2. ASSUME NEW w \in {"post", "stop", "pat_lost"}, NEW g \in Groups, Post(<<On(w, g)>>)
      PROVE  SameFor(inbox', inbox)
  <2> DEFINE e == On(w, g)
  <2>1. e \in Notes /\ e.what \notin Awaited
    BY DEF On, Notes, Awaited
  <2>2. inbox' = inbox \o <<e>>
    BY <1>2 DEF Post
  <2> HIDE DEF e
  <2>3. QED BY <2>1, <2>2, QueuesAre, SameIfPosted
<1>3. ASSUME NEW w \in {"post", "stop", "pat_lost"}, Event(w), Then(<<>>)
      PROVE  SameFor(inbox', inbox)
  <2>1. Head(inbox).what \notin Awaited /\ inbox # <<>> /\ inbox' = Tail(inbox)
    BY <1>3, EventIs, TakenIs DEF Awaited
  <2>2. QED BY <2>1, QueuesAre, SameIfTaken
<1>4. CASE OnNotice \/ OnStop \/ OnPatLost
  <2>1. CASE OnNotice
    <3>1. Event("post") /\ Then(<<>>)
      BY <2>1 DEF OnNotice
    <3>2. QED BY <1>3, <3>1
  <2>2. CASE OnStop
    <3>1. Event("stop") /\ Then(<<>>)
      BY <2>2 DEF OnStop
    <3>2. QED BY <1>3, <3>1
  <2>3. CASE OnPatLost
    <3>1. Event("pat_lost") /\ Then(<<>>)
      BY <2>3 DEF OnPatLost
    <3>2. QED BY <1>3, <3>1
  <2>4. QED BY <1>4, <2>1, <2>2, <2>3
<1>5. CASE Users
  <2>1. UNCHANGED inbox \/ \E g \in Groups : Post(<<On("stop", g)>>)
    BY <1>5 DEF Users, AddEvent, AddCurrentEvent, AddManual, AddReserve, RemoveReserve, AskStop
  <2>2. QED BY <1>1, <1>2, <2>1
<1>6. CASE World \/ Saves
  <2>1. UNCHANGED inbox \/ \E g \in Groups : Post(<<On("pat_lost", g)>>)
    BY <1>6 DEF World, Saves, Tick, Crash, StreamDries, OtherOpens, OtherCloses
  <2>2. QED BY <1>1, <1>2, <2>1
<1>7. ASSUME NEW g \in Groups, DataArrives(g) \/ CallHandler(g) PROVE SameFor(inbox', inbox)
  BY <1>1, <1>7 DEF DataArrives, CallHandler
<1>8. ASSUME NEW g \in Groups, NEW t \in Threads, InHandler(g, t) PROVE SameFor(inbox', inbox)
  <2>1. CASE Leave(g, t)
    BY <1>1, <2>1 DEF Leave
  <2>2. CASE Notify(g, t)
    <3>1. CASE progress[g] = "post"
      BY <1>2, <2>2, <3>1 DEF Notify
    <3>2. CASE progress[g] # "post"
      <4>1. inbox' = inbox \o <<>> /\ inbox \in Seq(Notes)
        BY <2>2, <3>2, QueuesAre DEF Notify, Post
      <4>2. inbox' = inbox
        BY <4>1
      <4>3. QED BY <1>1, <4>2
    <3>3. QED BY <3>1, <3>2
  <2>3. QED BY <1>8, <2>1, <2>2 DEF InHandler
<1>9. CASE UNCHANGED vars
  BY <1>1, <1>9 DEF vars
<1>10. QED BY <1>4, <1>5, <1>6, <1>7, <1>8, <1>9 DEF Quiet

LEMMA ControlInQuiet ==
  ASSUME FiberType, WorldType, Control, Quiet
  PROVE  FiberType' /\ Control'
<1>1. UNCHANGED fiber /\ (UNCHANGED svcq \/ \E g \in Groups : GiveBack(g))
  <2>1. CASE OnNotice
    <3>1. EventOf \in Groups
      BY <2>1, EventIs DEF OnNotice
    <3>2. QED BY <2>1, <3>1 DEF OnNotice
  <2>2. CASE OnStop \/ OnPatLost
    BY <2>2 DEF OnStop, OnPatLost, service
  <2>3. CASE Users
    BY <2>3 DEF Users, AddEvent, AddCurrentEvent, AddManual, AddReserve, RemoveReserve, AskStop, service
  <2>4. CASE World \/ Saves
    BY <2>4 DEF World, Saves, Tick, Crash, StreamDries, OtherOpens, OtherCloses, ServiceOnly, service
  <2>5. CASE \E g \in Groups : DataArrives(g) \/ CallHandler(g)
    BY <2>5 DEF DataArrives, CallHandler, service
  <2>6. CASE \E g \in Groups, t \in Threads : InHandler(g, t)
    BY <2>6 DEF InHandler, Notify, Leave, service
  <2>7. CASE UNCHANGED vars
    BY <2>7 DEF vars, service
  <2>8. QED BY <2>1, <2>2, <2>3, <2>4, <2>5, <2>6, <2>7 DEF Quiet
<1>2. SameFor(svcq', svcq)
  <2>1. CASE UNCHANGED svcq
    BY <2>1, SameIfSame
  <2>2. ASSUME NEW g \in Groups, GiveBack(g) PROVE SameFor(svcq', svcq)
    BY <2>2, QueuesAre, SameIfGiven DEF GiveBack
  <2>3. QED BY <1>1, <2>1, <2>2
<1>3. FiberType'
  BY <1>1 DEF FiberType, At, Starting
<1>4. QED BY <1>1, <1>2, <1>3, QuietInbox, ControlStays

LEMMA NothingQueued == \A w : Queued(<<>>, w) = 0 /\ \A g : QueuedFor(<<>>, w, g) = 0
<1>1. <<>> \in Seq(Notes) /\ DOMAIN <<>> = {}
  OBVIOUS
<1>2. \A S : Count(<<>>, S) = 0
  BY <1>1, CountType
<1>3. QED BY <1>2 DEF Queued, QueuedFor

LEMMA ControlInRestart ==
  ASSUME Restart
  PROVE  FiberType' /\ Control'
<1>1. fiber' = [f \in Fibers |-> Asleep] /\ inbox' = <<>> /\ svcq' = <<>>
  BY DEF Restart, Volatile
<1>2. /\ fiber' \in [Fibers -> FiberSet]
      /\ fiber'["check"] = Asleep /\ fiber'["start"] = Asleep
      /\ fiber'["epg"] = Asleep /\ fiber'["watch"] = Asleep
  BY <1>1 DEF Fibers, FiberSet, Asleep, Pcs
<1>3. FiberType'
  BY <1>2, AsleepIs DEF FiberType, FiberSet, At, Starting
<1>4. \A w : Queued(<<>>, w) = 0 /\ \A g : QueuedFor(<<>>, w, g) = 0
  BY NothingQueued
<1>5. OpenOnce' /\ StartOnce' /\ TuneOnce'
  BY <1>1, <1>2, <1>4, AsleepIs DEF OpenOnce, StartOnce, TuneOnce, At, One
<1>6. \A g \in Groups : (TuneFor(g))' = 0
  BY <1>1, <1>4 DEF TuneFor
<1>7. TunesStarting'
  BY <1>6 DEF TunesStarting
<1>8. QED BY <1>3, <1>5, <1>7 DEF Control

(* Every step is one of these.                                              *)
Step ==
  \/ CheckLoop \/ OpenAnswered \/ OnStart \/ ChannelAnswered
  \/ Tuned \/ NotTuned \/ EventAnswered \/ PauseOver \/ ForceAnswered
  \/ \E time \in EpgTimes : ReAdd(time)
  \/ Watching \/ Service \/ Quiet \/ Restart

LEMMA NextIsStep ==
  ASSUME [Next]_vars
  PROVE  Step
BY DEF Next, RecManager, Step, Quiet

LEMMA ControlStep ==
  ASSUME FiberType, WorldType, Control, Step
  PROVE  FiberType' /\ Control'
BY ControlInCheckLoop, ControlInOpenAnswered, ControlInOnStart, ControlInChannelAnswered, ControlInTuned,
   ControlInLaterSteps, ControlInWatching, ControlInService, ControlInQuiet, ControlInRestart DEF Step

-----------------------------------------------------------------------------
(* The tables in each step.                                                 *)
LEMMA DataHas ==
  ASSUME DataInv
  PROVE  /\ Kept(reserves, odd) /\ recordings \in [Groups -> Entry({"now", "passed"})]
         /\ "moved" \notin odd => "stale" \notin odd
         /\ results \in 0..ResultMax /\ results \in Nat /\ accepted \in Nat /\ gone \in Nat
         /\ UsedIn(reserves) \in Nat /\ UsedIn(recordings) \in Nat
<1>1. Kept(reserves, odd)
  BY DEF DataInv, TableInv
<1>2. recordings \in [Groups -> Entry({"now", "passed"})] /\ reserves \in [Slots -> Entry({"req", "passed"})]
  BY DEF DataInv, DataType
<1>3. IsFiniteSet(DOMAIN reserves) /\ IsFiniteSet(DOMAIN recordings)
  BY <1>2, SlotsAre, RecordingAssumption
<1>4. UsedIn(reserves) \in Nat /\ UsedIn(recordings) \in Nat
  BY <1>3, UsedInType
<1>5. results \in 0..ResultMax /\ accepted \in Nat /\ gone \in Nat /\ ("moved" \notin odd => "stale" \notin odd)
  BY DEF DataInv, DataType, TableInv
<1>6. QED BY <1>1, <1>2, <1>4, <1>5, SlotsAre

(* What the files hold, while the process runs or if no crash has cut a     *)
(* step off.                                                                *)
LEMMA FilesHave ==
  ASSUME DataInv
  PROVE  /\ disk \in Seq(Image) /\ \A k \in DOMAIN disk : Kept(disk[k].reserves, odd)
         /\ up \/ "cut" \notin odd => Stored(disk, reserves, results, odd)
         /\ "cut" \notin odd => Clean(reserves) /\ Clean(Last(disk).reserves)
<1>1. disk \in Seq(Image) /\ \A k \in DOMAIN disk : Kept(disk[k].reserves, odd)
  BY DEF DataInv, DataType, TableInv
<1>2. up \/ "cut" \notin odd => disk # <<>> /\ Last(disk).results = results /\ Agrees(Last(disk), reserves)
  BY DEF DataInv, TableInv, SavedIsCurrent, Agrees
<1>3. "cut" \notin odd => Clean(reserves) /\ Clean(Last(disk).reserves)
  BY DEF DataInv, TableInv
<1>4. QED BY <1>1, <1>2, <1>3 DEF Stored

LEMMA Ordinary ==
  ASSUME NEW o
  PROVE  o \cap {"stale", "cut"} = {} <=> "stale" \notin o /\ "cut" \notin o
OBVIOUS

LEMMA AccountHas ==
  ASSUME DataInv, "stale" \notin odd, "cut" \notin odd
  PROVE  /\ accepted = UsedIn(reserves) + UsedIn(recordings) + results + gone
         /\ InFront(reserves) /\ Clean(reserves)
<1>1. odd \cap {"stale", "cut"} = {}
  BY Ordinary
<1>2. accepted = UsedIn(reserves) + UsedIn(recordings) + results + gone
  BY <1>1 DEF DataInv, Accounted
<1>3. QED BY <1>2, DataHas, FilesHave DEF Kept

(* The order of things is as odd as before, and the process runs as it did. *)
AsOdd == /\ "stale" \in odd' <=> "stale" \in odd
         /\ "moved" \in odd' <=> "moved" \in odd
         /\ "cut" \in odd' <=> "cut" \in odd
         /\ up' = up

LEMMA KeptGrows ==
  ASSUME NEW t, NEW o, Kept(t, o), NEW p,
         "stale" \in o => "stale" \in p, "moved" \in o => "moved" \in p
  PROVE  Kept(t, p)
BY DEF Kept

LEMMA DataStays ==
  ASSUME DataInv, UNCHANGED <<tables, accepted, gone>>, AsOdd
  PROVE  DataInv'
<1>1. /\ reserves' = reserves /\ results' = results /\ recordings' = recordings
      /\ disk' = disk /\ accepted' = accepted /\ gone' = gone
  BY DEF tables
<1>2. DataType'
  BY <1>1 DEF DataInv, DataType
<1>3. TableInv'
  <2>1. Kept(reserves, odd') /\ \A k \in DOMAIN disk : Kept(disk[k].reserves, odd')
    BY KeptGrows DEF DataInv, TableInv, AsOdd
  <2>2. "moved" \notin odd' => "stale" \notin odd'
    BY DEF DataInv, TableInv, AsOdd
  <2>3. "cut" \notin odd' => Clean(reserves) /\ Clean(Last(disk).reserves)
    BY DEF DataInv, TableInv, AsOdd
  <2>4. ~up' => Len(disk) <= 1
    BY DEF DataInv, TableInv, AsOdd
  <2>5. SavedIsCurrent'
    BY <1>1 DEF DataInv, TableInv, SavedIsCurrent, AsOdd
  <2>6. QED BY <1>1, <2>1, <2>2, <2>3, <2>4, <2>5 DEF TableInv
<1>4. Accounted'
  BY <1>1, Ordinary DEF DataInv, Accounted, AsOdd
<1>5. QED BY <1>2, <1>3, <1>4 DEF DataInv

(* A step that leaves the table t and the saves d, and the numbers that go  *)
(* with them.                                                               *)
LEMMA DataWritten ==
  ASSUME DataInv, up, AsOdd, NEW t, NEW d, reserves' = t, disk' = d,
         Kept(t, odd), Stored(d, t, results', odd),
         "cut" \notin odd => Clean(t) /\ Clean(Last(d).reserves),
         recordings' \in [Groups -> Entry({"now", "passed"})], results' \in 0..ResultMax, gone' \in Nat, accepted' \in Nat,
         "stale" \notin odd /\ "cut" \notin odd => accepted' = UsedIn(t) + UsedIn(recordings') + results' + gone'
  PROVE  DataInv'
<1>1. /\ d \in Seq(Image) /\ d # <<>> /\ \A k \in DOMAIN d : Kept(d[k].reserves, odd)
      /\ Last(d).results = results'
      /\ \A i \in Slots : Last(d).reserves[i].used = t[i].used /\ Last(d).reserves[i].key = t[i].key
  BY DEF Stored, Agrees
<1>2. DataType'
  BY <1>1 DEF DataType, Kept
<1>3. Kept(t, odd') /\ \A k \in DOMAIN d : Kept(d[k].reserves, odd')
  BY <1>1, KeptGrows DEF AsOdd
<1>4. SavedIsCurrent'
  BY <1>1 DEF SavedIsCurrent
<1>5. TableInv'
  <2>1. "moved" \notin odd' => "stale" \notin odd'
    BY DataHas DEF AsOdd
  <2>2. "cut" \notin odd' => Clean(t) /\ Clean(Last(d).reserves)
    BY DEF AsOdd
  <2>3. up'
    BY DEF AsOdd
  <2>4. QED BY <1>3, <1>4, <2>1, <2>2, <2>3 DEF TableInv
<1>6. Accounted'
  <2>1. odd' \cap {"stale", "cut"} = {} => "stale" \notin odd /\ "cut" \notin odd
    BY DEF AsOdd
  <2>2. QED BY <2>1 DEF Accounted
<1>7. QED BY <1>2, <1>5, <1>6 DEF DataInv

(* A recording that ends.                                                   *)
LEMMA DataEnds ==
  ASSUME DataInv, up, NEW g \in Groups, Ends(g), UNCHANGED <<reserves, accepted>>, AsOdd
  PROVE  DataInv'
<1>1. /\ recordings \in [Groups -> Entry({"now", "passed"})] /\ results \in Nat /\ accepted \in Nat /\ gone \in Nat
      /\ UsedIn(reserves) \in Nat /\ results \in 0..ResultMax /\ Kept(reserves, odd)
  BY DataHas
<1>2. Blank \in Entry({"now", "passed"}) /\ ~Blank.used
  BY BlankIs
<1>3. recordings' = [recordings EXCEPT ![g] = Blank] /\ disk' = SavesResults(results', disk)
  BY DEF Ends
<1>4. /\ recordings' \in [Groups -> Entry({"now", "passed"})]
      /\ UsedIn(recordings) \in Nat /\ UsedIn(recordings') \in Nat
      /\ UsedIn(recordings') + Fill(recordings[g]) = UsedIn(recordings) + Fill(Blank)
  <2> DEFINE us == recordings'
  <2>1. us = Put(recordings, g, Blank)
    BY <1>3 DEF Put
  <2> HIDE DEF us
  <2>2. us \in [Groups -> Entry({"now", "passed"})]
    BY <1>1, <1>2, <2>1, PlaceCounts
  <2>3. UsedIn(recordings) \in Nat /\ UsedIn(us) \in Nat
    BY <1>1, <1>2, <2>1, PlaceCounts
  <2>4. UsedIn(us) + Fill(recordings[g]) = UsedIn(recordings) + Fill(Blank)
    BY <1>1, <1>2, <2>1, PlaceCounts
  <2>5. QED BY <2>2, <2>3, <2>4 DEF us
<1>5. recordings[g].used \in BOOLEAN
  BY <1>1, EntryHas
<1>6. /\ results' \in 0..ResultMax /\ Dropped(results) \in Nat
      /\ results' + Dropped(results) = results + Fill(recordings[g])
  BY <1>1, <1>5, ResultsAre DEF Ends
<1>7. gone' = gone + Dropped(results)
  BY DEF Ends
<1>8. Fill(recordings[g]) \in Nat /\ Fill(Blank) = 0 /\ results' \in Nat
  BY <1>2, <1>6, SlotsAre DEF Fill, One
<1>9. UsedIn(recordings') + results' + gone' = UsedIn(recordings) + results + gone
  BY <1>1, <1>4, <1>6, <1>7, <1>8
<1>10. /\ Stored(disk', reserves, results', odd)
       /\ Last(disk').reserves = Last(disk).reserves
  BY <1>3, <1>6, FilesHave, StoredResults
<1>11. "cut" \notin odd => Clean(reserves) /\ Clean(Last(disk').reserves)
  BY <1>10, FilesHave
<1>12. gone' \in Nat /\ accepted' = accepted /\ reserves' = reserves
  BY <1>1, <1>6, <1>7
<1>13. ASSUME "stale" \notin odd, "cut" \notin odd
       PROVE  accepted' = UsedIn(reserves) + UsedIn(recordings') + results' + gone'
  <2>1. UsedIn(reserves) + UsedIn(recordings') + results' + gone' = UsedIn(reserves) + UsedIn(recordings) + results + gone
    BY <1>1, <1>4, <1>8, <1>9, <1>12
  <2>2. QED BY <2>1, <1>12, <1>13, AccountHas
<1>14. QED BY <1>1, <1>4, <1>6, <1>10, <1>11, <1>12, <1>13, DataWritten

(* Recordings that change and stay.                                         *)
LEMMA DataReflagged ==
  ASSUME DataInv, up, UNCHANGED <<reserves, disk, results, accepted, gone>>, AsOdd,
         recordings' \in [Groups -> Entry({"now", "passed"})],
         \A g \in Groups : recordings'[g].used = recordings[g].used
  PROVE  DataInv'
<1>1. recordings \in [Groups -> Entry({"now", "passed"})] /\ Kept(reserves, odd)
  BY DataHas
<1>2. UsedIn(recordings') = UsedIn(recordings)
  BY <1>1, SameUsed
<1>3. results' \in 0..ResultMax /\ gone' \in Nat /\ accepted' \in Nat
  BY DataHas
<1>4. /\ Stored(disk, reserves, results', odd)
      /\ "cut" \notin odd => Clean(reserves) /\ Clean(Last(disk).reserves)
  BY FilesHave
<1>5. ASSUME "stale" \notin odd, "cut" \notin odd
      PROVE  accepted' = UsedIn(reserves) + UsedIn(recordings') + results' + gone'
  BY <1>2, <1>5, AccountHas
<1>6. QED BY <1>1, <1>3, <1>4, <1>5, DataWritten

LEMMA EntryKeeps ==
  ASSUME NEW r \in Entry({"now", "passed"})
  PROVE  /\ [r EXCEPT !.flags = r.flags \cup {"now"}] \in Entry({"now", "passed"})
         /\ \A n \in Nat : [r EXCEPT !.end = n] \in Entry({"now", "passed"})
         /\ [r EXCEPT !.key = [r.key EXCEPT !.event = 1]] \in Entry({"now", "passed"})
BY DEF Entry

LEMMA DataGoes ==
  ASSUME DataInv, up, NEW g \in Groups, Go(g), UNCHANGED <<reserves, accepted>>, AsOdd
  PROVE  DataInv'
<1>1. CASE StartFails(g)
  <2>1. Ends(g)
    BY <1>1 DEF StartFails
  <2>2. QED BY <2>1, DataEnds
<1>2. CASE UNCHANGED <<results, disk, gone>> /\ recordings' = [recordings EXCEPT ![g].flags = @ \cup {"now"}]
  <2>1. recordings \in [Groups -> Entry({"now", "passed"})]
    BY DataHas
  <2> DEFINE r == [recordings[g] EXCEPT !.flags = recordings[g].flags \cup {"now"}]
  <2>2. r \in Entry({"now", "passed"}) /\ r.used = recordings[g].used
    BY <2>1, EntryKeeps DEF Entry
  <2>3. recordings' = [recordings EXCEPT ![g] = r]
    BY <1>2
  <2> HIDE DEF r
  <2>4. /\ recordings' \in [Groups -> Entry({"now", "passed"})]
        /\ \A x \in Groups : recordings'[x].used = recordings[x].used
    BY <2>1, <2>2, <2>3
  <2>5. QED BY <1>2, <2>4, DataReflagged
<1>3. QED BY <1>1, <1>2 DEF Go

LEMMA DataInCheckLoop ==
  ASSUME DataInv, CheckLoop
  PROVE  DataInv'
<1> DEFINE s == Checked
           c == Refreshed(s)
           u == c.t
           d == c.disk
<1>1. /\ Kept(reserves, odd) /\ results \in 0..ResultMax /\ results \in Nat
      /\ gone \in Nat /\ accepted \in Nat /\ UsedIn(reserves) \in Nat /\ UsedIn(recordings) \in Nat
      /\ recordings \in [Groups -> Entry({"now", "passed"})]
  BY DataHas
<1>2. up /\ up' = up
  BY DEF CheckLoop, Scheduling
<1>3. /\ Stored(disk, reserves, results, odd)
      /\ "cut" \notin odd => Clean(Last(disk).reserves)
  BY <1>2, FilesHave
<1>4. /\ Kept(u, odd) /\ Stored(d, u, s.q, odd)
      /\ Clean(u) /\ (Clean(Last(disk).reserves) => Clean(Last(d).reserves))
      /\ s.q \in 0..ResultMax /\ s.gone \in Nat
      /\ UsedIn(s.t) = UsedIn(reserves)
      /\ Clean(reserves) /\ InFront(reserves) =>
           UsedIn(u) + s.q + s.gone = UsedIn(reserves) + results + gone
  BY <1>1, <1>3, CheckedKeeps
<1>5. /\ reserves' = u /\ disk' = d
      /\ results' = s.q /\ gone' = s.gone /\ accepted' = accepted + UsedIn(s.t) - UsedIn(reserves)
      /\ recordings' = recordings
  BY DEF CheckLoop, Adds
<1>6. AsOdd
  <2>1. odd' = odd \cup UNION {Hits(g) : g \in {x \in Groups : AtEnd(x)}}
    BY DEF CheckLoop, Marks
  <2>2. \A g : Hits(g) \subseteq {"early", "raced"}
    BY DEF Hits
  <2>3. UNION {Hits(g) : g \in {x \in Groups : AtEnd(x)}} \subseteq {"early", "raced"}
    BY <2>2
  <2>4. QED BY <1>2, <2>1, <2>3 DEF AsOdd
<1> HIDE DEF s, c, u, d
<1>7. accepted' = accepted
  BY <1>1, <1>4, <1>5
<1>8. ASSUME "stale" \notin odd, "cut" \notin odd
      PROVE  accepted' = UsedIn(u) + UsedIn(recordings') + results' + gone'
  <2>1. InFront(reserves) /\ Clean(reserves) /\ accepted = UsedIn(reserves) + UsedIn(recordings) + results + gone
    BY <1>8, AccountHas
  <2>2. u \in [Slots -> Entry({"req", "passed"})]
    BY <1>4 DEF Kept
  <2>3. IsFiniteSet(DOMAIN u)
    BY <2>2, SlotsAre
  <2>4. UsedIn(u) \in Nat /\ s.q \in Nat
    BY <1>4, <2>3, UsedInType, SlotsAre
  <2>5. UsedIn(u) + s.q + s.gone = UsedIn(reserves) + results + gone
    BY <1>4, <2>1
  <2>6. accepted = UsedIn(u) + UsedIn(recordings) + s.q + s.gone
    BY <1>1, <1>4, <2>1, <2>4, <2>5
  <2>7. QED BY <1>5, <1>7, <2>6
<1>9. "cut" \notin odd => Clean(u) /\ Clean(Last(d).reserves)
  BY <1>3, <1>4
<1>10. /\ recordings' \in [Groups -> Entry({"now", "passed"})] /\ results' \in 0..ResultMax /\ gone' \in Nat
       /\ accepted' \in Nat /\ Stored(d, u, results', odd)
  BY <1>1, <1>4, <1>5, <1>7
<1>11. QED BY <1>2, <1>4, <1>5, <1>6, <1>8, <1>9, <1>10, DataWritten

LEMMA DataInOpenAnswered ==
  ASSUME DataInv, WorldType, OpenAnswered
  PROVE  DataInv'
<1>0. up /\ up' = up
  BY DEF OpenAnswered, Event, Scheduling
<1>1. CASE UNCHANGED <<reserves, disk, recordings, accepted>> /\ Marks(IF EventOf = NoGroup THEN {} ELSE {"leak"})
  <2>1. AsOdd
    BY <1>0, <1>1 DEF Marks, AsOdd
  <2>2. UNCHANGED <<tables, accepted, gone>>
    BY <1>1 DEF OpenAnswered, tables
  <2>3. QED BY <2>1, <2>2, DataStays
<1>2. ASSUME NEW g, g = EventOf, g # NoGroup, ~recordings[g].used, Requested(reserves) # {}, Pick(g)
      PROVE  DataInv'
  <2>1. /\ Kept(reserves, odd) /\ recordings \in [Groups -> Entry({"now", "passed"})]
        /\ results \in 0..ResultMax /\ results \in Nat /\ accepted \in Nat /\ gone \in Nat
        /\ UsedIn(reserves) \in Nat /\ UsedIn(recordings) \in Nat
    BY DataHas
  <2>2. g \in Groups
    BY <1>2, EventIs DEF OpenAnswered
  <2>3. UNCHANGED <<results, gone, odd>>
    BY <1>2 DEF OpenAnswered, Pick
  <2> DEFINE i == Least(Requested(reserves))
             r == [reserves[i] EXCEPT !.flags = @ \ {"req"}]
             rs == Put(recordings, g, r)
             t == CloseUp(reserves, i)
  <2>4. i \in Slots /\ reserves[i].used
    <3>1. Requested(reserves) \in SUBSET Slots
      BY DEF Requested
    <3>2. i \in Requested(reserves)
      BY <1>2, <3>1, LeastIs
    <3>3. QED BY <3>2 DEF Requested
  <2>5. r \in Entry({"now", "passed"}) /\ r.used
    <3>1. reserves[i] \in Entry({"req", "passed"})
      BY <2>1, <2>4 DEF Kept
    <3>2. QED BY <2>4, <3>1 DEF Entry
  <2>6. recordings' = rs /\ Write(Repeated(t, rs, r)) /\ Adds(Repeated(t, rs, r), UsedIn(t))
    BY <1>2 DEF Pick, Put
  <2> HIDE DEF i
  <2>7. /\ Kept(t, odd)
        /\ "stale" \notin odd => /\ UsedIn(t) \in Nat /\ UsedIn(t) + Fill(reserves[i]) = UsedIn(reserves)
    BY <2>1, <2>4, KeptClose
  <2>c. Clean(reserves) => Clean(t)
    BY <2>4, CloseUpIs DEF Clean
  <2> HIDE DEF r, t
  <2>8. /\ rs \in [Groups -> Entry({"now", "passed"})] /\ UsedIn(rs) \in Nat
        /\ UsedIn(rs) + Fill(recordings[g]) = UsedIn(recordings) + Fill(r)
    BY <2>1, <2>2, <2>5, PlaceCounts
  <2>9. Recorded(rs, r.key)
    BY <2>1, <2>2, <2>5 DEF Recorded, Put
  <2> HIDE DEF rs
  <2>10. Repeated(t, rs, r) = t
    BY <2>5, <2>9, RepeatedIs
  <2>11. UsedIn(t) \in Nat
    <3>1. t \in [Slots -> Entry({"req", "passed"})]
      BY <2>7 DEF Kept
    <3>2. IsFiniteSet(DOMAIN t)
      BY <3>1, SlotsAre
    <3>3. QED BY <3>2, UsedInType
  <2>12. reserves' = t /\ disk' = SavesReserves(t, disk) /\ accepted' = accepted
    BY <2>1, <2>6, <2>10, <2>11 DEF Adds, Write
  <2>13. AsOdd
    BY <1>0, <2>3 DEF AsOdd
  <2>14. ASSUME "stale" \notin odd, "cut" \notin odd
         PROVE  accepted' = UsedIn(t) + UsedIn(recordings') + results' + gone'
    <3>1. accepted = UsedIn(reserves) + UsedIn(recordings) + results + gone
      BY <2>14, AccountHas
    <3>2. Fill(reserves[i]) = 1 /\ Fill(recordings[g]) = 0 /\ Fill(r) = 1
      BY <1>2, <2>4, <2>5 DEF Fill
    <3>3. UsedIn(t) + 1 = UsedIn(reserves)
      BY <2>7, <2>14, <3>2
    <3>4. UsedIn(rs) = UsedIn(recordings) + 1
      BY <2>1, <2>8, <3>2
    <3>5. recordings' = rs /\ results' = results /\ gone' = gone
      BY <2>3, <2>6
    <3>6. QED BY <2>1, <2>8, <2>11, <2>12, <3>1, <3>3, <3>4, <3>5
  <2>15. Stored(SavesReserves(t, disk), t, results, odd) /\ Last(SavesReserves(t, disk)).reserves = t
    BY <1>0, <2>7, FilesHave, StoredReserves
  <2>16. "cut" \notin odd => Clean(t) /\ Clean(Last(SavesReserves(t, disk)).reserves)
    BY <2>c, <2>15, FilesHave
  <2>17. Stored(SavesReserves(t, disk), t, results', odd)
    BY <2>3, <2>15
  <2>18. recordings' \in [Groups -> Entry({"now", "passed"})] /\ results' \in 0..ResultMax /\ gone' \in Nat /\ accepted' \in Nat
    BY <2>1, <2>3, <2>6, <2>8, <2>12
  <2>19. QED BY <1>0, <2>7, <2>12, <2>13, <2>14, <2>16, <2>17, <2>18, DataWritten
<1>3. CASE EventOf # NoGroup /\ ~recordings[EventOf].used /\ Requested(reserves) # {}
  <2>1. Pick(EventOf)
    BY <1>3 DEF OpenAnswered
  <2>2. QED BY <1>2, <1>3, <2>1
<1>4. CASE ~(EventOf # NoGroup /\ ~recordings[EventOf].used /\ Requested(reserves) # {})
  BY <1>1, <1>4 DEF OpenAnswered
<1>5. QED BY <1>3, <1>4

(* A reserve that is added, and saved.                                      *)
LEMMA AddedIs ==
  ASSUME DataInv, up, NEW r \in Entry({"req"}), r.used, Accepted(reserves, recordings, r)
  PROVE  LET t == AddTo(reserves, recordings, r)
             d == SavesReserves(t, disk)
         IN  /\ Kept(t, odd) /\ Stored(d, t, results, odd)
             /\ "cut" \notin odd => Clean(t) /\ Clean(Last(d).reserves)
             /\ "stale" \notin odd => UsedIn(t) = UsedIn(reserves) + 1
<1> DEFINE t == AddTo(reserves, recordings, r)
           d == SavesReserves(t, disk)
<1>1. r \in Entry({"req", "passed"})
  BY DEF Entry
<1>2. Kept(t, odd) /\ ("stale" \notin odd => UsedIn(t) = UsedIn(reserves) + 1)
  BY <1>1, DataHas, KeptAdd
<1>3. Clean(reserves) => Clean(t)
  BY AddToKeeps DEF Clean
<1> HIDE DEF t
<1>4. Stored(d, t, results, odd) /\ Last(d).reserves = t
  BY <1>2, FilesHave, StoredReserves
<1>5. QED BY <1>2, <1>3, <1>4, FilesHave DEF t

LEMMA DataInReAdd ==
  ASSUME DataInv, Starting \in Groups, NEW time \in EpgTimes, ReAdd(time)
  PROVE  DataInv'
<1>1. /\ Kept(reserves, odd) /\ recordings \in [Groups -> Entry({"now", "passed"})]
      /\ "moved" \notin odd => "stale" \notin odd
      /\ results \in 0..ResultMax /\ results \in Nat /\ accepted \in Nat /\ gone \in Nat
      /\ UsedIn(reserves) \in Nat /\ UsedIn(recordings) \in Nat
  BY DataHas
<1>2. AsOdd /\ up
  BY DEF ReAdd, AsOdd, Scheduling
<1> DEFINE r == [recordings[Starting] EXCEPT !.start = time[1], !.end = time[2], !.flags = {}]
<1>3. CASE StartFails(Starting) /\ UNCHANGED <<reserves, accepted>>
  <2>1. Ends(Starting)
    BY <1>3 DEF StartFails
  <2>2. QED BY <1>2, <1>3, <2>1, DataEnds
<1>4. CASE /\ r.used /\ Accepted(reserves, recordings, r)
           /\ Write(AddTo(reserves, recordings, r))
           /\ recordings' = [recordings EXCEPT ![Starting] = Blank]
           /\ accepted' = accepted + 1 /\ gone' = gone + 1 /\ UNCHANGED results
  <2>1. recordings[Starting] \in Entry({"now", "passed"})
    BY <1>1
  <2>2. time[1] \in Nat /\ time[2] \in Nat
    BY RecordingAssumption
  <2>3. r \in Entry({"req"}) /\ recordings[Starting].used = r.used
    BY <2>1, <2>2 DEF Entry
  <2> HIDE DEF r
  <2> DEFINE t == AddTo(reserves, recordings, r)
             d == SavesReserves(t, disk)
  <2>4. /\ Kept(t, odd) /\ Stored(d, t, results, odd)
        /\ "cut" \notin odd => Clean(t) /\ Clean(Last(d).reserves)
        /\ "stale" \notin odd => UsedIn(t) = UsedIn(reserves) + 1
    BY <1>2, <1>4, <2>3, AddedIs
  <2>5. Blank \in Entry({"now", "passed"}) /\ ~Blank.used
    BY BlankIs
  <2> DEFINE rs == Put(recordings, Starting, Blank)
  <2>6. recordings' = rs
    BY <1>4 DEF Put
  <2> HIDE DEF rs
  <2>7. /\ rs \in [Groups -> Entry({"now", "passed"})] /\ UsedIn(rs) \in Nat
        /\ UsedIn(rs) + Fill(recordings[Starting]) = UsedIn(recordings) + Fill(Blank)
    BY <1>1, <2>5, PlaceCounts DEF rs
  <2>8. reserves' = t /\ disk' = d /\ results' = results
    BY <1>4 DEF Write
  <2> HIDE DEF t, d
  <2>9. ASSUME "stale" \notin odd, "cut" \notin odd
        PROVE  accepted' = UsedIn(t) + UsedIn(recordings') + results' + gone'
    <3>1. accepted = UsedIn(reserves) + UsedIn(recordings) + results + gone
      BY <2>9, AccountHas
    <3>2. Fill(recordings[Starting]) = 1 /\ Fill(Blank) = 0
      BY <1>4, <2>3, <2>5 DEF Fill
    <3>3. UsedIn(t) = UsedIn(reserves) + 1 /\ UsedIn(rs) + 1 = UsedIn(recordings)
      BY <1>1, <2>4, <2>7, <2>9, <3>2
    <3>4. recordings' = rs /\ results' = results /\ accepted' = accepted + 1 /\ gone' = gone + 1
      BY <1>4, <2>6
    <3>5. accepted + 1 = (UsedIn(reserves) + 1) + UsedIn(rs) + results + (gone + 1)
      BY <1>1, <2>7, <3>1, <3>3
    <3>6. QED BY <3>3, <3>4, <3>5
  <2>10. recordings' \in [Groups -> Entry({"now", "passed"})] /\ results' \in 0..ResultMax /\ gone' \in Nat /\ accepted' \in Nat
    BY <1>1, <1>4, <2>6, <2>7
  <2>11. Stored(d, t, results', odd)
    BY <2>4, <2>8
  <2>12. QED BY <1>2, <2>4, <2>8, <2>9, <2>10, <2>11, DataWritten
<1>5. QED BY <1>3, <1>4 DEF ReAdd

(* A reserve that is removed: its repeat is not added, and what closes up   *)
(* is the table as it was.                                                  *)
LEMMA RemovedIs ==
  ASSUME NEW t, NEW o, Kept(t, o), NEW rs, NEW i \in Slots
  PROVE  LET m == Flagged(t, i, {"removed"})
         IN  /\ Repeated(m, rs, t[i]) = m
             /\ UsedIn(m) = UsedIn(t)
             /\ CloseUp(m, i) = CloseUp(t, i)
<1> DEFINE F == {"req", "passed", "removed"}
           m == Flagged(t, i, {"removed"})
<1>1. t \in [Slots -> Entry({"req", "passed"})] /\ Lasting(t)
  BY DEF Kept
<1>2. \A r : r \in Entry({"req", "passed"}) => r \in Entry(F)
  BY DEF Entry
<1>3. t \in [Slots -> Entry(F)] /\ t[i] \in Entry(F)
  BY <1>1, <1>2
<1>4. {"removed"} \in SUBSET F
  OBVIOUS
<1>5. /\ m \in [Slots -> Entry(F)] /\ Alike(m[i], t[i])
      /\ \A j \in Slots \ {i} : m[j] = t[j]
  BY <1>3, <1>4, FlagsAre
<1> HIDE DEF F, m
<1>6. t[i].period # 0 => Listed(m, t[i].key)
  BY <1>1, <1>5 DEF Lasting, Listed, Alike
<1>7. Repeated(m, rs, t[i]) = m
  BY <1>3, <1>6, RepeatedIs
<1>8. UsedIn(m) = UsedIn(t)
  <2>1. \A j \in Slots : m[j].used = t[j].used
    BY <1>5 DEF Alike
  <2>2. QED BY <1>1, <1>5, <2>1, SameUsed
<1>9. CloseUp(m, i) = CloseUp(t, i)
  <2>1. ASSUME NEW j \in Slots
        PROVE  (IF j < i THEN m[j] ELSE IF j < ReserveMax THEN m[j + 1] ELSE Blank)
                 = (IF j < i THEN t[j] ELSE IF j < ReserveMax THEN t[j + 1] ELSE Blank)
    <3>1. j < i => j \in Slots \ {i}
      BY SlotsAre
    <3>2. ~(j < i) /\ j < ReserveMax => j + 1 \in Slots \ {i}
      BY SlotsAre
    <3>3. QED BY <1>5, <3>1, <3>2
  <2>2. QED BY <2>1 DEF CloseUp
<1>10. QED BY <1>7, <1>8, <1>9 DEF m

LEMMA DataInUsers ==
  ASSUME DataInv, Users
  PROVE  DataInv'
<1>1. /\ Kept(reserves, odd) /\ recordings \in [Groups -> Entry({"now", "passed"})]
      /\ "moved" \notin odd => "stale" \notin odd
      /\ results \in 0..ResultMax /\ results \in Nat /\ accepted \in Nat /\ gone \in Nat
      /\ UsedIn(reserves) \in Nat /\ UsedIn(recordings) \in Nat
  BY DataHas
<1>2. ASSUME NEW p \in Programs, AddReserve(p) PROVE DataInv'
  <2>1. p \in Entry({"req"}) /\ p.used
    BY RecordingAssumption DEF Entry
  <2> DEFINE t == AddTo(reserves, recordings, p)
             d == SavesReserves(t, disk)
  <2>2. Accepted(reserves, recordings, p) /\ reserves' = t /\ disk' = d /\ accepted' = accepted + 1
    BY <1>2 DEF AddReserve, Write
  <2>3. UNCHANGED <<results, recordings, gone, odd>> /\ up /\ up' = up
    BY <1>2 DEF AddReserve, Scheduling
  <2>4. /\ Kept(t, odd) /\ Stored(d, t, results, odd)
        /\ "cut" \notin odd => Clean(t) /\ Clean(Last(d).reserves)
        /\ "stale" \notin odd => UsedIn(t) = UsedIn(reserves) + 1
    BY <2>1, <2>2, <2>3, AddedIs
  <2> HIDE DEF t, d
  <2>5. AsOdd
    BY <2>3 DEF AsOdd
  <2>6. ASSUME "stale" \notin odd, "cut" \notin odd
        PROVE  accepted' = UsedIn(t) + UsedIn(recordings') + results' + gone'
    <3>1. accepted = UsedIn(reserves) + UsedIn(recordings) + results + gone
      BY <2>6, AccountHas
    <3>2. UsedIn(t) = UsedIn(reserves) + 1
      BY <2>4, <2>6
    <3>3. recordings' = recordings /\ results' = results /\ gone' = gone
      BY <2>3
    <3>4. QED BY <1>1, <2>2, <3>1, <3>2, <3>3
  <2>7. Stored(d, t, results', odd)
    BY <2>3, <2>4
  <2>8. recordings' \in [Groups -> Entry({"now", "passed"})] /\ results' \in 0..ResultMax /\ gone' \in Nat /\ accepted' \in Nat
    BY <1>1, <2>2, <2>3
  <2>9. QED BY <2>2, <2>3, <2>4, <2>5, <2>6, <2>7, <2>8, DataWritten
<1>3. ASSUME NEW i \in Slots, NEW rep \in BOOLEAN, NEW res \in BOOLEAN, RemoveReserve(i, rep, res)
      PROVE  DataInv'
  <2> DEFINE r == reserves[i]
             m == Flagged(reserves, i, {"removed"})
             t == IF rep THEN Repeated(m, recordings, r) ELSE m
             u == CloseUp(reserves, i)
             first == IF res THEN SavesResults(SetResult(results, r), disk) ELSE disk
             d == SavesReserves(u, first)
  <2>1. r \in Entry({"req", "passed"})
    BY <1>1 DEF Kept
  <2>2. Repeated(m, recordings, r) = m /\ UsedIn(m) = UsedIn(reserves) /\ CloseUp(m, i) = u
    BY <1>1, RemovedIs
  <2>3. t = m
    BY <2>2
  <2>4. /\ reserves' = CloseUp(t, i) /\ disk' = SavesReserves(CloseUp(t, i), SavesRepeat(m, t, first))
        /\ Adds(t, UsedIn(reserves))
        /\ results' = IF res THEN SetResult(results, r) ELSE results
        /\ gone' = gone + (IF res THEN Dropped(results) ELSE IF r.used THEN 1 ELSE 0)
        /\ UNCHANGED <<recordings, odd>> /\ up /\ up' = up
    BY <1>3 DEF RemoveReserve, Scheduling
  <2> HIDE DEF t, m
  <2>5. reserves' = u /\ disk' = d /\ accepted' = accepted
    <3>1. SavesRepeat(m, t, first) = first
      BY <2>3 DEF SavesRepeat
    <3> HIDE DEF first, u
    <3>2. reserves' = u /\ disk' = d
      BY <2>2, <2>3, <2>4, <3>1
    <3>3. accepted' = accepted
      BY <1>1, <2>2, <2>3, <2>4 DEF Adds
    <3>4. QED BY <3>2, <3>3
  <2>6. r.used \in BOOLEAN
    BY <2>1, EntryHas
  <2>7. /\ Kept(u, odd)
        /\ "stale" \notin odd => /\ UsedIn(u) \in Nat /\ UsedIn(u) + Fill(reserves[i]) = UsedIn(reserves)
    BY <1>1, KeptClose
  <2>c. Clean(reserves) => Clean(u)
    BY CloseUpIs DEF Clean
  <2>8. /\ SetResult(results, r) \in 0..ResultMax /\ Dropped(results) \in Nat
        /\ SetResult(results, r) + Dropped(results) = results + Fill(r)
    BY <1>1, <2>6, ResultsAre
  <2>9. results' \in 0..ResultMax /\ results' \in Nat /\ gone' \in Nat /\ results' + gone' = results + gone + Fill(r)
    <3>1. CASE res
      <4>1. results' = SetResult(results, r) /\ gone' = gone + Dropped(results)
        BY <2>4, <3>1
      <4>2. Fill(r) \in Nat
        BY DEF Fill
      <4>3. SetResult(results, r) \in Nat
        BY <2>8, SlotsAre
      <4> HIDE DEF r
      <4>4. QED BY <1>1, <2>8, <4>1, <4>2, <4>3
    <3>2. CASE ~res
      BY <1>1, <2>4, <3>2 DEF Fill
    <3>3. QED BY <3>1, <3>2
  <2>10. Stored(first, reserves, results', odd)
    <3>1. Stored(disk, reserves, results, odd)
      BY <2>4, FilesHave
    <3>2. CASE res
      <4>1. first = SavesResults(results', disk)
        BY <2>4, <3>2
      <4>2. QED BY <2>9, <3>1, <4>1, StoredResults
    <3>3. CASE ~res
      BY <2>4, <3>1, <3>3
    <3>4. QED BY <3>2, <3>3
  <2> HIDE DEF u, first
  <2>11. Stored(d, u, results', odd) /\ Last(d).reserves = u
    BY <2>7, <2>10, StoredReserves
  <2> HIDE DEF d
  <2>12. "cut" \notin odd => Clean(u) /\ Clean(Last(d).reserves)
    BY <2>c, <2>11, FilesHave
  <2>13. AsOdd
    BY <2>4 DEF AsOdd
  <2>14. ASSUME "stale" \notin odd, "cut" \notin odd
         PROVE  accepted' = UsedIn(u) + UsedIn(recordings') + results' + gone'
    <3>1. accepted = UsedIn(reserves) + UsedIn(recordings) + results + gone
      BY <2>14, AccountHas
    <3>2. Fill(r) \in Nat
      BY DEF Fill
    <3>3. UsedIn(u) \in Nat /\ UsedIn(u) + Fill(r) = UsedIn(reserves)
      BY <2>7, <2>14
    <3> HIDE DEF r
    <3>4. recordings' = recordings
      BY <2>4
    <3>5. QED BY <1>1, <2>5, <2>9, <3>1, <3>2, <3>3, <3>4
  <2>15. recordings' \in [Groups -> Entry({"now", "passed"})] /\ accepted' \in Nat
    BY <1>1, <2>4, <2>5
  <2>16. QED BY <2>4, <2>5, <2>7, <2>9, <2>11, <2>12, <2>13, <2>14, <2>15, DataWritten
<1>4. ASSUME NEW g \in Groups, AskStop(g) PROVE DataInv'
  BY <1>4, DataStays DEF AskStop, history, AsOdd
<1>5. QED BY <1>2, <1>3, <1>4 DEF Users, AddEvent, AddCurrentEvent, AddManual

LEMMA DataInWatching ==
  ASSUME DataInv, FiberType, Watching
  PROVE  DataInv'
<1>1. /\ Kept(reserves, odd) /\ recordings \in [Groups -> Entry({"now", "passed"})]
      /\ reserves \in [Slots -> Entry({"req", "passed"})]
  BY DataHas DEF Kept
<1>2. CASE EpgBegins \/ \E g \in Groups : WatchAsks(g)
  BY <1>2, DataStays DEF EpgBegins, WatchAsks, history, AsOdd
<1>3. ASSUME NEW time \in EpgTimes, EpgAnswered(time) PROVE DataInv'
  <2> DEFINE i == fiber["epg"].n
             r == [reserves[i] EXCEPT !.start = time[1], !.end = time[2]]
             t == [reserves EXCEPT ![i] = r]
  <2>1. i \in Slots
    BY <1>3 DEF FiberType, EpgAnswered
  <2>2. reserves[i] \in Entry({"req", "passed"})
    BY <1>1, <2>1
  <2>3. time[1] \in Nat /\ time[1] # 0 /\ time[2] \in Nat
    BY RecordingAssumption
  <2>4. /\ r \in Entry({"req", "passed"}) /\ r.used = reserves[i].used /\ r.key = reserves[i].key
        /\ r.period = reserves[i].period /\ r.start = time[1]
        /\ reserves[i] \in Entry({"req"}) => r \in Entry({"req"})
    BY <2>2, <2>3 DEF Entry
  <2>5. reserves' = t
    <3>1. reserves' = [reserves EXCEPT ![i].start = time[1], ![i].end = time[2]]
      BY <1>3 DEF EpgAnswered
    <3>2. QED BY <1>1, <2>1, <3>1
  <2>6. /\ odd' = odd \cup ((IF time[1] = reserves[i].start THEN {} ELSE {"moved"})
                             \cup IF reserves[i].used THEN {} ELSE {"stale"})
        /\ UNCHANGED <<results, recordings, disk, accepted, gone, up>>
    BY <1>3 DEF EpgAnswered, Marks
  <2> HIDE DEF i, r
  <2>7. t \in [Slots -> Entry({"req", "passed"})] /\ t[i] = r /\ \A j \in Slots : j # i => t[j] = reserves[j]
    BY <1>1, <2>1, <2>4
  <2>c. Clean(reserves) => Clean(t)
    BY <2>1, <2>4 DEF Clean
  <2> HIDE DEF t
  <2>8. \A j \in Slots : /\ t[j].used = reserves[j].used /\ t[j].key = reserves[j].key
                         /\ t[j].period = reserves[j].period
    BY <2>4, <2>7
  <2>9. DataType'
    BY <2>5, <2>6, <2>7 DEF DataInv, DataType
  <2>10. Lasting(t) /\ NoneTwice(t)
    BY <1>1, <2>8 DEF Kept, Lasting, NoneTwice
  <2>11. ASSUME "stale" \notin odd'
         PROVE  InFront(t) /\ Empty(t)
    <3>1. "stale" \notin odd /\ reserves[i].used
      BY <2>6, <2>11
    <3>2. InFront(reserves) /\ Empty(reserves)
      BY <1>1, <3>1 DEF Kept
    <3>3. InFront(t)
      BY <2>8, <3>2 DEF InFront
    <3>4. Empty(t)
      BY <2>4, <2>7, <3>1, <3>2 DEF Empty
    <3>5. QED BY <3>3, <3>4
  <2>12. ASSUME "moved" \notin odd'
         PROVE  "stale" \notin odd' /\ InOrder(t)
    <3>1. "moved" \notin odd /\ time[1] = reserves[i].start
      BY <2>6, <2>12
    <3>2. "stale" \notin odd /\ InOrder(reserves)
      BY <1>1, <3>1, DataHas DEF Kept
    <3>3. Empty(reserves)
      BY <1>1, <3>2 DEF Kept
    <3>4. reserves[i].used
      BY <2>1, <2>3, <3>1, <3>3 DEF Empty
    <3>5. "stale" \notin odd'
      BY <2>6, <3>2, <3>4
    <3>6. \A j \in Slots : t[j].start = reserves[j].start
      BY <2>4, <2>7, <3>1
    <3>7. InOrder(t)
      BY <2>8, <3>2, <3>6 DEF InOrder
    <3>8. QED BY <3>5, <3>7
  <2>13. Kept(t, odd')
    BY <2>7, <2>10, <2>11, <2>12 DEF Kept
  <2>14. \A k \in DOMAIN disk : Kept(disk[k].reserves, odd')
    <3>1. odd \subseteq odd'
      BY <2>6
    <3>2. \A k \in DOMAIN disk : Kept(disk[k].reserves, odd)
      BY FilesHave
    <3>3. QED BY <3>1, <3>2, KeptGrows
  <2>15. "cut" \in odd' <=> "cut" \in odd
    BY <2>6
  <2>16. TableInv'
    <3>1. disk' = disk /\ results' = results /\ up' = up
      BY <2>6
    <3>2. SavedIsCurrent'
      BY <2>5, <2>8, <2>15, <3>1 DEF DataInv, TableInv, SavedIsCurrent
    <3>3. "cut" \notin odd' => Clean(t) /\ Clean(Last(disk).reserves)
      BY <2>c, <2>15, FilesHave
    <3>4. ~up => Len(disk) <= 1
      BY DEF DataInv, TableInv
    <3>5. QED BY <2>5, <2>12, <2>13, <2>14, <3>1, <3>2, <3>3, <3>4 DEF TableInv
  <2>17. Accounted'
    <3>1. UsedIn(t) = UsedIn(reserves)
      BY <1>1, <2>7, <2>8, SameUsed
    <3>2. odd' \cap {"stale", "cut"} = {} => odd \cap {"stale", "cut"} = {}
      BY <2>6
    <3>3. QED BY <2>5, <2>6, <3>1, <3>2 DEF DataInv, Accounted
  <2>18. QED BY <2>9, <2>16, <2>17 DEF DataInv
<1>4. ASSUME NEW time \in EpgTimes, WatchAnswered(time) PROVE DataInv'
  <2> DEFINE g == fiber["watch"].g
  <2>1. g \in Groups
    BY <1>4 DEF FiberType, WatchAnswered
  <2>2. recordings[g] \in Entry({"now", "passed"})
    BY <1>1, <2>1
  <2> DEFINE a == [recordings[g] EXCEPT !.end = time[2]]
             b == [recordings[g] EXCEPT !.key = [recordings[g].key EXCEPT !.event = 1]]
  <2>3. time[2] \in Nat
    BY RecordingAssumption
  <2>4. a \in Entry({"now", "passed"}) /\ b \in Entry({"now", "passed"}) /\ a.used = recordings[g].used /\ b.used = recordings[g].used
    BY <2>2, <2>3, EntryKeeps DEF Entry
  <2>5. /\ \/ recordings' = recordings
           \/ recordings' = [recordings EXCEPT ![g] = a]
           \/ recordings' = [recordings EXCEPT ![g] = b]
        /\ UNCHANGED <<reserves, disk, results, accepted, gone>> /\ AsOdd /\ up
    <3>1. recordings' = IF "now" \notin recordings[g].flags THEN recordings
                        ELSE IF recordings[g].event THEN [recordings EXCEPT ![g].end = time[2]]
                        ELSE [recordings EXCEPT ![g].key.event = 1]
      BY <1>4 DEF WatchAnswered
    <3>2. UNCHANGED <<reserves, disk, results, accepted, gone>> /\ AsOdd /\ up
      BY <1>4 DEF WatchAnswered, history, AsOdd, Scheduling
    <3>3. QED BY <3>1, <3>2
  <2> HIDE DEF a, b, g
  <2>6. /\ recordings' \in [Groups -> Entry({"now", "passed"})]
        /\ \A x \in Groups : recordings'[x].used = recordings[x].used
    BY <1>1, <2>1, <2>4, <2>5
  <2>7. QED BY <2>5, <2>6, DataReflagged
<1>5. QED BY <1>2, <1>3, <1>4 DEF Watching

LEMMA DataInRestart ==
  ASSUME DataInv, Restart
  PROVE  DataInv'
<1>1. /\ ~up /\ up' /\ disk # <<>>
      /\ reserves' = Head(disk).reserves /\ results' = Head(disk).results
      /\ recordings' = [g \in Groups |-> Blank]
      /\ gone' = gone + UsedIn(recordings) /\ UNCHANGED <<disk, accepted, odd>>
  BY DEF Restart, Volatile
<1>2. /\ accepted \in Nat /\ gone \in Nat
      /\ UsedIn(reserves) \in Nat /\ UsedIn(recordings) \in Nat /\ results \in Nat
      /\ reserves \in [Slots -> Entry({"req", "passed"})]
  BY DataHas DEF DataInv, DataType
<1>3. recordings' \in [Groups -> Entry({"now", "passed"})] /\ UsedIn(recordings') = 0
  <2>1. Blank \in Entry({"now", "passed"}) /\ ~Blank.used
    BY BlankIs
  <2>2. {g \in DOMAIN recordings' : recordings'[g].used} = {}
    BY <1>1, <2>1
  <2>3. QED BY <1>1, <2>1, <2>2, FS_EmptySet DEF UsedIn
<1> DEFINE a == Head(disk)
<1>4. a = Last(disk) /\ a \in Image /\ Kept(a.reserves, odd)
  <2>1. disk \in Seq(Image) /\ \A k \in DOMAIN disk : Kept(disk[k].reserves, odd)
    BY FilesHave
  <2>2. Len(disk) <= 1
    BY <1>1 DEF DataInv, TableInv
  <2>3. /\ Len(disk) \in Nat /\ Len(disk) # 0 /\ 1 \in DOMAIN disk
        /\ Last(disk) = disk[Len(disk)] /\ a = disk[1] /\ a \in Image
    BY <1>1, <2>1, LastIs
  <2>4. Len(disk) = 1
    BY <2>2, <2>3
  <2>5. QED BY <2>1, <2>3, <2>4
<1> HIDE DEF a
<1>5. reserves' = a.reserves /\ results' = a.results
  BY <1>1 DEF a
<1>6. a.reserves \in [Slots -> Entry({"req", "passed"})] /\ a.results \in 0..ResultMax
  BY <1>4 DEF Image
<1>7. DataType'
  BY <1>1, <1>2, <1>3, <1>5, <1>6 DEF DataType, DataInv
<1>8. TableInv'
  <2>1. \A k \in DOMAIN disk : Kept(disk[k].reserves, odd)
    BY FilesHave
  <2>2. "moved" \notin odd => "stale" \notin odd
    BY DataHas
  <2>3. "cut" \notin odd => Clean(a.reserves)
    BY <1>4, FilesHave
  <2>4. SavedIsCurrent'
    BY <1>1, <1>4, <1>5 DEF SavedIsCurrent
  <2>5. QED BY <1>1, <1>4, <1>5, <2>1, <2>2, <2>3, <2>4 DEF TableInv
<1>9. Accounted'
  <2>1. SUFFICES ASSUME "stale" \notin odd, "cut" \notin odd
                 PROVE  accepted = UsedIn(a.reserves) + 0 + a.results + (gone + UsedIn(recordings))
    BY <1>1, <1>3, <1>5, Ordinary DEF Accounted
  <2>2. accepted = UsedIn(reserves) + UsedIn(recordings) + results + gone
    BY <2>1, AccountHas
  <2>3. a.results = results /\ \A i \in Slots : a.reserves[i].used = reserves[i].used
    BY <2>1, <1>4, FilesHave DEF Stored, Agrees
  <2>4. UsedIn(a.reserves) = UsedIn(reserves)
    BY <1>2, <1>6, <2>3, SameUsed
  <2>5. QED BY <1>2, <2>2, <2>3, <2>4
<1>10. QED BY <1>7, <1>8, <1>9 DEF DataInv

LEMMA DataInStart ==
  ASSUME DataInv, FiberType, WorldType, Control,
         OnStart \/ ChannelAnswered \/ Tuned \/ NotTuned \/ EventAnswered \/ PauseOver \/ ForceAnswered
  PROVE  DataInv'
<1>0. up /\ UNCHANGED <<reserves, accepted, up>>
  BY DEF OnStart, ChannelAnswered, Tuned, NotTuned, EventAnswered, PauseOver, ForceAnswered,
         StartRest, Event, Scheduling
<1>1. ASSUME UNCHANGED <<results, disk, recordings, gone, odd>> PROVE DataInv'
  BY <1>0, <1>1, DataStays DEF AsOdd, tables
<1>2. ASSUME NEW g \in Groups, StartFails(g), UNCHANGED odd PROVE DataInv'
  BY <1>0, <1>2, DataEnds DEF StartFails, AsOdd
<1>3. ASSUME NEW g \in Groups, Go(g), UNCHANGED odd PROVE DataInv'
  BY <1>0, <1>3, DataGoes DEF AsOdd
<1>4. CASE OnStart
  <2>1. EventOf \in Groups
    BY <1>4, EventIs DEF OnStart
  <2>2. UNCHANGED odd
    BY <1>4 DEF OnStart
  <2>3. CASE StartFails(EventOf)
    BY <1>2, <2>1, <2>2, <2>3
  <2>4. CASE UNCHANGED <<results, disk, recordings, gone>>
    BY <1>1, <2>2, <2>4
  <2>5. QED BY <1>4, <2>3, <2>4 DEF OnStart
<1>5. CASE ChannelAnswered
  BY <1>1, <1>5 DEF ChannelAnswered
<1>6. CASE Tuned \/ NotTuned
  <2>1. UNCHANGED odd /\ Then(<<>>) /\ (Event("tuned") \/ Event("not_tuned"))
    BY <1>6 DEF Tuned, NotTuned
  <2>2. Starting \in Groups
    BY <2>1, TuneAnswered
  <2>3. CASE StartFails(Starting)
    BY <1>2, <2>1, <2>2, <2>3
  <2>4. CASE Go(Starting)
    BY <1>3, <2>1, <2>2, <2>4
  <2>5. CASE StartGoes("event")
    BY <1>1, <2>1, <2>5 DEF StartGoes
  <2>6. QED BY <1>6, <2>3, <2>4, <2>5 DEF Tuned, NotTuned
<1>7. CASE EventAnswered \/ PauseOver \/ ForceAnswered
  <2>1. Starting \in Groups
    BY <1>7, FibersAre DEF EventAnswered, PauseOver, ForceAnswered, At
  <2>2. UNCHANGED odd
    BY <1>7 DEF EventAnswered, PauseOver, ForceAnswered
  <2>3. StartFails(Starting) \/ Go(Starting) \/ UNCHANGED <<results, disk, recordings, gone>>
    BY <1>7 DEF EventAnswered, PauseOver, ForceAnswered, StartGoes
  <2>4. CASE UNCHANGED <<results, disk, recordings, gone>>
    BY <1>1, <2>2, <2>4
  <2>5. QED BY <1>2, <1>3, <2>1, <2>2, <2>3, <2>4
<1>8. QED BY <1>4, <1>5, <1>6, <1>7

(* The next save is made.                                                   *)
LEMMA DataInSaves ==
  ASSUME DataInv, up, Saves
  PROVE  DataInv'
<1> DEFINE d == Tail(disk)
<1>1. /\ disk' = d /\ Len(disk) > 1
      /\ UNCHANGED <<reserves, results, recordings, up, accepted, gone, odd>>
  BY DEF Saves, history
<1>2. Stored(disk, reserves, results, odd)
  BY FilesHave
<1>3. disk \in Seq(Image) /\ disk # <<>> /\ \A k \in DOMAIN disk : Kept(disk[k].reserves, odd)
  BY <1>2 DEF Stored
<1>4. /\ d \in Seq(Image) /\ d # <<>> /\ Len(d) = Len(disk) - 1 /\ Len(disk) \in Nat
      /\ \A k \in DOMAIN d : k + 1 \in DOMAIN disk /\ d[k] = disk[k + 1]
      /\ Len(d) \in DOMAIN d
  <2>1. Len(disk) \in Nat /\ DOMAIN disk = 1..Len(disk)
    BY <1>3
  <2>2. d \in Seq(Image) /\ Len(d) = Len(disk) - 1 /\ DOMAIN d = 1..(Len(disk) - 1)
    BY <1>3
  <2>3. \A k \in 1..(Len(disk) - 1) : d[k] = disk[k + 1]
    BY <1>3
  <2> HIDE DEF d
  <2>4. Len(d) \in DOMAIN d /\ Len(d) # 0
    BY <1>1, <2>1, <2>2
  <2>5. d # <<>>
    BY <2>4
  <2>6. \A k \in DOMAIN d : k + 1 \in DOMAIN disk
    BY <2>1, <2>2
  <2>7. QED BY <2>1, <2>2, <2>3, <2>4, <2>5, <2>6
<1> HIDE DEF d
<1>5. Last(d) = Last(disk)
  <2>1. d[Len(d)] = disk[Len(d) + 1] /\ Len(d) + 1 = Len(disk)
    BY <1>4
  <2>2. QED BY <2>1 DEF Last
<1>6. Stored(d, reserves, results', odd)
  <2>1. \A k \in DOMAIN d : Kept(d[k].reserves, odd)
    BY <1>3, <1>4
  <2>2. Last(disk).results = results /\ Agrees(Last(disk), reserves)
    BY <1>2 DEF Stored
  <2>3. QED BY <1>1, <1>4, <1>5, <2>1, <2>2 DEF Stored
<1>7. AsOdd
  BY <1>1 DEF AsOdd
<1>8. "cut" \notin odd => Clean(reserves) /\ Clean(Last(d).reserves)
  BY <1>5, FilesHave
<1>9. /\ Kept(reserves, odd) /\ recordings' \in [Groups -> Entry({"now", "passed"})] /\ results' \in 0..ResultMax
      /\ gone' \in Nat /\ accepted' \in Nat
  BY <1>1, DataHas
<1>10. "stale" \notin odd /\ "cut" \notin odd =>
          accepted' = UsedIn(reserves) + UsedIn(recordings') + results' + gone'
  BY <1>1, AccountHas
<1>11. QED BY <1>1, <1>6, <1>7, <1>8, <1>9, <1>10, DataWritten

(* The process is gone, with the files as they are or in the middle of a    *)
(* save.                                                                    *)
LEMMA DataInCrash ==
  ASSUME DataInv, up, Crash
  PROVE  DataInv'
<1>1. /\ ~up' /\ UNCHANGED <<reserves, results, recordings, accepted, gone>>
      /\ \/ Len(disk) = 1 /\ odd' = odd \cup {"crash"} /\ disk' = disk
         \/ odd' = odd \cup {"crash", "cut"} /\ disk' \in {<<>>, <<Head(disk)>>}
  BY DEF Crash, Marks
<1>2. Stored(disk, reserves, results, odd) /\ ("cut" \notin odd => Clean(reserves) /\ Clean(Last(disk).reserves))
  BY FilesHave
<1>3. disk \in Seq(Image) /\ disk # <<>> /\ \A k \in DOMAIN disk : Kept(disk[k].reserves, odd)
  BY <1>2 DEF Stored
<1>4. Head(disk) \in Image /\ Kept(Head(disk).reserves, odd) /\ Len(disk) \in Nat
  BY <1>3, LastIs
<1> DEFINE d == disk'
<1>5. /\ d \in Seq(Image) /\ Len(d) <= 1
      /\ \A k \in DOMAIN d : Kept(d[k].reserves, odd)
  <2>1. CASE disk' = disk /\ Len(disk) = 1
    BY <1>3, <2>1
  <2>2. CASE disk' = <<>>
    BY <2>2
  <2>3. CASE disk' = <<Head(disk)>>
    BY <1>4, <2>3
  <2>4. QED BY <1>1, <2>1, <2>2, <2>3
<1> HIDE DEF d
<1>6. /\ "stale" \in odd' <=> "stale" \in odd
      /\ "moved" \in odd' <=> "moved" \in odd
      /\ "cut" \notin odd' => "cut" \notin odd /\ disk' = disk
  BY <1>1
<1>7. DataType'
  BY <1>1, <1>5 DEF DataInv, DataType, d
<1>8. TableInv'
  <2>1. Kept(reserves, odd') /\ \A k \in DOMAIN d : Kept(d[k].reserves, odd')
    BY <1>5, <1>6, DataHas, KeptGrows
  <2>2. "moved" \notin odd' => "stale" \notin odd'
    BY <1>6, DataHas
  <2>3. "cut" \notin odd' => Clean(reserves) /\ Clean(Last(d).reserves)
    BY <1>2, <1>6 DEF d
  <2>4. SavedIsCurrent'
    BY <1>1, <1>6 DEF DataInv, TableInv, SavedIsCurrent
  <2>5. reserves' = reserves /\ disk' = d
    BY <1>1 DEF d
  <2>6. QED BY <1>5, <2>1, <2>2, <2>3, <2>4, <2>5 DEF TableInv
<1>9. Accounted'
  <2>1. odd' \cap {"stale", "cut"} = {} => odd \cap {"stale", "cut"} = {}
    BY <1>6, Ordinary
  <2>2. QED BY <1>1, <2>1 DEF DataInv, Accounted
<1>10. QED BY <1>7, <1>8, <1>9 DEF DataInv

LEMMA DataInQuiet ==
  ASSUME DataInv, WorldType, Quiet
  PROVE  DataInv'
<1>1. ASSUME UNCHANGED <<tables, accepted, gone, odd, up>> PROVE DataInv'
  BY <1>1, DataStays DEF AsOdd
<1>2. ASSUME NEW what, Marks(what), what \subseteq {"early", "raced"}, UNCHANGED <<tables, accepted, gone, up>>
      PROVE  DataInv'
  <2>1. AsOdd
    BY <1>2 DEF Marks, AsOdd
  <2>2. QED BY <1>2, <2>1, DataStays
<1>3. CASE OnNotice
  <2>1. EventOf \in Groups
    BY <1>3, EventIs DEF OnNotice
  <2>2. Ends(EventOf) /\ UNCHANGED <<reserves, accepted, odd, up>> /\ up
    BY <1>3 DEF OnNotice, Event, Scheduling
  <2>3. QED BY <2>1, <2>2, DataEnds DEF AsOdd
<1>4. CASE OnStop \/ OnPatLost
  <2>1. UNCHANGED <<tables, accepted, gone, up>>
    BY <1>4 DEF OnStop, OnPatLost
  <2>2. UNCHANGED odd \/ Marks(Hits(EventOf)) \/ Marks(IF Starting = EventOf THEN {"early"} ELSE {})
    BY <1>4 DEF OnStop, OnPatLost, Breaks
  <2>3. Hits(EventOf) \subseteq {"early", "raced"}
    BY DEF Hits
  <2>4. QED BY <1>1, <1>2, <2>1, <2>2, <2>3
<1>5. CASE Users
  BY <1>5, DataInUsers
<1>6. CASE up /\ World
  <2>1. CASE Crash
    BY <1>6, <2>1, DataInCrash
  <2>2. CASE Tick \/ \E g \in Groups : StreamDries(g) \/ OtherOpens(g) \/ OtherCloses(g)
    <3>1. UNCHANGED <<tables, accepted, gone, odd, up>>
      BY <2>2 DEF Tick, StreamDries, OtherOpens, OtherCloses, ServiceOnly, history
    <3>2. QED BY <1>1, <3>1
  <2>3. QED BY <1>6, <2>1, <2>2 DEF World
<1>7. ASSUME NEW g \in Groups, DataArrives(g) \/ CallHandler(g) PROVE DataInv'
  <2>1. UNCHANGED <<tables, accepted, gone, up>> /\ \E t : Enter(g, t)
    BY <1>7 DEF DataArrives, CallHandler
  <2>2. \E what : Marks(what) /\ what \subseteq {"early", "raced"}
    BY <2>1 DEF Enter
  <2>3. QED BY <1>2, <2>1, <2>2
<1>8. ASSUME NEW g \in Groups, NEW t \in Threads, InHandler(g, t) PROVE DataInv'
  BY <1>1, <1>8 DEF InHandler, Notify, Leave, history
<1>9. CASE up /\ Saves
  BY <1>9, DataInSaves
<1>10. CASE UNCHANGED vars
  BY <1>1, <1>10 DEF vars, history
<1>11. QED BY <1>3, <1>4, <1>5, <1>6, <1>7, <1>8, <1>9, <1>10 DEF Quiet

LEMMA DataStep ==
  ASSUME DataInv, FiberType, WorldType, Control, Step
  PROVE  DataInv'
<1>1. CASE OnStart \/ ChannelAnswered \/ Tuned \/ NotTuned \/ EventAnswered \/ PauseOver \/ ForceAnswered
  BY <1>1, DataInStart
<1>2. ASSUME NEW time \in EpgTimes, ReAdd(time) PROVE DataInv'
  <2>1. Starting \in Groups
    BY <1>2, FibersAre DEF ReAdd, At
  <2>2. QED BY <1>2, <2>1, DataInReAdd
<1>3. CASE Service
  BY <1>3, DataStays DEF Service, ServiceOpens, ServiceTunes, ServiceTuned, ServiceStops, ServiceCloses,
                         ServiceOnly, history, AsOdd
<1>4. CASE CheckLoop
  BY <1>4, DataInCheckLoop
<1>5. CASE OpenAnswered
  BY <1>5, DataInOpenAnswered
<1>6. CASE Watching
  BY <1>6, DataInWatching
<1>7. CASE Quiet
  BY <1>7, DataInQuiet
<1>8. CASE Restart
  BY <1>8, DataInRestart
<1>9. QED BY <1>1, <1>2, <1>3, <1>4, <1>5, <1>6, <1>7, <1>8 DEF Step

-----------------------------------------------------------------------------
(* The types of the rest.                                                   *)
InboxType == inbox \in Seq(Events)
SvcqType  == svcq \in Seq(Calls)
LooksType ==
  /\ progress \in [Groups -> Progress] /\ b25 \in [Groups -> BOOLEAN]
  /\ h \in [Groups -> [Threads -> [pc : {"out", "call", "work", "noticed"}, case : Progress]]]
  /\ \A g \in Groups : /\ h[g]["tune"].pc # "call"
                       /\ \A t \in Threads : /\ In(g, t) => h[g][t].case # "init"
                                             /\ h[g][t].pc = "noticed" => h[g][t].case # "recording"
PlaceType ==
  /\ now \in 1..MaxTime /\ up \in BOOLEAN
  /\ tuner \in [Groups -> {"free", "mine", "other"}]
  /\ stream \in [Groups -> {"off", "tuning", "on", "silent"}]
  /\ odd \subseteq {"raced", "early", "moved", "stale", "leak", "crash", "cut"}

LEMMA WorldHas == WorldType <=> InboxType /\ SvcqType /\ LooksType /\ PlaceType
BY DEF WorldType, InboxType, SvcqType, LooksType, PlaceType

LEMMA OnIs ==
  ASSUME NEW g \in Groups
  PROVE  /\ \A w \in {"opened", "post", "start", "stop", "pat_lost", "tuned", "not_tuned"} : On(w, g) \in Events
         /\ \A w \in {"tune", "tuning", "tune_stop", "close"} : On(w, g) \in Calls
BY DEF On, Events, Calls

LEMMA ConcatIs ==
  ASSUME NEW M, NEW p \in Seq(M), NEW q \in Seq(M)
  PROVE  p \o q \in Seq(M)
OBVIOUS

LEMMA InboxTypeIs ==
  ASSUME WorldType
  PROVE  /\ UNCHANGED inbox => InboxType'
         /\ \A e \in Events : Post(<<e>>) => InboxType'
         /\ Post(<<>>) => InboxType'
         /\ inbox # <<>> /\ Then(<<>>) => InboxType'
         /\ \A e \in Events : inbox # <<>> /\ Then(<<e>>) => InboxType'
<1>1. inbox \in Seq(Events)
  BY DEF WorldType
<1>2. ASSUME NEW e \in Events, Post(<<e>>) PROVE InboxType'
  <2>1. <<e>> \in Seq(Events)
    OBVIOUS
  <2>2. QED BY <1>1, <1>2, <2>1, ConcatIs DEF Post, InboxType
<1>3. ASSUME NEW e \in Events, inbox # <<>>, Then(<<e>>) PROVE InboxType'
  <2>1. <<e>> \in Seq(Events) /\ Tail(inbox) \in Seq(Events)
    BY <1>1, <1>3
  <2>2. QED BY <1>3, <2>1, ConcatIs DEF Then, InboxType
<1>4. ASSUME inbox # <<>>, Then(<<>>) PROVE InboxType'
  BY <1>4, TakenIs DEF InboxType
<1>5. ASSUME Post(<<>>) PROVE InboxType'
  <2>1. inbox' = inbox
    BY <1>1, <1>5 DEF Post
  <2>2. QED BY <1>1, <2>1 DEF InboxType
<1>6. UNCHANGED inbox => InboxType'
  BY <1>1 DEF InboxType
<1>7. QED BY <1>2, <1>3, <1>4, <1>5, <1>6

LEMMA SvcqTypeIs ==
  ASSUME WorldType
  PROVE  /\ UNCHANGED svcq => SvcqType'
         /\ \A e \in Calls : svcq' = Append(svcq, e) => SvcqType'
         /\ \A g \in Groups : GiveBack(g) => SvcqType'
         /\ svcq # <<>> /\ svcq' = Tail(svcq) => SvcqType'
         /\ \A e \in Calls : svcq # <<>> /\ svcq' = <<e>> \o Tail(svcq) => SvcqType'
<1>1. svcq \in Seq(Calls)
  BY DEF WorldType
<1>2. ASSUME NEW e \in Calls, svcq # <<>>, svcq' = <<e>> \o Tail(svcq) PROVE SvcqType'
  <2>1. <<e>> \in Seq(Calls) /\ Tail(svcq) \in Seq(Calls)
    BY <1>1, <1>2
  <2>2. QED BY <1>2, <2>1, ConcatIs DEF SvcqType
<1>3. ASSUME NEW g \in Groups, GiveBack(g) PROVE SvcqType'
  <2> DEFINE a == On("tune_stop", g)
             b == On("close", g)
  <2>1. a \in Calls /\ b \in Calls
    BY OnIs
  <2>2. svcq' = svcq \o <<a, b>>
    BY <1>3 DEF GiveBack
  <2> HIDE DEF a, b
  <2>3. <<a, b>> \in Seq(Calls)
    BY <2>1
  <2>4. QED BY <1>1, <2>2, <2>3, ConcatIs DEF SvcqType
<1>4. ASSUME NEW e \in Calls, svcq' = Append(svcq, e) PROVE SvcqType'
  BY <1>1, <1>4 DEF SvcqType
<1>5. svcq # <<>> /\ svcq' = Tail(svcq) => SvcqType'
  BY <1>1 DEF SvcqType
<1>6. UNCHANGED svcq => SvcqType'
  BY <1>1 DEF SvcqType
<1>7. QED BY <1>2, <1>3, <1>4, <1>5, <1>6

LEMMA LooksIf ==
  ASSUME LooksType, UNCHANGED <<b25, h>>, progress' \in [Groups -> Progress]
  PROVE  LooksType'
BY DEF LooksType, In

LEMMA LooksIfPut ==
  ASSUME LooksType, UNCHANGED <<b25, h>>, NEW g, NEW p \in Progress, progress' = [progress EXCEPT ![g] = p]
  PROVE  LooksType'
<1>1. progress' \in [Groups -> Progress]
  BY DEF LooksType
<1>2. QED BY <1>1, LooksIf

LEMMA LooksIfGo ==
  ASSUME LooksType, NEW g, Go(g), UNCHANGED <<b25, h>>
  PROVE  LooksType'
<1>1. progress' = progress \/ progress' = [progress EXCEPT ![g] = "pre"]
  BY DEF Go
<1>2. "pre" \in Progress /\ progress \in [Groups -> Progress]
  BY DEF Progress, LooksType
<1>3. QED BY <1>1, <1>2, LooksIfPut, LooksIf

(* A thread that goes in, on or out.                                        *)
Place == [pc : {"out", "call", "work", "noticed"}, case : Progress]
IsPlace(x, t) ==
  /\ x \in Place
  /\ t = "tune" => x.pc # "call"
  /\ x.pc \in {"work", "noticed"} => x.case # "init"
  /\ x.pc = "noticed" => x.case # "recording"

LEMMA ThreadMoves ==
  ASSUME LooksType, NEW g \in Groups, NEW t \in Threads, NEW x, IsPlace(x, t), h' = [h EXCEPT ![g][t] = x],
         progress' \in [Groups -> Progress], b25' \in [Groups -> BOOLEAN]
  PROVE  LooksType'
<1>1. h \in [Groups -> [Threads -> Place]]
  BY DEF LooksType, Place
<1>2. h' = [h EXCEPT ![g] = [h[g] EXCEPT ![t] = x]]
  BY <1>1
<1>3. \A k \in Groups, u \in Threads : h'[k][u] = IF k = g /\ u = t THEN x ELSE h[k][u]
  BY <1>1, <1>2
<1>4. h' \in [Groups -> [Threads -> Place]]
  <2>1. h[g] \in [Threads -> Place] /\ x \in Place
    BY <1>1 DEF IsPlace
  <2>2. [h[g] EXCEPT ![t] = x] \in [Threads -> Place]
    BY <2>1
  <2>3. QED BY <1>1, <1>2, <2>2
<1>5. ASSUME NEW k \in Groups, NEW u \in Threads PROVE IsPlace(h'[k][u], u)
  <2>1. CASE k = g /\ u = t
    BY <1>3, <2>1
  <2>2. CASE ~(k = g /\ u = t)
    <3>1. h'[k][u] = h[k][u] /\ h[k][u] \in Place
      BY <1>1, <1>3, <2>2
    <3>2. QED BY <3>1 DEF LooksType, IsPlace, In
  <2>3. QED BY <2>1, <2>2
<1>6. "tune" \in Threads
  BY DEF Threads
<1>7. QED BY <1>4, <1>5, <1>6 DEF LooksType, Place, IsPlace, In

LEMMA LooksInHandler ==
  ASSUME LooksType, NEW g \in Groups, NEW t \in Threads, InHandler(g, t)
  PROVE  LooksType'
<1>1. /\ progress \in [Groups -> Progress] /\ b25 \in [Groups -> BOOLEAN] /\ h[g][t] \in Place
      /\ h \in [Groups -> [Threads -> Place]]
      /\ In(g, t) => h[g][t].case # "init"
      /\ h[g][t].pc = "noticed" => h[g][t].case # "recording"
  BY DEF LooksType, Place
<1>2. CASE Notify(g, t)
  <2> DEFINE x == [h[g][t] EXCEPT !.pc = "noticed"]
  <2>1. h[g][t].pc = "work" /\ h[g][t].case # "recording" /\ h[g][t].case \in Progress
    BY <1>1, <1>2 DEF Notify, Place
  <2>2. x.pc = "noticed" /\ x.case = h[g][t].case /\ x \in Place
    BY <1>1 DEF Place
  <2>3. IsPlace(x, t)
    BY <1>1, <2>1, <2>2 DEF IsPlace, In
  <2>4. h' = [h EXCEPT ![g][t] = x]
    BY <1>1, <1>2 DEF Notify
  <2>5. /\ progress' = progress
        /\ b25' = [b25 EXCEPT ![g] = CASE h[g][t].case = "pre" -> TRUE [] h[g][t].case = "post" -> FALSE [] OTHER -> @]
    BY <1>2 DEF Notify
  <2>6. b25' \in [Groups -> BOOLEAN]
    BY <1>1, <2>5
  <2> HIDE DEF x
  <2>7. QED BY <1>1, <2>3, <2>4, <2>5, <2>6, ThreadMoves
<1>3. CASE Leave(g, t)
  <2>1. IsPlace(Outside, t)
    BY DEF IsPlace, Outside, Place, Progress
  <2>2. h' = [h EXCEPT ![g][t] = Outside] /\ b25' = b25
    BY <1>3 DEF Leave
  <2>3. progress' \in [Groups -> Progress]
    <3>1. CASE progress' = progress
      BY <1>1, <3>1
    <3>2. CASE h[g][t].pc = "noticed" /\ progress' = [progress EXCEPT ![g] = AfterCase(h[g][t].case)]
      <4>1. h[g][t].case \in {"pre", "success", "error", "post"}
        BY <1>1, <3>2 DEF Place, Progress, In
      <4>2. AfterCase(h[g][t].case) \in Progress
        BY <4>1 DEF AfterCase, Progress
      <4>3. QED BY <1>1, <3>2, <4>2
    <3>3. QED BY <1>3, <3>1, <3>2 DEF Leave
  <2>4. QED BY <1>1, <2>1, <2>2, <2>3, ThreadMoves
<1>4. QED BY <1>2, <1>3 DEF InHandler

LEMMA LooksIfEnter ==
  ASSUME LooksType, NEW g \in Groups, NEW t \in Threads, Enter(g, t), UNCHANGED <<progress, b25>>
  PROVE  LooksType'
<1>1. progress \in [Groups -> Progress] /\ b25 \in [Groups -> BOOLEAN] /\ progress[g] \in Progress
  BY DEF LooksType
<1> DEFINE x == IF progress[g] = "init" THEN Outside ELSE [pc |-> "work", case |-> progress[g]]
<1>2. h' = [h EXCEPT ![g][t] = x]
  BY DEF Enter
<1>3. IsPlace(x, t)
  <2>1. CASE progress[g] = "init"
    BY <2>1 DEF IsPlace, Outside, Place, Progress
  <2>2. CASE progress[g] # "init"
    BY <1>1, <2>2 DEF IsPlace, Place
  <2>3. QED BY <2>1, <2>2
<1> HIDE DEF x
<1>4. QED BY <1>1, <1>2, <1>3, ThreadMoves

LEMMA LooksInQuiet ==
  ASSUME LooksType, InboxType, Quiet
  PROVE  LooksType'
<1>1. progress \in [Groups -> Progress]
  BY DEF LooksType
<1>2. ASSUME UNCHANGED handler PROVE LooksType'
  BY <1>1, <1>2, LooksIf DEF handler
<1>3. "error" \in Progress /\ "post" \in Progress
  BY DEF Progress
<1>4. CASE OnStop
  <2>1. UNCHANGED <<b25, h>>
    BY <1>4 DEF OnStop
  <2>2. UNCHANGED progress \/ progress' = [progress EXCEPT ![EventOf] = "error"]
    BY <1>4 DEF OnStop, Breaks
  <2>3. QED BY <1>1, <1>3, <2>1, <2>2, LooksIf, LooksIfPut
<1>5. CASE OnPatLost
  <2>1. CASE UNCHANGED <<progress, h>>
    BY <1>5, <2>1, <1>2 DEF OnPatLost, handler
  <2>2. CASE Breaks(EventOf, "post") /\ h' = [h EXCEPT ![EventOf]["rec"].pc = "call"]
    <3> DEFINE g == EventOf
               x == [h[g]["rec"] EXCEPT !.pc = "call"]
    <3>1. g \in Groups
      <4>1. inbox \in Seq(Events) /\ inbox # <<>> /\ Head(inbox).what = "pat_lost"
        BY <1>5 DEF OnPatLost, Event, InboxType
      <4>2. Head(inbox) \in Events
        BY <4>1
      <4>3. QED BY <4>1, <4>2 DEF EventOf, Events
    <3>2. "rec" \in Threads
      BY DEF Threads
    <3>3. h \in [Groups -> [Threads -> Place]] /\ b25 \in [Groups -> BOOLEAN]
      BY DEF LooksType, Place
    <3>4. h[g]["rec"] \in Place
      BY <3>1, <3>2, <3>3
    <3>5. x.pc = "call" /\ x \in Place
      BY <3>4 DEF Place
    <3>6. IsPlace(x, "rec")
      BY <3>5 DEF IsPlace
    <3>7. h' = [h EXCEPT ![g]["rec"] = x]
      BY <2>2, <3>1, <3>2, <3>3
    <3>8. progress' \in [Groups -> Progress]
      BY <1>1, <1>3, <2>2 DEF Breaks
    <3>9. b25' = b25
      BY <1>5 DEF OnPatLost
    <3> HIDE DEF g, x
    <3>10. QED BY <3>1, <3>2, <3>3, <3>6, <3>7, <3>8, <3>9, ThreadMoves
  <2>3. QED BY <1>5, <2>1, <2>2 DEF OnPatLost
<1>6. CASE OnNotice \/ Users \/ World \/ Saves
  BY <1>2, <1>6 DEF OnNotice, Users, AddEvent, AddCurrentEvent, AddManual, AddReserve, RemoveReserve, AskStop,
                    World, Saves, Tick, Crash, StreamDries, OtherOpens, OtherCloses, ServiceOnly
<1>7. ASSUME NEW g \in Groups, DataArrives(g) \/ CallHandler(g) PROVE LooksType'
  <2>1. UNCHANGED <<progress, b25>> /\ \E t \in Threads : Enter(g, t)
    BY <1>7 DEF DataArrives, CallHandler, Threads
  <2>2. QED BY <2>1, LooksIfEnter
<1>8. CASE \E g \in Groups, t \in Threads : InHandler(g, t)
  BY <1>8, LooksInHandler
<1>9. CASE UNCHANGED vars
  BY <1>2, <1>9 DEF vars
<1>10. QED BY <1>4, <1>5, <1>6, <1>7, <1>8, <1>9 DEF Quiet

LEMMA LooksStep ==
  ASSUME LooksType, InboxType, Step
  PROVE  LooksType'
<1>1. progress \in [Groups -> Progress]
  BY DEF LooksType
<1>2. ASSUME UNCHANGED handler PROVE LooksType'
  BY <1>1, <1>2, LooksIf DEF handler
<1>3. CASE CheckLoop
  <2>1. progress' = [g \in Groups |-> IF AtEnd(g) THEN "success" ELSE progress[g]] /\ UNCHANGED <<b25, h>>
    BY <1>3 DEF CheckLoop
  <2>2. progress' \in [Groups -> Progress]
    BY <1>1, <2>1 DEF Progress
  <2>3. QED BY <2>1, <2>2, LooksIf
<1>4. CASE Tuned \/ NotTuned \/ EventAnswered \/ OnStart \/ ChannelAnswered \/ PauseOver \/ ForceAnswered
  <2>1. UNCHANGED <<b25, h>> /\ (UNCHANGED progress \/ Go(Starting))
    BY <1>4 DEF Tuned, NotTuned, EventAnswered, OnStart, ChannelAnswered, PauseOver, ForceAnswered, StartRest
  <2>2. QED BY <1>1, <2>1, LooksIf, LooksIfGo
<1>5. CASE Watching \/ Service \/ OpenAnswered \/ \E time \in EpgTimes : ReAdd(time)
  BY <1>2, <1>5 DEF Watching, EpgBegins, WatchAsks, EpgAnswered, WatchAnswered, OpenAnswered, ReAdd,
       Service, ServiceOpens, ServiceTunes, ServiceTuned, ServiceStops, ServiceCloses, ServiceOnly
<1>6. CASE Restart
  <2>1. /\ progress' = [g \in Groups |-> "init"] /\ b25' = [g \in Groups |-> FALSE]
        /\ h' = [g \in Groups |-> [t \in Threads |-> Outside]]
    BY <1>6 DEF Restart, Volatile
  <2>2. Outside \in Place /\ Outside.pc = "out" /\ "tune" \in Threads
    BY DEF Outside, Place, Progress, Threads
  <2>3. progress' \in [Groups -> Progress] /\ b25' \in [Groups -> BOOLEAN] /\ h' \in [Groups -> [Threads -> Place]]
    BY <2>1, <2>2 DEF Progress
  <2>4. \A g \in Groups, t \in Threads : h'[g][t] = Outside
    BY <2>1
  <2>5. QED BY <2>2, <2>3, <2>4 DEF LooksType, In, Place
<1>7. CASE Quiet
  BY <1>7, LooksInQuiet
<1>8. QED BY <1>3, <1>4, <1>5, <1>6, <1>7 DEF Step

LEMMA OddStep ==
  ASSUME Step
  PROVE  UNCHANGED odd \/ \E what : /\ what \subseteq {"raced", "early", "moved", "stale", "leak", "crash", "cut"}
                                     /\ Marks(what)
<1>1. \A g : Hits(g) \subseteq {"raced", "early"}
  BY DEF Hits
<1>2. CASE Quiet
  <2>1. CASE OnNotice \/ OnStop \/ OnPatLost
    BY <1>1, <2>1 DEF OnNotice, OnStop, OnPatLost, Breaks
  <2>2. CASE Users
    BY <2>2 DEF Users, AddEvent, AddCurrentEvent, AddManual, AddReserve, RemoveReserve, AskStop, history
  <2>3. CASE World \/ Saves
    BY <2>3 DEF World, Saves, Tick, Crash, StreamDries, OtherOpens, OtherCloses, ServiceOnly, history
  <2>4. CASE \E g \in Groups : DataArrives(g) \/ CallHandler(g)
    BY <2>4 DEF DataArrives, CallHandler, Enter
  <2>5. CASE \E g \in Groups, t \in Threads : InHandler(g, t)
    BY <2>5 DEF InHandler, Notify, Leave, history
  <2>6. CASE UNCHANGED vars
    BY <2>6 DEF vars, history
  <2>7. QED BY <1>2, <2>1, <2>2, <2>3, <2>4, <2>5, <2>6 DEF Quiet
<1>3. CASE CheckLoop
  <2>1. Marks(UNION {Hits(g) : g \in {x \in Groups : AtEnd(x)}})
    BY <1>3 DEF CheckLoop
  <2>2. UNION {Hits(g) : g \in {x \in Groups : AtEnd(x)}} \subseteq {"raced", "early", "moved", "stale", "leak", "crash", "cut"}
    BY <1>1
  <2>3. QED BY <2>1, <2>2
<1>4. CASE OpenAnswered
  BY <1>4 DEF OpenAnswered, Pick
<1>5. CASE Watching
  BY <1>5 DEF Watching, EpgBegins, WatchAsks, EpgAnswered, WatchAnswered, history
<1>6. CASE Service \/ Restart \/ \E time \in EpgTimes : ReAdd(time)
  BY <1>6 DEF Service, ServiceOpens, ServiceTunes, ServiceTuned, ServiceStops, ServiceCloses, ServiceOnly,
              Restart, ReAdd, history
<1>7. CASE OnStart \/ ChannelAnswered \/ Tuned \/ NotTuned \/ EventAnswered \/ PauseOver \/ ForceAnswered
  BY <1>7 DEF OnStart, ChannelAnswered, Tuned, NotTuned, EventAnswered, PauseOver, ForceAnswered, StartRest
<1>8. QED BY <1>2, <1>3, <1>4, <1>5, <1>6, <1>7 DEF Step

LEMMA PlaceStep ==
  ASSUME PlaceType, SvcqType, Step
  PROVE  PlaceType'
<1>1. UNCHANGED <<now, up>> \/ (now' \in 1..MaxTime /\ up' = up) \/ (now' = now /\ up' \in BOOLEAN)
  <2>1. CASE Quiet
    <3>1. CASE OnNotice \/ OnStop \/ OnPatLost
      BY <3>1 DEF OnNotice, OnStop, OnPatLost
    <3>2. CASE Users
      BY <3>2 DEF Users, AddEvent, AddCurrentEvent, AddManual, AddReserve, RemoveReserve, AskStop
    <3>3. CASE World \/ Saves
      <4>1. CASE Tick
        BY <4>1, RecordingAssumption DEF Tick, PlaceType
      <4>2. CASE ~Tick
        BY <3>3, <4>2 DEF World, Saves, Crash, StreamDries, OtherOpens, OtherCloses, ServiceOnly
      <4>3. QED BY <4>1, <4>2
    <3>4. CASE \E g \in Groups : DataArrives(g) \/ CallHandler(g)
      BY <3>4 DEF DataArrives, CallHandler
    <3>5. CASE \E g \in Groups, t \in Threads : InHandler(g, t)
      BY <3>5 DEF InHandler, Notify, Leave
    <3>6. CASE UNCHANGED vars
      BY <3>6 DEF vars
    <3>7. QED BY <2>1, <3>1, <3>2, <3>3, <3>4, <3>5, <3>6 DEF Quiet
  <2>2. CASE CheckLoop \/ OpenAnswered \/ Watching \/ Service \/ \E time \in EpgTimes : ReAdd(time)
    BY <2>2 DEF CheckLoop, OpenAnswered, Watching, EpgBegins, WatchAsks, EpgAnswered, WatchAnswered, ReAdd,
         Service, ServiceOpens, ServiceTunes, ServiceTuned, ServiceStops, ServiceCloses, ServiceOnly
  <2>3. CASE OnStart \/ ChannelAnswered \/ Tuned \/ NotTuned \/ EventAnswered \/ PauseOver \/ ForceAnswered
    BY <2>3 DEF OnStart, ChannelAnswered, Tuned, NotTuned, EventAnswered, PauseOver, ForceAnswered, StartRest
  <2>4. CASE Restart
    BY <2>4 DEF Restart
  <2>5. QED BY <2>1, <2>2, <2>3, <2>4 DEF Step
<1>2. now' \in 1..MaxTime /\ up' \in BOOLEAN
  BY <1>1 DEF PlaceType
<1>3. \/ UNCHANGED tuner
      \/ \E g : \E x \in {"free", "mine", "other"} : tuner' = [tuner EXCEPT ![g] = x]
      \/ tuner' = [g \in Groups |-> "free"]
  <2>1. CASE Quiet
    <3>1. CASE OnNotice \/ OnStop \/ OnPatLost
      BY <3>1 DEF OnNotice, OnStop, OnPatLost, service
    <3>2. CASE Users
      BY <3>2 DEF Users, AddEvent, AddCurrentEvent, AddManual, AddReserve, RemoveReserve, AskStop, service
    <3>3. CASE World \/ Saves
      BY <3>3 DEF World, Saves, Tick, Crash, StreamDries, OtherOpens, OtherCloses, service
    <3>4. CASE \E g \in Groups : DataArrives(g) \/ CallHandler(g)
      BY <3>4 DEF DataArrives, CallHandler, service
    <3>5. CASE \E g \in Groups, t \in Threads : InHandler(g, t)
      BY <3>5 DEF InHandler, Notify, Leave, service
    <3>6. CASE UNCHANGED vars
      BY <3>6 DEF vars, service
    <3>7. QED BY <2>1, <3>1, <3>2, <3>3, <3>4, <3>5, <3>6 DEF Quiet
  <2>2. CASE CheckLoop \/ OpenAnswered \/ Watching \/ \E time \in EpgTimes : ReAdd(time)
    BY <2>2 DEF CheckLoop, OpenAnswered, Watching, EpgBegins, WatchAsks, EpgAnswered, WatchAnswered, ReAdd, service
  <2>3. CASE OnStart \/ ChannelAnswered \/ Tuned \/ NotTuned \/ EventAnswered \/ PauseOver \/ ForceAnswered
    BY <2>3 DEF OnStart, ChannelAnswered, Tuned, NotTuned, EventAnswered, PauseOver, ForceAnswered, StartRest
  <2>4. CASE Service
    <3>1. CASE ServiceOpens
      BY <3>1 DEF ServiceOpens
    <3>2. CASE ServiceTunes \/ ServiceTuned \/ ServiceStops
      BY <3>2 DEF ServiceTunes, ServiceTuned, ServiceStops
    <3>3. CASE ServiceCloses
      <4> DEFINE g == Head(svcq).g
      <4>1. tuner' = [tuner EXCEPT ![g] = IF stream[g] = "off" THEN "free" ELSE tuner[g]]
        BY <3>3 DEF ServiceCloses
      <4>2. CASE stream[g] = "off"
        BY <4>1, <4>2
      <4>3. CASE stream[g] # "off"
        <5>1. tuner \in [Groups -> {"free", "mine", "other"}]
          BY DEF PlaceType
        <5>2. tuner' = tuner
          BY <4>1, <4>3, <5>1
        <5>3. QED BY <5>2
      <4>4. QED BY <4>2, <4>3
    <3>4. QED BY <2>4, <3>1, <3>2, <3>3 DEF Service
  <2>5. CASE Restart
    BY <2>5 DEF Restart, Volatile
  <2>6. QED BY <2>1, <2>2, <2>3, <2>4, <2>5 DEF Step
<1>4. tuner' \in [Groups -> {"free", "mine", "other"}]
  BY <1>3 DEF PlaceType
<1>5. \/ UNCHANGED stream
      \/ \E g : \E x \in {"off", "tuning", "on", "silent"} : stream' = [stream EXCEPT ![g] = x]
      \/ stream' = [g \in Groups |-> "off"]
  <2>1. CASE Quiet
    <3>1. CASE OnNotice \/ OnStop \/ OnPatLost
      BY <3>1 DEF OnNotice, OnStop, OnPatLost, service
    <3>2. CASE Users
      BY <3>2 DEF Users, AddEvent, AddCurrentEvent, AddManual, AddReserve, RemoveReserve, AskStop, service
    <3>3. CASE World \/ Saves
      BY <3>3 DEF World, Saves, Tick, Crash, StreamDries, OtherOpens, OtherCloses, service, StreamStops
    <3>4. CASE \E g \in Groups : DataArrives(g) \/ CallHandler(g)
      BY <3>4 DEF DataArrives, CallHandler, service
    <3>5. CASE \E g \in Groups, t \in Threads : InHandler(g, t)
      BY <3>5 DEF InHandler, Notify, Leave, service
    <3>6. CASE UNCHANGED vars
      BY <3>6 DEF vars, service
    <3>7. QED BY <2>1, <3>1, <3>2, <3>3, <3>4, <3>5, <3>6 DEF Quiet
  <2>2. CASE CheckLoop \/ OpenAnswered \/ Watching \/ \E time \in EpgTimes : ReAdd(time)
    BY <2>2 DEF CheckLoop, OpenAnswered, Watching, EpgBegins, WatchAsks, EpgAnswered, WatchAnswered, ReAdd, service
  <2>3. CASE OnStart \/ ChannelAnswered \/ Tuned \/ NotTuned \/ EventAnswered \/ PauseOver \/ ForceAnswered
    BY <2>3 DEF OnStart, ChannelAnswered, Tuned, NotTuned, EventAnswered, PauseOver, ForceAnswered, StartRest
  <2>4. CASE Service
    <3>1. CASE ServiceOpens \/ ServiceTunes \/ ServiceStops \/ ServiceCloses
      BY <3>1 DEF ServiceOpens, ServiceTunes, ServiceStops, ServiceCloses, StreamStops
    <3>2. CASE ServiceTuned
      <4> DEFINE g == Head(svcq).g
      <4>1. \/ stream' = [stream EXCEPT ![g] = IF stream[g] = "tuning" THEN "on" ELSE stream[g]]
            \/ StreamStops(g)
        BY <3>2 DEF ServiceTuned
      <4>2. CASE StreamStops(g)
        BY <4>2 DEF StreamStops
      <4>3. CASE stream' = [stream EXCEPT ![g] = "on"]
        BY <4>3
      <4>4. CASE stream' = [stream EXCEPT ![g] = stream[g]]
        <5>1. stream \in [Groups -> {"off", "tuning", "on", "silent"}]
          BY DEF PlaceType
        <5>2. stream' = stream
          BY <4>4, <5>1
        <5>3. QED BY <5>2
      <4>5. QED BY <4>1, <4>2, <4>3, <4>4
    <3>3. QED BY <2>4, <3>1, <3>2 DEF Service
  <2>5. CASE Restart
    BY <2>5 DEF Restart, Volatile
  <2>6. QED BY <2>1, <2>2, <2>3, <2>4, <2>5 DEF Step
<1>6. stream' \in [Groups -> {"off", "tuning", "on", "silent"}]
  BY <1>5 DEF PlaceType
<1>7. UNCHANGED odd \/ \E what : what \subseteq {"raced", "early", "moved", "stale", "leak", "crash", "cut"} /\ Marks(what)
  BY OddStep
<1>8. odd' \subseteq {"raced", "early", "moved", "stale", "leak", "crash", "cut"}
  BY <1>7 DEF PlaceType, Marks
<1>9. QED BY <1>2, <1>4, <1>6, <1>8 DEF PlaceType

LEMMA InboxStep ==
  ASSUME WorldType, Step
  PROVE  InboxType'
<1>1. CASE UNCHANGED inbox
  BY <1>1, InboxTypeIs
<1>2. ASSUME NEW what, Event(what), Then(<<>>) PROVE InboxType'
  BY <1>2, InboxTypeIs DEF Event
<1>3. ASSUME NEW w \in {"opened", "post", "stop", "pat_lost", "tuned", "not_tuned"}, NEW g \in Groups, Post(<<On(w, g)>>)
      PROVE  InboxType'
  BY <1>3, OnIs, InboxTypeIs
<1>4. CASE CheckLoop
  BY <1>1, <1>3, <1>4 DEF CheckLoop, Stoppable
<1>5. CASE OpenAnswered
  <2>1. CASE EventOf \in Groups /\ Then(<<On("start", EventOf)>>)
    BY <1>5, <2>1, OnIs, InboxTypeIs DEF OpenAnswered, Event
  <2>2. CASE Then(<<>>)
    BY <1>2, <1>5, <2>2 DEF OpenAnswered
  <2>3. EventOf \in Groups \cup {NoGroup}
    BY <1>5, EventIs DEF OpenAnswered
  <2>4. QED BY <1>5, <2>1, <2>2, <2>3 DEF OpenAnswered, Pick
<1>6. CASE OnStart \/ Tuned \/ NotTuned \/ OnNotice \/ OnStop \/ OnPatLost
  BY <1>2, <1>6 DEF OnStart, Tuned, NotTuned, OnNotice, OnStop, OnPatLost
<1>7. CASE ChannelAnswered \/ EventAnswered \/ PauseOver \/ ForceAnswered \/ (\E time \in EpgTimes : ReAdd(time)) \/ Watching
  BY <1>1, <1>7 DEF ChannelAnswered, EventAnswered, PauseOver, ForceAnswered, ReAdd,
       Watching, EpgBegins, WatchAsks, EpgAnswered, WatchAnswered
<1>8. CASE Service
  <2>1. CASE ServiceOpens
    <3>1. CASE Post(<<On("opened", NoGroup)>>)
      BY <3>1, OnIs, InboxTypeIs DEF On, Events
    <3>2. QED BY <1>3, <2>1, <3>1 DEF ServiceOpens
  <2>2. CASE ServiceTunes
    <3>1. Head(svcq).g \in Groups
      BY <2>2, CallIs DEF ServiceTunes
    <3>2. QED BY <1>1, <1>3, <2>2, <3>1 DEF ServiceTunes
  <2>3. CASE ServiceTuned
    <3>1. Head(svcq).g \in Groups
      BY <2>3, CallIs DEF ServiceTuned
    <3>2. QED BY <1>3, <2>3, <3>1 DEF ServiceTuned
  <2>4. CASE ServiceStops \/ ServiceCloses
    BY <1>1, <2>4 DEF ServiceStops, ServiceCloses
  <2>5. QED BY <1>8, <2>1, <2>2, <2>3, <2>4 DEF Service
<1>9. CASE Users \/ World \/ Saves
  BY <1>1, <1>3, <1>9 DEF Users, AddEvent, AddCurrentEvent, AddManual, AddReserve, RemoveReserve, AskStop,
       World, Saves, Tick, Crash, StreamDries, OtherOpens, OtherCloses
<1>10. CASE \E g \in Groups : DataArrives(g) \/ CallHandler(g)
  BY <1>1, <1>10 DEF DataArrives, CallHandler
<1>11. ASSUME NEW g \in Groups, NEW t \in Threads, InHandler(g, t) PROVE InboxType'
  <2>1. CASE Leave(g, t)
    BY <1>1, <2>1 DEF Leave
  <2>2. CASE Notify(g, t)
    <3>1. Post(<<On("post", g)>>) \/ Post(<<>>)
      BY <2>2 DEF Notify
    <3>2. QED BY <1>3, <3>1, InboxTypeIs
  <2>3. QED BY <1>11, <2>1, <2>2 DEF InHandler
<1>12. CASE UNCHANGED vars
  BY <1>1, <1>12 DEF vars
<1>13. CASE Restart
  BY <1>13 DEF Restart, Volatile, InboxType
<1>14. QED BY <1>4, <1>5, <1>6, <1>7, <1>8, <1>9, <1>10, <1>11, <1>12, <1>13 DEF Step, Quiet

LEMMA SvcqStep ==
  ASSUME WorldType, FiberType, Control, Step
  PROVE  SvcqType'
<1>1. CASE UNCHANGED svcq
  BY <1>1, SvcqTypeIs
<1>2. ASSUME NEW g \in Groups, GiveBack(g) PROVE SvcqType'
  BY <1>2, SvcqTypeIs
<1>3. ASSUME NEW what, First(what), svcq' = Tail(svcq) PROVE SvcqType'
  BY <1>3, SvcqTypeIs DEF First
<1>4. CASE CheckLoop
  <2>1. On("open", NoGroup) \in Calls
    BY DEF On, Calls
  <2>2. UNCHANGED svcq \/ svcq' = Append(svcq, On("open", NoGroup))
    BY <1>4 DEF CheckLoop
  <2>3. QED BY <1>1, <2>1, <2>2, SvcqTypeIs
<1>5. CASE OnStart \/ OnNotice
  <2>1. EventOf \in Groups
    BY <1>5, EventIs DEF OnStart, OnNotice
  <2>2. QED BY <1>1, <1>2, <1>5, <2>1 DEF OnStart, OnNotice, StartFails
<1>6. CASE Tuned \/ NotTuned
  <2>1. Starting \in Groups
    BY <1>6, TuneAnswered DEF Tuned, NotTuned
  <2>2. QED BY <1>1, <1>2, <1>6, <2>1 DEF Tuned, NotTuned, StartFails, Go
<1>7. CASE ChannelAnswered \/ EventAnswered \/ PauseOver \/ ForceAnswered \/ \E time \in EpgTimes : ReAdd(time)
  <2>1. Starting \in Groups
    BY <1>7, FibersAre DEF ChannelAnswered, EventAnswered, PauseOver, ForceAnswered, ReAdd, At
  <2>2. CASE svcq' = Append(svcq, On("tune", Starting))
    BY <2>1, <2>2, OnIs, SvcqTypeIs
  <2>3. GiveBack(Starting) \/ UNCHANGED svcq \/ svcq' = Append(svcq, On("tune", Starting))
    BY <1>7 DEF ChannelAnswered, EventAnswered, PauseOver, ForceAnswered, ReAdd, StartFails, Go
  <2>4. QED BY <1>1, <1>2, <2>1, <2>2, <2>3
<1>8. CASE Service
  <2>1. CASE ServiceOpens \/ ServiceTuned \/ ServiceStops \/ ServiceCloses
    BY <1>3, <2>1 DEF ServiceOpens, ServiceTuned, ServiceStops, ServiceCloses
  <2>2. CASE ServiceTunes
    <3> DEFINE g == Head(svcq).g
    <3>1. g \in Groups /\ svcq # <<>>
      BY <2>2, CallIs DEF ServiceTunes
    <3>2. svcq' = Tail(svcq) \/ svcq' = <<On("tuning", g)>> \o Tail(svcq)
      BY <2>2 DEF ServiceTunes
    <3>3. On("tuning", g) \in Calls
      BY <3>1, OnIs
    <3>4. QED BY <3>1, <3>2, <3>3, SvcqTypeIs
  <2>3. QED BY <1>8, <2>1, <2>2 DEF Service
<1>9. CASE OpenAnswered \/ Watching \/ OnStop \/ OnPatLost \/ Users \/ World \/ Saves
  BY <1>1, <1>9 DEF OpenAnswered, Watching, EpgBegins, WatchAsks, EpgAnswered, WatchAnswered, OnStop, OnPatLost,
       Users, AddEvent, AddCurrentEvent, AddManual, AddReserve, RemoveReserve, AskStop,
       World, Saves, Tick, Crash, StreamDries, OtherOpens, OtherCloses, ServiceOnly, service
<1>10. CASE \E g \in Groups : DataArrives(g) \/ CallHandler(g)
  BY <1>1, <1>10 DEF DataArrives, CallHandler, service
<1>11. CASE \E g \in Groups, t \in Threads : InHandler(g, t)
  BY <1>1, <1>11 DEF InHandler, Notify, Leave, service
<1>12. CASE UNCHANGED vars
  BY <1>1, <1>12 DEF vars, service
<1>13. CASE Restart
  BY <1>13 DEF Restart, Volatile, SvcqType
<1>14. QED BY <1>4, <1>5, <1>6, <1>7, <1>8, <1>9, <1>10, <1>11, <1>12, <1>13 DEF Step, Quiet

LEMMA WorldStep ==
  ASSUME WorldType, FiberType, Control, Step
  PROVE  WorldType'
<1>1. InboxType /\ SvcqType /\ LooksType /\ PlaceType
  BY WorldHas
<1>2. InboxType' /\ SvcqType' /\ LooksType' /\ PlaceType'
  BY <1>1, InboxStep, SvcqStep, LooksStep, PlaceStep
<1>3. QED BY <1>2 DEF WorldType, InboxType, SvcqType, LooksType, PlaceType, In

-----------------------------------------------------------------------------
(* The part of the invariant that holds whatever happens.                   *)

LEMMA BaseStep ==
  ASSUME Base, Step
  PROVE  Base'
<1>1. FiberType /\ WorldType /\ Control /\ DataInv
  BY DEF Base, TypeInv, DataInv
<1>2. FiberType' /\ Control'
  BY <1>1, ControlStep
<1>3. WorldType'
  BY <1>1, WorldStep
<1>4. DataInv'
  BY <1>1, DataStep
<1>5. QED BY <1>2, <1>3, <1>4 DEF Base, TypeInv, DataInv

LEMMA BaseInit ==
  ASSUME Init
  PROVE  Base
<1>1. /\ reserves = Blanks /\ disk = <<Files(Blanks, 0)>> /\ results = 0 /\ up = TRUE
      /\ recordings = [g \in Groups |-> Blank] /\ accepted = 0 /\ gone = 0 /\ odd = {}
      /\ fiber = [f \in Fibers |-> Asleep] /\ inbox = <<>> /\ svcq = <<>>
  BY DEF Init
<1>2. /\ Blank \in Entry({"req", "passed"}) /\ Blank \in Entry({"now", "passed"}) /\ Blank \in Entry({"req"})
      /\ ~Blank.used /\ Blank.start = 0 /\ Blank.period = 0
  BY BlankIs DEF Blank, Entry
<1>3. FiberType
  <2>1. /\ fiber \in [Fibers -> FiberSet]
        /\ fiber["check"] = Asleep /\ fiber["start"] = Asleep
        /\ fiber["epg"] = Asleep /\ fiber["watch"] = Asleep
    BY <1>1 DEF Fibers, FiberSet, Asleep, Pcs
  <2>2. QED BY <2>1, AsleepIs DEF FiberType, FiberSet, At, Starting
<1>4. WorldType
  <2>1. now \in 1..MaxTime
    BY RecordingAssumption DEF Init
  <2>2. Outside \in Place /\ Outside.pc = "out" /\ "tune" \in Threads
    BY DEF Outside, Place, Progress, Threads
  <2>3. /\ progress = [g \in Groups |-> "init"] /\ b25 = [g \in Groups |-> FALSE]
        /\ h = [g \in Groups |-> [t \in Threads |-> Outside]]
        /\ tuner = [g \in Groups |-> "free"] /\ stream = [g \in Groups |-> "off"] /\ up = TRUE
    BY DEF Init
  <2>4. LooksType
    <3>1. progress \in [Groups -> Progress] /\ b25 \in [Groups -> BOOLEAN] /\ h \in [Groups -> [Threads -> Place]]
      BY <2>2, <2>3 DEF Progress
    <3>2. \A g \in Groups, t \in Threads : h[g][t] = Outside
      BY <2>3
    <3>3. QED BY <2>2, <3>1, <3>2 DEF LooksType, In, Place
  <2>5. PlaceType
    BY <1>1, <2>1, <2>3 DEF PlaceType
  <2>6. InboxType /\ SvcqType
    BY <1>1 DEF InboxType, SvcqType
  <2>7. QED BY <2>4, <2>5, <2>6, WorldHas
<1>5. /\ reserves \in [Slots -> Entry({"req", "passed"})] /\ Clean(reserves)
      /\ recordings \in [Groups -> Entry({"now", "passed"})]
      /\ \A i \in Slots : reserves[i] = Blank
  BY <1>1, <1>2 DEF Blanks, Clean
<1>d. /\ disk \in Seq(Image) /\ Len(disk) = 1 /\ DOMAIN disk = {1} /\ disk[1].reserves = reserves
      /\ Last(disk).reserves = reserves /\ Last(disk).results = 0 /\ disk # <<>>
  <2> DEFINE a == Files(Blanks, 0)
  <2>1. a \in Image /\ a.reserves = reserves /\ a.results = 0
    BY <1>1, <1>5, SlotsAre DEF Files, Image
  <2> HIDE DEF a
  <2>2. QED BY <1>1, <2>1 DEF a, Last
<1>6. DataType
  BY <1>1, <1>5, <1>d, SlotsAre DEF DataType
<1>7. TableInv
  <2>1. Kept(reserves, odd)
    BY <1>1, <1>2, <1>5 DEF Kept, Lasting, InFront, Empty, InOrder, NoneTwice
  <2>2. QED BY <1>1, <1>5, <1>d, <2>1 DEF TableInv, SavedIsCurrent
<1>8. Accounted
  <2>1. {i \in DOMAIN reserves : reserves[i].used} = {}
    BY <1>2, <1>5
  <2>2. {g \in DOMAIN recordings : recordings[g].used} = {}
    BY <1>1, <1>2
  <2>3. UsedIn(reserves) = 0 /\ UsedIn(recordings) = 0
    BY <2>1, <2>2, FS_EmptySet DEF UsedIn
  <2>4. QED BY <1>1, <2>3 DEF Accounted
<1>9. Control
  <2>1. \A w : Queued(<<>>, w) = 0 /\ \A g : QueuedFor(<<>>, w, g) = 0
    BY NothingQueued
  <2>2. At("check", "sleep") /\ At("start", "sleep")
    BY <1>1, AsleepIs DEF At, Fibers
  <2>3. OpenOnce /\ StartOnce /\ TuneOnce
    BY <1>1, <2>1, <2>2 DEF OpenOnce, StartOnce, TuneOnce, At, One
  <2>4. TunesStarting
    BY <1>1, <2>1 DEF TunesStarting, TuneFor
  <2>5. QED BY <2>3, <2>4 DEF Control
<1>10. QED BY <1>3, <1>4, <1>6, <1>7, <1>8, <1>9 DEF Base, TypeInv

-----------------------------------------------------------------------------
(* The part of it that holds as long as nothing has raced.  What a step     *)
(* does not touch stays sound.                                              *)
LEMMA OddGrows ==
  ASSUME Step
  PROVE  odd \subseteq odd'
BY OddStep DEF Marks

SameLooks(g) ==
  /\ h'[g] = h[g] /\ progress'[g] = progress[g] /\ b25'[g] = b25[g]
  /\ "now" \in recordings'[g].flags <=> "now" \in recordings[g].flags
  /\ QueuedFor(inbox', "post", g) = QueuedFor(inbox, "post", g)

SameHands(g) ==
  /\ recordings[g].used => recordings'[g].used
  /\ "now" \in recordings'[g].flags <=> "now" \in recordings[g].flags
  /\ fiber'["start"].g = g <=> fiber["start"].g = g
  /\ fiber["start"].g = g => fiber'["start"].pc = fiber["start"].pc
  /\ QueuedFor(inbox', "start", g) = QueuedFor(inbox, "start", g)
  /\ QueuedFor(inbox', "opened", g) = QueuedFor(inbox, "opened", g)
  /\ QueuedFor(inbox', "tuned", g) = QueuedFor(inbox, "tuned", g)
  /\ QueuedFor(svcq', "tuning", g) = QueuedFor(svcq, "tuning", g)
  /\ QueuedFor(svcq', "close", g) = QueuedFor(svcq, "close", g)
  /\ tuner'[g] = tuner[g]
  /\ stream[g] # "off" => stream'[g] # "off"

LEMMA HandledStays ==
  ASSUME NEW g \in Groups, Handled(g), SameLooks(g), odd \subseteq odd'
  PROVE  Handled(g)'
<1>1. /\ h'[g] = h[g] /\ progress'[g] = progress[g] /\ b25'[g] = b25[g]
      /\ Records(g)' <=> Records(g)
      /\ Posts(g)' = Posts(g)
      /\ "early" \notin odd' => "early" \notin odd
  BY DEF SameLooks, Records, Posts
<1>2. Closing(g)' <=> Closing(g)
  BY <1>1 DEF Closing
<1>3. QED BY <1>1, <1>2 DEF Handled, In

LEMMA OwnedStays ==
  ASSUME NEW g \in Groups, Owned(g), SameHands(g), odd \subseteq odd'
  PROVE  Owned(g)'
<1>1. /\ Begun(g)' <=> Begun(g)
      /\ Opened(g)' <=> Opened(g)
      /\ Records(g)' <=> Records(g)
      /\ Given(g)' = Given(g)
      /\ Fed(g)' <=> Fed(g)
      /\ tuner'[g] = tuner[g] /\ (stream[g] # "off" => stream'[g] # "off")
      /\ recordings[g].used => recordings'[g].used
      /\ "leak" \notin odd' => "leak" \notin odd
  BY DEF SameHands, Begun, Opened, Records, Given, Fed, Starting
<1>2. Held(g)' <=> Held(g)
  BY <1>1 DEF Held
<1>3. QED BY <1>1, <1>2 DEF Owned

(* The queue of tuner_service.                                              *)
LEMMA PairsAppend ==
  ASSUME NEW q \in Seq(Calls), Pairs(q), NEW e \in Calls, e.what \notin {"tune_stop", "close"}
  PROVE  /\ Pairs(Append(q, e))
         /\ Head(Append(q, e)) = IF q = <<>> THEN e ELSE Head(q)
<1> DEFINE p == Append(q, e)
<1>1. /\ p \in Seq(Calls) /\ Len(p) = Len(q) + 1 /\ Len(q) \in Nat
      /\ \A i \in 1..Len(q) : p[i] = q[i]
      /\ p[Len(q) + 1] = e /\ DOMAIN p = 1..(Len(q) + 1) /\ DOMAIN q = 1..Len(q)
  OBVIOUS
<1>2. Head(p) = IF q = <<>> THEN e ELSE Head(q)
  <2>1. CASE q = <<>>
    BY <1>1, <2>1
  <2>2. CASE q # <<>>
    <3>1. Len(q) > 0
      BY <2>2
    <3>2. Head(p) = p[1] /\ Head(q) = q[1] /\ p[1] = q[1]
      BY <1>1, <3>1
    <3>3. QED BY <2>2, <3>2
  <2>3. QED BY <2>1, <2>2
<1> HIDE DEF p
<1>3. ASSUME NEW i \in DOMAIN p
      PROVE  /\ p[i].what = "tune_stop" => i < Len(p) /\ p[i + 1] = On("close", p[i].g)
             /\ p[i].what = "close" /\ i # 1 => p[i - 1] = On("tune_stop", p[i].g)
  <2>1. CASE i = Len(q) + 1
    BY <1>1, <2>1
  <2>2. CASE i \in 1..Len(q)
    <3>1. p[i] = q[i] /\ i \in DOMAIN q
      BY <1>1, <2>2
    <3>2. ASSUME p[i].what = "tune_stop" PROVE i < Len(p) /\ p[i + 1] = On("close", p[i].g)
      <4>1. i < Len(q) /\ q[i + 1] = On("close", q[i].g)
        BY <3>1, <3>2 DEF Pairs
      <4>2. i + 1 \in 1..Len(q)
        BY <1>1, <2>2, <4>1
      <4>3. QED BY <1>1, <3>1, <4>1, <4>2
    <3>3. ASSUME p[i].what = "close", i # 1 PROVE p[i - 1] = On("tune_stop", p[i].g)
      <4>1. q[i - 1] = On("tune_stop", q[i].g)
        BY <3>1, <3>3 DEF Pairs
      <4>2. i - 1 \in 1..Len(q)
        BY <1>1, <2>2, <3>3
      <4>3. QED BY <1>1, <3>1, <4>1, <4>2
    <3>4. QED BY <3>2, <3>3
  <2>3. QED BY <1>1, <2>1, <2>2
<1>4. Pairs(p)
  BY <1>3 DEF Pairs
<1>5. QED BY <1>2, <1>4 DEF p

LEMMA PairsGiven ==
  ASSUME NEW q \in Seq(Calls), Pairs(q), NEW x \in Groups,
         NEW p, p = q \o <<On("tune_stop", x), On("close", x)>>
  PROVE  /\ Pairs(p)
         /\ Head(p) = IF q = <<>> THEN On("tune_stop", x) ELSE Head(q)
<1> DEFINE a == On("tune_stop", x)
           b == On("close", x)
<1>1. a.what = "tune_stop" /\ a.g = x /\ b.what = "close" /\ b.g = x
  BY DEF On
<1>2. a \in Calls /\ b \in Calls
  BY OnIs
<1>3. p = q \o <<a, b>>
  OBVIOUS
<1>4. a = On("tune_stop", b.g) /\ b = On("close", a.g)
  BY <1>1
<1> HIDE DEF a, b
<1>5. /\ p \in Seq(Calls) /\ Len(p) = Len(q) + 2 /\ Len(q) \in Nat
      /\ \A i \in 1..Len(q) : p[i] = q[i]
      /\ p[Len(q) + 1] = a /\ p[Len(q) + 2] = b
      /\ DOMAIN p = 1..(Len(q) + 2) /\ DOMAIN q = 1..Len(q)
  BY <1>2, <1>3
<1>6. Head(p) = IF q = <<>> THEN a ELSE Head(q)
  <2>1. Head(p) = p[1]
    BY <1>5
  <2>2. CASE q = <<>>
    BY <1>5, <2>1, <2>2
  <2>3. CASE q # <<>>
    <3>1. Len(q) > 0
      BY <2>3
    <3>2. Head(q) = q[1] /\ p[1] = q[1]
      BY <1>5, <3>1
    <3>3. QED BY <2>1, <2>3, <3>2
  <2>4. QED BY <2>2, <2>3
<1>7. ASSUME NEW i \in DOMAIN p
      PROVE  /\ p[i].what = "tune_stop" => i < Len(p) /\ p[i + 1] = On("close", p[i].g)
             /\ p[i].what = "close" /\ i # 1 => p[i - 1] = On("tune_stop", p[i].g)
  <2>1. CASE i = Len(q) + 1
    BY <1>1, <1>4, <1>5, <2>1
  <2>2. CASE i = Len(q) + 2
    BY <1>1, <1>4, <1>5, <2>2
  <2>3. CASE i \in 1..Len(q)
    <3>1. p[i] = q[i] /\ i \in DOMAIN q
      BY <1>5, <2>3
    <3>2. ASSUME p[i].what = "tune_stop" PROVE i < Len(p) /\ p[i + 1] = On("close", p[i].g)
      <4>1. i < Len(q) /\ q[i + 1] = On("close", q[i].g)
        BY <3>1, <3>2 DEF Pairs
      <4>2. i + 1 \in 1..Len(q)
        BY <1>5, <2>3, <4>1
      <4>3. QED BY <1>5, <3>1, <4>1, <4>2
    <3>3. ASSUME p[i].what = "close", i # 1 PROVE p[i - 1] = On("tune_stop", p[i].g)
      <4>1. q[i - 1] = On("tune_stop", q[i].g)
        BY <3>1, <3>3 DEF Pairs
      <4>2. i - 1 \in 1..Len(q)
        BY <1>5, <2>3, <3>3
      <4>3. QED BY <1>5, <3>1, <4>1, <4>2
    <3>4. QED BY <3>2, <3>3
  <2>4. i = Len(q) + 1 \/ i = Len(q) + 2 \/ i \in 1..Len(q)
    <3>1. i \in 1..(Len(q) + 2) /\ Len(q) \in Nat
      BY <1>5
    <3>2. QED BY <3>1
  <2>5. QED BY <2>1, <2>2, <2>3, <2>4
<1>8. Pairs(p)
  BY <1>7 DEF Pairs
<1>9. QED BY <1>6, <1>8 DEF a

LEMMA PairsTail ==
  ASSUME NEW q \in Seq(Calls), Pairs(q), q # <<>>
  PROVE  /\ Pairs(Tail(q))
         /\ Tail(q) # <<>> /\ Head(Tail(q)).what = "close" => Head(q) = On("tune_stop", Head(Tail(q)).g)
         /\ Head(q).what = "tune_stop" => Tail(q) # <<>> /\ Head(Tail(q)) = On("close", Head(q).g)
<1> DEFINE p == Tail(q)
<1>1. /\ p \in Seq(Calls) /\ Len(p) = Len(q) - 1 /\ Len(q) \in Nat /\ Len(q) > 0
      /\ \A i \in 1..Len(p) : p[i] = q[i + 1]
      /\ DOMAIN p = 1..Len(p) /\ DOMAIN q = 1..Len(q) /\ Head(q) = q[1]
  OBVIOUS
<1>2. p # <<>> => Len(p) > 0 /\ Head(p) = q[2]
  BY <1>1
<1> HIDE DEF p
<1>3. ASSUME NEW i \in DOMAIN p
      PROVE  /\ p[i].what = "tune_stop" => i < Len(p) /\ p[i + 1] = On("close", p[i].g)
             /\ p[i].what = "close" /\ i # 1 => p[i - 1] = On("tune_stop", p[i].g)
  <2>1. p[i] = q[i + 1] /\ i + 1 \in DOMAIN q /\ i + 1 # 1 /\ (i + 1) - 1 = i
    BY <1>1
  <2>2. ASSUME p[i].what = "tune_stop" PROVE i < Len(p) /\ p[i + 1] = On("close", p[i].g)
    <3>1. i + 1 < Len(q) /\ q[(i + 1) + 1] = On("close", q[i + 1].g)
      BY <2>1, <2>2 DEF Pairs
    <3>2. i + 1 \in 1..Len(p)
      BY <1>1, <3>1
    <3>3. QED BY <1>1, <2>1, <3>1, <3>2
  <2>3. ASSUME p[i].what = "close", i # 1 PROVE p[i - 1] = On("tune_stop", p[i].g)
    <3>1. q[(i + 1) - 1] = On("tune_stop", q[i + 1].g)
      BY <2>1, <2>3 DEF Pairs
    <3>2. i - 1 \in 1..Len(p) /\ (i - 1) + 1 = i
      BY <1>1, <2>3
    <3>3. p[i - 1] = q[i]
      BY <1>1, <3>2
    <3>4. QED BY <2>1, <3>1, <3>3
  <2>4. QED BY <2>2, <2>3
<1>4. Pairs(p)
  BY <1>3 DEF Pairs
<1>5. ASSUME p # <<>>, Head(p).what = "close" PROVE Head(q) = On("tune_stop", Head(p).g)
  <2>1. 2 \in DOMAIN q /\ q[2] = Head(p)
    BY <1>1, <1>2, <1>5
  <2>2. q[2 - 1] = On("tune_stop", q[2].g)
    BY <1>5, <2>1 DEF Pairs
  <2>3. QED BY <1>1, <2>1, <2>2
<1>6. ASSUME Head(q).what = "tune_stop" PROVE p # <<>> /\ Head(p) = On("close", Head(q).g)
  <2>1. 1 < Len(q) /\ q[1 + 1] = On("close", q[1].g)
    BY <1>1, <1>6 DEF Pairs
  <2>2. p # <<>>
    BY <1>1, <2>1
  <2>3. QED BY <1>1, <1>2, <2>1, <2>2
<1>7. QED BY <1>4, <1>5, <1>6 DEF p

LEMMA PairsReplaced ==
  ASSUME NEW q \in Seq(Calls), Pairs(q), q # <<>>, NEW e \in Calls,
         Head(q).what # "tune_stop", e.what \notin {"tune_stop", "close"},
         NEW p, p = <<e>> \o Tail(q)
  PROVE  Pairs(p) /\ Head(p) = e
<1>1. /\ p \in Seq(Calls) /\ Len(p) = Len(q) /\ Len(q) \in Nat /\ Len(q) > 0
      /\ \A i \in 2..Len(q) : p[i] = q[i]
      /\ p[1] = e /\ Head(p) = e /\ Head(q) = q[1]
      /\ DOMAIN p = 1..Len(q) /\ DOMAIN q = 1..Len(q)
  OBVIOUS
<1>2. ASSUME NEW i \in DOMAIN p
      PROVE  /\ p[i].what = "tune_stop" => i < Len(p) /\ p[i + 1] = On("close", p[i].g)
             /\ p[i].what = "close" /\ i # 1 => p[i - 1] = On("tune_stop", p[i].g)
  <2>1. CASE i = 1
    BY <1>1, <2>1
  <2>2. CASE i \in 2..Len(q)
    <3>1. p[i] = q[i] /\ i \in DOMAIN q /\ i # 1
      BY <1>1, <2>2
    <3>2. ASSUME p[i].what = "tune_stop" PROVE i < Len(p) /\ p[i + 1] = On("close", p[i].g)
      <4>1. i < Len(q) /\ q[i + 1] = On("close", q[i].g)
        BY <3>1, <3>2 DEF Pairs
      <4>2. i + 1 \in 2..Len(q)
        BY <1>1, <2>2, <4>1
      <4>3. QED BY <1>1, <3>1, <4>1, <4>2
    <3>3. ASSUME p[i].what = "close", i # 1 PROVE p[i - 1] = On("tune_stop", p[i].g)
      <4>1. q[i - 1] = On("tune_stop", q[i].g)
        BY <3>1, <3>3 DEF Pairs
      <4>2. CASE i = 2
        <5>1. q[1].what = "tune_stop"
          BY <4>1, <4>2 DEF On
        <5>2. QED BY <1>1, <5>1
      <4>3. CASE i # 2
        <5>1. i - 1 \in 2..Len(q)
          BY <1>1, <2>2, <4>3
        <5>2. QED BY <1>1, <3>1, <4>1, <5>1
      <4>4. QED BY <4>2, <4>3
    <3>4. QED BY <3>2, <3>3
  <2>3. QED BY <1>1, <2>1, <2>2
<1>3. QED BY <1>1, <1>2 DEF Pairs

LEMMA SoundIf ==
  ASSUME Sound, odd \subseteq odd', Paired',
         \A g \in Groups : SameLooks(g) \/ Handled(g)',
         \A g \in Groups : SameHands(g) \/ Owned(g)'
  PROVE  Sound'
<1>1. \A g \in Groups : Handled(g)'
  BY HandledStays DEF Sound
<1>2. \A g \in Groups : Owned(g)'
  BY OwnedStays DEF Sound
<1>3. QED BY <1>1, <1>2 DEF Sound

(* The head of the queue, if it is a close, still finds the stream off.     *)
Calm == First("close") => stream'[Head(svcq).g] = "off"

LEMMA PairedStays ==
  ASSUME Paired, UNCHANGED svcq, Calm
  PROVE  Paired'
BY DEF Paired, Calm, First

LEMMA PairedPosted ==
  ASSUME WorldType, Paired, NEW e \in Calls, e.what \notin {"tune_stop", "close"}, svcq' = Append(svcq, e), Calm
  PROVE  Paired'
<1>1. svcq \in Seq(Calls) /\ Pairs(svcq)
  BY DEF WorldType, Paired
<1>2. Pairs(svcq') /\ Head(svcq') = IF svcq = <<>> THEN e ELSE Head(svcq)
  BY <1>1, PairsAppend
<1>3. (First("close"))' => First("close") /\ Head(svcq') = Head(svcq)
  BY <1>2 DEF First
<1>4. QED BY <1>2, <1>3 DEF Paired, Calm

LEMMA PairedGiven ==
  ASSUME WorldType, Paired, NEW x \in Groups, GiveBack(x), Calm
  PROVE  Paired'
<1>1. svcq \in Seq(Calls) /\ Pairs(svcq)
  BY DEF WorldType, Paired
<1>2. svcq' = svcq \o <<On("tune_stop", x), On("close", x)>>
  BY DEF GiveBack
<1>3. Pairs(svcq') /\ Head(svcq') = IF svcq = <<>> THEN On("tune_stop", x) ELSE Head(svcq)
  BY <1>1, <1>2, PairsGiven
<1>4. On("tune_stop", x).what # "close"
  BY DEF On
<1>5. (First("close"))' => First("close") /\ Head(svcq') = Head(svcq)
  BY <1>3, <1>4 DEF First
<1>6. QED BY <1>3, <1>5 DEF Paired, Calm

LEMMA CalmIf ==
  ASSUME Paired, stream' = stream
  PROVE  Calm
BY DEF Paired, Calm

(* The messages to rec_manager that matter here.                            *)
SameIn(p, q) ==
  \A w \in {"post", "start", "opened", "tuned"} : \A g : QueuedFor(p, w, g) = QueuedFor(q, w, g)

LEMMA SameInIf ==
  ASSUME NEW p, NEW q, NEW what, NEW who, what \notin {"post", "start", "opened", "tuned"},
         More(p, q, what, who) \/ More(q, p, what, who)
  PROVE  SameIn(p, q)
BY DEF SameIn, More

(* Nothing of all this changes.                                             *)
Still ==
  /\ UNCHANGED <<h, progress, b25, svcq, tuner, stream>>
  /\ \A g \in Groups : recordings'[g].used = recordings[g].used /\ recordings'[g].flags = recordings[g].flags
  /\ fiber'["start"] = fiber["start"]
  /\ SameIn(inbox', inbox)

LEMMA SoundIfStill ==
  ASSUME Sound, Still, odd \subseteq odd'
  PROVE  Sound'
<1>1. /\ h' = h /\ progress' = progress /\ b25' = b25 /\ svcq' = svcq /\ tuner' = tuner /\ stream' = stream
      /\ fiber'["start"] = fiber["start"]
  BY DEF Still
<1>2. ASSUME NEW g \in Groups PROVE SameLooks(g) /\ SameHands(g)
  <2>1. recordings'[g].used = recordings[g].used /\ recordings'[g].flags = recordings[g].flags
    BY DEF Still
  <2>2. \A w \in {"post", "start", "opened", "tuned"} : QueuedFor(inbox', w, g) = QueuedFor(inbox, w, g)
    BY DEF Still, SameIn
  <2>3. SameLooks(g)
    BY <1>1, <2>1, <2>2 DEF SameLooks
  <2>4. SameHands(g)
    BY <1>1, <2>1, <2>2 DEF SameHands
  <2>5. QED BY <2>3, <2>4
<1>3. Paired'
  BY <1>1, PairedStays, CalmIf DEF Sound
<1>4. QED BY <1>2, <1>3, SoundIf

LEMMA SoundInStill ==
  ASSUME Base, Sound,
         Users \/ Tick \/ Crash \/ Saves \/ Watching \/ UNCHANGED vars
  PROVE  Sound'
<1>1. WorldType /\ FiberType /\ recordings \in [Groups -> Entry({"now", "passed"})]
  BY DEF Base, TypeInv, DataType
<1>2. SameIn(inbox, inbox)
  BY DEF SameIn
<1>3. CASE Users
  <2>1. ASSUME NEW g \in Groups, AskStop(g) PROVE Still
    <3>1. On("stop", g) \in Notes
      BY NotesIn
    <3>2. More(inbox', inbox, "stop", g)
      BY <1>1, <2>1, <3>1, InboxPosted DEF AskStop
    <3>3. SameIn(inbox', inbox)
      BY <3>2, SameInIf
    <3>4. QED BY <2>1, <3>3 DEF AskStop, tables, handler, service, Still
  <2>2. ASSUME NEW p \in Programs, AddReserve(p) PROVE Still
    BY <1>2, <2>2 DEF AddReserve, handler, service, Still
  <2>3. ASSUME NEW i \in Slots, NEW rep \in BOOLEAN, NEW res \in BOOLEAN, RemoveReserve(i, rep, res) PROVE Still
    BY <1>2, <2>3 DEF RemoveReserve, handler, service, Still
  <2>4. Still
    BY <1>3, <2>1, <2>2, <2>3 DEF Users, AddEvent, AddCurrentEvent, AddManual
  <2>5. odd \subseteq odd'
    BY <1>3 DEF Users, AddEvent, AddCurrentEvent, AddManual, AddReserve, RemoveReserve, AskStop, history
  <2>6. QED BY <2>4, <2>5, SoundIfStill
<1>4. CASE Tick \/ Crash \/ Saves
  <2>1. Still /\ odd \subseteq odd'
    BY <1>2, <1>4 DEF Tick, Crash, Saves, tables, handler, service, history, Marks, Still
  <2>2. QED BY <2>1, SoundIfStill
<1>5. CASE UNCHANGED vars
  <2>1. Still /\ odd \subseteq odd'
    BY <1>2, <1>5 DEF vars, tables, handler, service, history, Still
  <2>2. QED BY <2>1, SoundIfStill
<1>6. CASE Watching
  <2>1. odd \subseteq odd' /\ inbox' = inbox /\ UNCHANGED <<h, progress, b25, svcq, tuner, stream>>
    BY <1>6 DEF Watching, EpgBegins, WatchAsks, EpgAnswered, WatchAnswered, handler, service, history, Marks
  <2>2. fiber'["start"] = fiber["start"]
    <3>1. \E f \in {"epg", "watch"} : \E x : fiber' = [fiber EXCEPT ![f] = x]
      BY <1>6 DEF Watching, EpgBegins, WatchAsks, EpgAnswered, WatchAnswered, EpgGoes
    <3>2. QED BY <1>1, <3>1, FibersAre
  <2>3. \A g \in Groups : recordings'[g].used = recordings[g].used /\ recordings'[g].flags = recordings[g].flags
    <3>1. CASE recordings' = recordings
      BY <3>1
    <3>2. ASSUME NEW time, NEW g \in Groups,
                 recordings' = [recordings EXCEPT ![g].end = time[2]] \/ recordings' = [recordings EXCEPT ![g].key.event = 1]
          PROVE  \A x \in Groups : recordings'[x].used = recordings[x].used /\ recordings'[x].flags = recordings[x].flags
      BY <1>1, <3>2 DEF Entry
    <3>3. recordings' = recordings \/ \E time \in EpgTimes : WatchAnswered(time)
      BY <1>6 DEF Watching, EpgBegins, WatchAsks, EpgAnswered, tables
    <3>4. ASSUME NEW time \in EpgTimes, WatchAnswered(time)
          PROVE  \A x \in Groups : recordings'[x].used = recordings[x].used /\ recordings'[x].flags = recordings[x].flags
      <4>1. fiber["watch"].g \in Groups
        BY <1>1, <3>4 DEF FiberType, WatchAnswered
      <4>2. QED BY <3>1, <3>2, <3>4, <4>1 DEF WatchAnswered
    <3>5. QED BY <3>1, <3>3, <3>4
  <2>4. Still
    BY <1>2, <2>1, <2>2, <2>3 DEF Still
  <2>5. QED BY <2>1, <2>4, SoundIfStill
<1>7. QED BY <1>3, <1>4, <1>5, <1>6

(* The handler.                                                             *)
LEMMA HandsStay ==
  ASSUME NEW g \in Groups, UNCHANGED <<recordings, fiber, svcq, tuner, stream>>,
         \A w \in {"start", "opened", "tuned"} : QueuedFor(inbox', w, g) = QueuedFor(inbox, w, g)
  PROVE  SameHands(g)
BY DEF SameHands

LEMMA ThreadIs ==
  ASSUME LooksType, NEW g \in Groups, NEW t \in Threads, NEW x, h' = [h EXCEPT ![g][t] = x]
  PROVE  /\ h'[g][t] = x
         /\ \A u \in Threads : u # t => h'[g][u] = h[g][u]
         /\ \A k \in Groups : k # g => h'[k] = h[k]
<1>1. h \in [Groups -> [Threads -> Place]]
  BY DEF LooksType, Place
<1>2. h' = [h EXCEPT ![g] = [h[g] EXCEPT ![t] = x]] /\ h[g] \in [Threads -> Place]
  BY <1>1
<1>3. h'[g] = [h[g] EXCEPT ![t] = x] /\ \A k \in Groups : k # g => h'[k] = h[k]
  BY <1>1, <1>2
<1>4. QED BY <1>2, <1>3

LEMMA OtherThread ==
  ASSUME NEW t \in Threads
  PROVE  \E o \in Threads : o # t /\ Threads = {t, o}
BY DEF Threads

(* What Handled says of the two threads.                                    *)
LEMMA OneInside ==
  ASSUME NEW g \in Groups, Handled(g), NEW t \in Threads, NEW o \in Threads, o # t, In(g, t)
  PROVE  /\ ~In(g, o) /\ h[g][o].pc # "noticed"
         /\ h[g][t].case # "recording" => progress[g] = h[g][t].case
         /\ h[g][t].case = "recording" => progress[g] \in Written
BY DEF Handled, Threads, In

LEMMA SoundInEnter ==
  ASSUME Base, Sound, NEW g \in Groups, NEW t \in Threads, Enter(g, t), h[g][t].pc \in {"out", "call"},
         UNCHANGED <<recordings, fiber, svcq, tuner, stream, inbox, progress, b25>>, "raced" \notin odd'
  PROVE  Sound'
<1>1. LooksType /\ Handled(g) /\ odd \subseteq odd' /\ progress[g] \in Progress
  BY WorldHas DEF Base, TypeInv, Sound, Enter, Marks, LooksType
<1> DEFINE x == IF progress[g] = "init" THEN Outside ELSE [pc |-> "work", case |-> progress[g]]
<1>2. h' = [h EXCEPT ![g][t] = x]
  BY DEF Enter
<1>3. PICK o \in Threads : o # t /\ Threads = {t, o}
  BY OtherThread
<1>4. progress[g] # "init" => ~In(g, o)
  BY <1>3 DEF Enter, Marks, In
<1>5. x.pc = (IF progress[g] = "init" THEN "out" ELSE "work") /\ (progress[g] # "init" => x.case = progress[g])
  BY DEF Outside
<1> HIDE DEF x
<1>6. /\ h'[g][t] = x /\ h'[g][o] = h[g][o]
      /\ \A k \in Groups : k # g => h'[k] = h[k]
  BY <1>1, <1>2, <1>3, ThreadIs
<1>7. Handled(g)'
  <2>1. Closing(g)' <=> Closing(g)
    BY <1>3, <1>5, <1>6 DEF Closing
  <2>2. Records(g)' <=> Records(g)
    BY DEF Records
  <2>3. Posts(g)' = Posts(g)
    BY DEF Posts
  <2>4. ~In(g, t)
    BY DEF In
  <2>5. In(g, o)' <=> In(g, o)
    BY <1>6 DEF In
  <2>6. In(g, t)' => progress[g] # "init" /\ ~In(g, o)
    BY <1>4, <1>5, <1>6 DEF In
  <2>7. ~(In(g, "tune") /\ In(g, "rec"))'
    <3>1. "tune" \in {t, o} /\ "rec" \in {t, o}
      BY <1>3 DEF Threads
    <3>2. ~(In(g, t) /\ In(g, o))'
      BY <2>5, <2>6
    <3>3. ASSUME (In(g, "tune") /\ In(g, "rec"))' PROVE FALSE
      <4>1. ("tune" = t /\ "rec" = o) \/ ("tune" = o /\ "rec" = t)
        BY <3>1
      <4>2. CASE "tune" = t /\ "rec" = o
        BY <3>2, <3>3, <4>2
      <4>3. CASE "tune" = o /\ "rec" = t
        BY <3>2, <3>3, <4>3
      <4>4. QED BY <4>1, <4>2, <4>3
    <3>4. QED BY <3>3
  <2>8. ASSUME NEW u \in Threads, In(g, u)'
        PROVE  IF h'[g][u].case = "recording" THEN progress'[g] \in Written ELSE progress'[g] = h'[g][u].case
    <3>1. CASE u = o
      BY <1>1, <1>6, <2>5, <2>8, <3>1 DEF Handled
    <3>2. CASE u = t
      BY <1>5, <1>6, <2>6, <2>8, <3>2 DEF Written
    <3>3. QED BY <1>3, <3>1, <3>2
  <2>9. "early" \notin odd' => \A u \in Threads : h'[g][u].pc = "noticed" /\ h'[g][u].case = "pre" => b25'[g]
    <3>1. x.pc # "noticed"
      BY <1>5
    <3>2. QED BY <1>1, <1>3, <1>6, <3>1 DEF Handled
  <2>10. QED BY <1>1, <2>1, <2>2, <2>3, <2>7, <2>8, <2>9 DEF Handled
<1>8. \A k \in Groups : SameLooks(k) \/ k = g
  BY <1>6 DEF SameLooks
<1>9. \A k \in Groups : SameHands(k)
  BY HandsStay
<1>10. Paired'
  BY PairedStays, CalmIf DEF Sound
<1>11. QED BY <1>1, <1>7, <1>8, <1>9, <1>10, SoundIf

LEMMA SoundInCalls ==
  ASSUME Base, Sound, NEW g \in Groups, DataArrives(g) \/ CallHandler(g), "raced" \notin odd'
  PROVE  Sound'
<1>1. LooksType /\ "tune" \in Threads /\ "rec" \in Threads
  BY WorldHas DEF Base, TypeInv, Threads
<1>2. CASE DataArrives(g)
  <2>1. Enter(g, "tune") /\ h[g]["tune"].pc \in {"out", "call"}
    BY <1>2 DEF DataArrives, Inside
  <2>2. UNCHANGED <<recordings, fiber, svcq, tuner, stream, inbox, progress, b25>>
    BY <1>2 DEF DataArrives, tables, service
  <2>3. QED BY <1>1, <2>1, <2>2, SoundInEnter
<1>3. CASE CallHandler(g)
  <2>1. Enter(g, "rec") /\ h[g]["rec"].pc \in {"out", "call"}
    BY <1>3 DEF CallHandler
  <2>2. UNCHANGED <<recordings, fiber, svcq, tuner, stream, inbox, progress, b25>>
    BY <1>3 DEF CallHandler, tables, service
  <2>3. QED BY <1>1, <2>1, <2>2, SoundInEnter
<1>4. QED BY <1>2, <1>3

(* One thread is in the case of rec_progress_, with a recording and no      *)
(* notice of its end yet, or with that notice and at the end.               *)
LEMMA Inside1 ==
  ASSUME NEW g \in Groups, Handled(g), NEW t \in Threads, In(g, t), h[g][t].case # "recording", LooksType
  PROVE  /\ progress[g] = h[g][t].case /\ progress[g] # "init"
         /\ Closing(g) <=> h[g][t].pc = "noticed" /\ h[g][t].case = "post"
         /\ ~Closing(g) => Records(g) /\ Posts(g) = 0
<1>1. PICK o \in Threads : o # t /\ Threads = {t, o}
  BY OtherThread
<1>2. progress[g] = h[g][t].case /\ h[g][o].pc # "noticed"
  BY <1>1, OneInside
<1>3. progress[g] # "init"
  BY <1>2 DEF LooksType
<1>4. Closing(g) <=> h[g][t].pc = "noticed" /\ h[g][t].case = "post"
  BY <1>1, <1>2 DEF Closing
<1>5. ~Closing(g) => Records(g) /\ Posts(g) = 0
  BY <1>3 DEF Handled
<1>6. QED BY <1>2, <1>3, <1>4, <1>5

LEMMA NotBoth ==
  ASSUME NEW g, NEW t \in Threads, NEW o \in Threads, o # t, ~In(g, t)' \/ ~In(g, o)'
  PROVE  ~(In(g, "tune") /\ In(g, "rec"))'
<1>1. ("tune" = t /\ "rec" = o) \/ ("tune" = o /\ "rec" = t)
  BY DEF Threads
<1>2. CASE "tune" = t /\ "rec" = o
  BY <1>2
<1>3. CASE "tune" = o /\ "rec" = t
  BY <1>3
<1>4. QED BY <1>1, <1>2, <1>3

LEMMA SoundInNotify ==
  ASSUME Base, Sound, NEW g \in Groups, NEW t \in Threads, Notify(g, t)
  PROVE  Sound'
<1>1. LooksType /\ WorldType /\ Handled(g) /\ odd' = odd
  BY WorldHas DEF Base, TypeInv, Sound, Notify, history
<1> DEFINE x == [h[g][t] EXCEPT !.pc = "noticed"]
           c == h[g][t].case
<1>2. h[g][t] \in Place /\ h \in [Groups -> [Threads -> Place]]
  BY <1>1 DEF LooksType, Place
<1>3. h' = [h EXCEPT ![g][t] = x]
  BY <1>2 DEF Notify
<1>4. PICK o \in Threads : o # t /\ Threads = {t, o}
  BY OtherThread
<1>5. h[g][t].pc = "work" /\ c # "recording" /\ In(g, t) /\ (c = "post" => b25[g]) /\ c \in Progress
  BY <1>2 DEF Notify, In, Place
<1>6. x.pc = "noticed" /\ x.case = c
  BY <1>2 DEF Place
<1> HIDE DEF x, c
<1>7. /\ h'[g][t] = x /\ h'[g][o] = h[g][o]
      /\ \A k \in Groups : k # g => h'[k] = h[k]
  BY <1>1, <1>3, <1>4, ThreadIs
<1>8. progress[g] = c /\ progress[g] # "init" /\ ~Closing(g) /\ Records(g) /\ Posts(g) = 0
  BY <1>1, <1>5, Inside1 DEF c
<1>9. ~In(g, o) /\ ~In(g, o)'
  BY <1>1, <1>4, <1>5, <1>7, OneInside DEF In
<1>10. /\ progress' = progress /\ UNCHANGED <<recordings, fiber, svcq, tuner, stream>>
       /\ b25' = [b25 EXCEPT ![g] = CASE c = "pre" -> TRUE [] c = "post" -> FALSE [] OTHER -> @]
       /\ Post(IF progress[g] = "post" THEN <<On("post", g)>> ELSE <<>>)
  BY DEF Notify, tables, service, c
<1>11. /\ \A k \in Groups : k # g => b25'[k] = b25[k]
       /\ c = "pre" => b25'[g]
       /\ c # "pre" /\ c # "post" => b25'[g] = b25[g]
  <2>1. b25 \in [Groups -> BOOLEAN]
    BY <1>1 DEF LooksType
  <2>2. \A k \in Groups : k # g => b25'[k] = b25[k]
    BY <1>10, <2>1
  <2>3. b25'[g] = CASE c = "pre" -> TRUE [] c = "post" -> FALSE [] OTHER -> b25[g]
    BY <1>10, <2>1
  <2>4. QED BY <2>2, <2>3
<1>12. /\ \A w \in {"start", "opened", "tuned"} : \A k : QueuedFor(inbox', w, k) = QueuedFor(inbox, w, k)
       /\ \A k : k # g => QueuedFor(inbox', "post", k) = QueuedFor(inbox, "post", k)
       /\ QueuedFor(inbox', "post", g) = IF c = "post" THEN 1 ELSE 0
  <2>1. CASE c = "post"
    <3>1. Post(<<On("post", g)>>) /\ On("post", g) \in Notes
      BY <1>8, <1>10, <2>1, NotesIn
    <3>2. More(inbox', inbox, "post", g)
      BY <1>1, <3>1, InboxPosted
    <3>3. QueuedFor(inbox', "post", g) = 1
      BY <1>8, <3>2 DEF More, Posts
    <3>4. QED BY <2>1, <3>2, <3>3 DEF More
  <2>2. CASE c # "post"
    <3>1. inbox' = inbox \o <<>> /\ inbox \in Seq(Notes)
      BY <1>1, <1>8, <1>10, <2>2, QueuesAre DEF Post
    <3>2. inbox' = inbox
      BY <3>1
    <3>3. QED BY <1>8, <2>2, <3>2 DEF Posts
  <2>3. QED BY <2>1, <2>2
<1>13. Handled(g)'
  <2>1. Closing(g)' <=> c = "post"
    BY <1>4, <1>6, <1>7, <1>9 DEF Closing, In
  <2>2. Records(g)'
    BY <1>8, <1>10 DEF Records
  <2>3. Posts(g)' = IF c = "post" THEN 1 ELSE 0
    BY <1>12 DEF Posts
  <2>4. ~(In(g, "tune") /\ In(g, "rec"))'
    BY <1>4, <1>9, NotBoth
  <2>5. ASSUME NEW u \in Threads, In(g, u)'
        PROVE  IF h'[g][u].case = "recording" THEN progress'[g] \in Written ELSE progress'[g] = h'[g][u].case
    BY <1>4, <1>5, <1>6, <1>7, <1>8, <1>9, <1>10, <2>5
  <2>6. ASSUME "early" \notin odd', progress'[g] \in Written, ~Closing(g)' PROVE b25'[g]
    <3>1. c # "post" /\ c # "pre"
      BY <1>8, <1>10, <2>1, <2>6 DEF Written
    <3>2. b25[g]
      BY <1>1, <1>8, <1>10, <2>6 DEF Handled
    <3>3. QED BY <1>11, <3>1, <3>2
  <2>7. ASSUME NEW u \in Threads, h'[g][u].pc = "noticed", h'[g][u].case = "pre" PROVE b25'[g]
    <3>1. u = t
      BY <1>4, <1>9, <2>7 DEF In
    <3>2. QED BY <1>6, <1>7, <1>11, <2>7, <3>1
  <2>8. QED BY <1>8, <1>10, <2>1, <2>2, <2>3, <2>4, <2>5, <2>6, <2>7 DEF Handled
<1>14. \A k \in Groups : SameLooks(k) \/ k = g
  BY <1>7, <1>10, <1>11, <1>12 DEF SameLooks
<1>15. \A k \in Groups : SameHands(k)
  BY <1>10, <1>12, HandsStay
<1>16. Paired'
  BY <1>10, PairedStays, CalmIf DEF Sound
<1>17. QED BY <1>1, <1>13, <1>14, <1>15, <1>16, SoundIf

LEMMA SoundInLeave ==
  ASSUME Base, Sound, NEW g \in Groups, NEW t \in Threads, Leave(g, t)
  PROVE  Sound'
<1>1. LooksType /\ Handled(g) /\ odd' = odd
  BY WorldHas DEF Base, TypeInv, Sound, Leave, history
<1>2. h' = [h EXCEPT ![g][t] = Outside] /\ Outside.pc = "out"
  BY DEF Leave, Outside
<1>3. PICK o \in Threads : o # t /\ Threads = {t, o}
  BY OtherThread
<1>4. /\ h'[g][t] = Outside /\ h'[g][o] = h[g][o]
      /\ \A k \in Groups : k # g => h'[k] = h[k]
  BY <1>1, <1>2, <1>3, ThreadIs
<1>5. In(g, t)
  BY DEF Leave, In
<1>6. ~In(g, o) /\ ~In(g, o)' /\ ~In(g, t)'
  BY <1>1, <1>2, <1>3, <1>4, <1>5, OneInside DEF In
<1>7. UNCHANGED <<recordings, fiber, svcq, tuner, stream, inbox, b25>>
  BY DEF Leave, tables, service
<1>8. ~Closing(g)' /\ (Records(g)' <=> Records(g)) /\ Posts(g)' = Posts(g)
  BY <1>3, <1>6, <1>7 DEF Closing, In, Records, Posts
<1>9. ~(In(g, "tune") /\ In(g, "rec"))' /\ \A u \in Threads : ~In(g, u)'
  BY <1>3, <1>6, NotBoth
<1>10. \A u \in Threads : h'[g][u].pc # "noticed"
  BY <1>9 DEF In
<1>11. /\ Handled(g)'
       /\ \A k \in Groups : k # g => progress'[k] = progress[k]
  <2>1. CASE h[g][t].pc = "noticed" /\ progress' = [progress EXCEPT ![g] = AfterCase(h[g][t].case)]
    <3> DEFINE c == h[g][t].case
    <3>1. c \in {"pre", "success", "error", "post"}
      <4>1. h[g][t] \in Place /\ c # "recording" /\ c # "init"
        BY <1>1, <1>5, <2>1 DEF LooksType, Place
      <4>2. QED BY <4>1 DEF Place, Progress
    <3>2. /\ progress[g] = c
          /\ Closing(g) <=> c = "post"
          /\ ~Closing(g) => Records(g) /\ Posts(g) = 0
      BY <1>1, <1>5, <2>1, <3>1, Inside1
    <3>3. /\ progress'[g] = AfterCase(c)
          /\ \A k \in Groups : k # g => progress'[k] = progress[k]
      BY <1>1, <2>1 DEF LooksType
    <3>4. "early" \notin odd /\ c # "post" => b25[g]
      BY <1>1, <2>1, <3>2, <3>1 DEF Handled, Written
    <3> HIDE DEF c
    <3>5. CASE c = "post"
      <4>1. progress'[g] = "init"
        BY <3>3, <3>5 DEF AfterCase
      <4>2. Posts(g) # 0 => Records(g) /\ Posts(g) = 1
        BY <1>1 DEF Handled
      <4>3. Posts(g) = 0 => ~Records(g)
        BY <1>1, <3>2, <3>5 DEF Handled
      <4>4. QED BY <1>8, <1>9, <1>10, <3>3, <4>1, <4>2, <4>3 DEF Handled, Written
    <3>6. CASE c # "post"
      <4>1. progress'[g] # "init"
        BY <3>1, <3>3, <3>6 DEF AfterCase
      <4>2. Records(g) /\ Posts(g) = 0
        BY <3>2, <3>6
      <4>3. "early" \notin odd' => b25'[g]
        BY <1>1, <1>7, <3>4, <3>6
      <4>4. QED BY <1>8, <1>9, <1>10, <3>3, <4>1, <4>2, <4>3 DEF Handled
    <3>7. QED BY <3>5, <3>6
  <2>2. CASE h[g][t].pc = "work" /\ h[g][t].case = "recording" /\ UNCHANGED progress
    <3>1. ~Closing(g)
      BY <1>3, <1>6, <2>2 DEF Closing, In
    <3>2. QED BY <1>1, <1>7, <1>8, <1>9, <1>10, <2>2, <3>1 DEF Handled
  <2>3. QED BY <2>1, <2>2 DEF Leave
<1>12. \A k \in Groups : SameLooks(k) \/ k = g
  BY <1>4, <1>7, <1>11 DEF SameLooks
<1>13. \A k \in Groups : SameHands(k)
  BY <1>7, HandsStay
<1>14. Paired'
  BY <1>7, PairedStays, CalmIf DEF Sound
<1>15. QED BY <1>1, <1>11, <1>12, <1>13, <1>14, SoundIf

(* The end of a recording, and the breaks.                                  *)
LEMMA CloseGiven ==
  ASSUME WorldType, NEW g \in Groups, GiveBack(g)
  PROVE  /\ QueuedFor(svcq', "close", g) = QueuedFor(svcq, "close", g) + 1
         /\ \A x : x # g => QueuedFor(svcq', "close", x) = QueuedFor(svcq, "close", x)
         /\ \A x : QueuedFor(svcq', "tuning", x) = QueuedFor(svcq, "tuning", x)
<1>1. \A x : QueuedFor(svcq', "close", x) = QueuedFor(svcq, "close", x) + One(x = g)
  BY SvcqGiven
<1>2. \A x : QueuedFor(svcq, "close", x) \in Nat
  BY QueuesAre
<1>3. ASSUME NEW x, x # g PROVE QueuedFor(svcq', "close", x) = QueuedFor(svcq, "close", x)
  <2>1. One(x = g) = 0
    BY <1>3 DEF One
  <2>2. QueuedFor(svcq', "close", x) = QueuedFor(svcq, "close", x) + 0
    BY <1>1, <2>1
  <2>3. QueuedFor(svcq, "close", x) \in Nat
    BY <1>2
  <2>4. QED BY <2>2, <2>3
<1>4. QueuedFor(svcq', "close", g) = QueuedFor(svcq, "close", g) + 1
  <2>1. One(g = g) = 1
    BY DEF One
  <2>2. QED BY <1>1, <2>1
<1>5. \A x : QueuedFor(svcq', "tuning", x) = QueuedFor(svcq, "tuning", x)
  BY SvcqGiven
<1>6. QED BY <1>3, <1>4, <1>5

LEMMA OwnedGiven ==
  ASSUME WorldType, NEW g \in Groups, Owned(g), Held(g), GiveBack(g), UNCHANGED tuner,
         ~Begun(g)', ~Records(g)', ~Opened(g)', ~Fed(g)'
  PROVE  Owned(g)'
<1>1. tuner[g] = "mine" /\ Given(g) = 0
  BY DEF Owned
<1>2. Given(g)' = 1 /\ tuner'[g] = "mine"
  BY <1>1, CloseGiven DEF Given
<1>3. ~Held(g)'
  BY DEF Held
<1>4. QED BY <1>2, <1>3 DEF Owned

(* What is being tuned belongs to the start.                                *)
LEMMA TunedIsBegun ==
  ASSUME Base, NEW g \in Groups, ~Begun(g)
  PROVE  QueuedFor(inbox, "tuned", g) = 0 /\ QueuedFor(svcq, "tuning", g) = 0
<1>1. WorldType /\ TunesStarting /\ g # Starting
  BY DEF Base, TypeInv, Control, Begun
<1>2. TuneFor(g) = 0
  BY <1>1 DEF TunesStarting
<1>3. /\ QueuedFor(svcq, "tune", g) \in Nat /\ QueuedFor(svcq, "tuning", g) \in Nat
      /\ QueuedFor(inbox, "tuned", g) \in Nat /\ QueuedFor(inbox, "not_tuned", g) \in Nat
  BY <1>1, QueuesAre
<1>4. QueuedFor(svcq, "tune", g) + QueuedFor(svcq, "tuning", g)
        + QueuedFor(inbox, "tuned", g) + QueuedFor(inbox, "not_tuned", g) = 0
  BY <1>2 DEF TuneFor
<1>5. ASSUME NEW a \in Nat, NEW b \in Nat, NEW c \in Nat, NEW d \in Nat, a + b + c + d = 0
      PROVE  b = 0 /\ c = 0
  BY <1>5
<1>6. QED BY <1>3, <1>4, <1>5

LEMMA SoundInNotice ==
  ASSUME Base, Sound, OnNotice
  PROVE  Sound'
<1>1. WorldType /\ FiberType /\ recordings \in [Groups -> Entry({"now", "passed"})]
  BY DEF Base, TypeInv, DataType
<1>0. PICK g \in Groups : g = EventOf
  BY <1>1, EventIs DEF OnNotice
<1>2. Event("post") /\ Then(<<>>) /\ Ends(g) /\ GiveBack(g)
      /\ UNCHANGED <<fiber, h, progress, b25, tuner, stream, odd>>
  BY <1>0 DEF OnNotice, handler
<1>3. g \in Groups /\ More(inbox, inbox', "post", g)
  BY <1>0, <1>1, <1>2, InboxTaken
<1>4. Handled(g) /\ Owned(g)
  BY <1>3 DEF Sound
<1>5. /\ \A w \in {"start", "opened", "tuned"} : \A x : QueuedFor(inbox', w, x) = QueuedFor(inbox, w, x)
      /\ \A x : x # g => QueuedFor(inbox', "post", x) = QueuedFor(inbox, "post", x)
      /\ Posts(g) = Posts(g)' + 1
  BY <1>3 DEF More, Posts
<1>6. Posts(g)' \in Nat
  BY <1>3, QueuesCount DEF More, Posts
<1>7. Records(g) /\ Posts(g)' = 0 /\ (progress[g] = "init" \/ Closing(g))
  BY <1>4, <1>5, <1>6 DEF Handled
<1>8. /\ "now" \notin recordings'[g].flags
      /\ \A x \in Groups : x # g => recordings'[x] = recordings[x]
  BY <1>1, <1>2, <1>3, BlankIs DEF Ends
<1>9. Handled(g)'
  <2>1. ~Records(g)'
    BY <1>8 DEF Records
  <2>2. Closing(g)' <=> Closing(g)
    BY <1>2 DEF Closing
  <2>3. QED BY <1>2, <1>4, <1>7, <2>1, <2>2 DEF Handled, In
<1>10. \A x \in Groups : SameLooks(x) \/ x = g
  BY <1>2, <1>5, <1>8 DEF SameLooks
<1>11. /\ QueuedFor(svcq', "close", g) = QueuedFor(svcq, "close", g) + 1
       /\ \A x : x # g => QueuedFor(svcq', "close", x) = QueuedFor(svcq, "close", x)
       /\ \A x : QueuedFor(svcq', "tuning", x) = QueuedFor(svcq, "tuning", x)
  BY <1>1, <1>2, <1>3, CloseGiven
<1>12. \A x \in Groups : SameHands(x) \/ x = g
  BY <1>2, <1>5, <1>8, <1>11 DEF SameHands
<1>13. Owned(g)'
  <2>1. ~Begun(g) /\ ~Opened(g) /\ Held(g)
    BY <1>4, <1>7 DEF Owned, Held
  <2>2. ~Begun(g)' /\ ~Opened(g)' /\ ~Records(g)'
    BY <1>2, <1>5, <1>8, <2>1 DEF Begun, Opened, Records, Starting
  <2>3. Base
    OBVIOUS
  <2>4. QueuedFor(inbox, "tuned", g) = 0 /\ QueuedFor(svcq, "tuning", g) = 0
    BY <1>1, <1>3, <2>1, <2>3, TunedIsBegun
  <2>5. ~Fed(g)'
    BY <1>2, <1>5, <1>11, <2>1, <2>2, <2>4 DEF Fed, Begun, Starting
  <2>6. QED BY <1>1, <1>2, <1>3, <1>4, <2>1, <2>2, <2>5, OwnedGiven
<1>14. Paired'
  <2>1. Calm
    BY <1>2, CalmIf DEF Sound
  <2>2. QED BY <1>1, <1>2, <1>3, <2>1, PairedGiven DEF Sound
<1>15. QED BY <1>2, <1>9, <1>10, <1>12, <1>13, <1>14, SoundIf

LEMMA SoundInBreak ==
  ASSUME Base, Sound, OnStop \/ OnPatLost, "raced" \notin odd'
  PROVE  Sound'
<1>1. WorldType /\ LooksType
  BY WorldHas DEF Base, TypeInv
<1>0. PICK g \in Groups : g = EventOf
  BY <1>1, EventIs DEF OnStop, OnPatLost
<1>2. /\ UNCHANGED <<recordings, fiber, svcq, tuner, stream, b25>>
      /\ Then(<<>>)
      /\ Event("stop") \/ Event("pat_lost")
      /\ odd \subseteq odd'
  BY DEF OnStop, OnPatLost, tables, service, Breaks, Marks
<1>3. g \in Groups /\ SameIn(inbox', inbox)
  <2>1. CASE Event("stop")
    BY <1>1, <1>2, <2>1, InboxTaken, SameInIf
  <2>2. CASE Event("pat_lost")
    BY <1>1, <1>2, <2>2, InboxTaken, SameInIf
  <2>3. QED BY <1>2, <2>1, <2>2
<1>4. \A x \in Groups : SameHands(x)
  BY <1>2, <1>3, HandsStay DEF SameIn
<1>5. Paired'
  BY <1>2, PairedStays, CalmIf DEF Sound
<1>6. CASE UNCHANGED <<progress, h>>
  <2>1. \A x \in Groups : SameLooks(x)
    BY <1>2, <1>3, <1>6 DEF SameLooks, SameIn
  <2>2. QED BY <1>2, <1>4, <1>5, <2>1, SoundIf
<1>7. ASSUME NEW p \in {"error", "post"}, Records(g), Breaks(g, p), Scheduling,
             h' = h \/ h' = [h EXCEPT ![g]["rec"].pc = "call"]
      PROVE  Sound'
  <2>1. Handled(g)
    BY <1>3 DEF Sound
  <2>2. /\ progress[g] # "init" /\ (Inside(g, "tune") => h[g]["tune"].case = "recording")
        /\ "early" \notin odd' => (progress[g] = "pre" => Inside(g, "tune"))
    BY <1>7 DEF Breaks, Marks, Hits
  <2>3. ~Inside(g, "rec")
    BY <1>3, <1>7 DEF Scheduling
  <2>4. Threads = {"tune", "rec"}
    BY DEF Threads
  <2>5. ~Closing(g)
    BY <1>1, <1>3, <2>2, <2>3, <2>4 DEF Closing, Inside, LooksType
  <2>6. Posts(g) = 0
    BY <2>1, <2>2, <2>5 DEF Handled
  <2>7. /\ \A u \in Threads, k \in Groups : (k # g \/ u # "rec") => h'[k][u] = h[k][u]
        /\ h'[g]["rec"].pc \in {"out", "call"}
        /\ \A k \in Groups : k # g => h'[k] = h[k]
    <3>1. CASE h' = h
      BY <2>3, <3>1 DEF Inside
    <3>2. CASE h' = [h EXCEPT ![g]["rec"].pc = "call"]
      <4> DEFINE x == [h[g]["rec"] EXCEPT !.pc = "call"]
      <4>1. h \in [Groups -> [Threads -> Place]] /\ h[g]["rec"] \in Place
        BY <1>1, <1>3, <2>4 DEF LooksType, Place
      <4>2. h' = [h EXCEPT ![g]["rec"] = x] /\ x.pc = "call"
        BY <3>2, <4>1, <1>3, <2>4 DEF Place
      <4> HIDE DEF x
      <4>3. "rec" \in Threads
        BY <2>4
      <4>4. h' = [h EXCEPT ![g] = [h[g] EXCEPT !["rec"] = x]]
        BY <4>1, <4>2
      <4>5. h[g] \in [Threads -> Place] /\ h'[g] = [h[g] EXCEPT !["rec"] = x] /\ \A k \in Groups : k # g => h'[k] = h[k]
        BY <1>3, <4>1, <4>4
      <4>6. h'[g]["rec"] = x /\ \A u \in Threads : u # "rec" => h'[g][u] = h[g][u]
        BY <4>3, <4>5
      <4>7. QED BY <4>2, <4>5, <4>6
    <3>3. QED BY <1>7, <3>1, <3>2
  <2>8. progress'[g] = p /\ \A k \in Groups : k # g => progress'[k] = progress[k]
    BY <1>1, <1>3, <1>7 DEF Breaks, LooksType
  <2>9. "early" \notin odd' => b25[g]
    <3>1. SUFFICES ASSUME "early" \notin odd' PROVE b25[g]
      OBVIOUS
    <3>2. "early" \notin odd
      BY <1>2, <3>1
    <3>3. progress[g] \in Written
      <4>1. CASE In(g, "tune")
        BY <2>1, <2>2, <2>4, <4>1 DEF Handled, In, Inside
      <4>2. CASE ~In(g, "tune")
        <5>1. ~Inside(g, "tune")
          BY <1>1, <1>3, <2>4, <4>2 DEF LooksType, Inside, In
        <5>2. progress[g] # "pre" /\ progress[g] # "init" /\ progress[g] \in Progress
          BY <1>1, <1>3, <2>2, <3>1, <5>1 DEF LooksType
        <5>3. QED BY <5>2 DEF Progress, Written
      <4>3. QED BY <4>1, <4>2
    <3>4. QED BY <2>1, <2>5, <3>2, <3>3 DEF Handled
  <2>10. Handled(g)'
    <3>1. ~In(g, "rec")' /\ (In(g, "tune")' <=> In(g, "tune"))
      BY <1>3, <2>4, <2>7 DEF In
    <3>2. ~Closing(g)'
      BY <1>3, <2>4, <2>5, <2>7 DEF Closing
    <3>3. Records(g)' /\ Posts(g)' = 0
      BY <1>2, <1>3, <1>7, <2>6 DEF Records, Posts, SameIn
    <3>4. ASSUME NEW u \in Threads, In(g, u)'
          PROVE  h'[g][u].case = "recording" /\ progress'[g] \in Written
      <4>1. u = "tune" /\ In(g, "tune")
        BY <2>4, <3>1, <3>4
      <4>2. h[g]["tune"].case = "recording"
        BY <2>2, <4>1 DEF In, Inside
      <4>3. QED BY <1>3, <2>4, <2>7, <2>8, <1>7, <4>1, <4>2 DEF Written
    <3>5. \A u \in Threads : h'[g][u].pc # "noticed" \/ h'[g][u].case = "recording"
      BY <3>4 DEF In
    <3>6. b25' = b25
      BY <1>2
    <3>7. QED BY <1>7, <2>8, <2>9, <3>1, <3>2, <3>3, <3>4, <3>5, <3>6 DEF Handled
  <2>11. \A k \in Groups : SameLooks(k) \/ k = g
    BY <1>2, <1>3, <2>7, <2>8 DEF SameLooks, SameIn
  <2>12. QED BY <1>2, <1>4, <1>5, <2>10, <2>11, SoundIf
<1>8. CASE Records(g) /\ OnStop
  BY <1>0, <1>7, <1>8 DEF OnStop, Event, Records
<1>9. CASE Records(g) /\ OnPatLost
  BY <1>0, <1>7, <1>9 DEF OnPatLost, Event, Records
<1>10. CASE ~Records(g)
  BY <1>0, <1>6, <1>10 DEF OnStop, OnPatLost, Records
<1>11. QED BY <1>8, <1>9, <1>10

(* The start of a recording.  What is queued when it is over.               *)
Cleared(g) ==
  /\ \A x \in Groups : QueuedFor(inbox', "post", x) = QueuedFor(inbox, "post", x)
  /\ \A x \in Groups : x # g => /\ Starting # x
                                /\ \A w \in {"start", "opened", "tuned"} : QueuedFor(inbox', w, x) = QueuedFor(inbox, w, x)
  /\ \A w \in {"start", "opened", "tuned"} : QueuedFor(inbox', w, g) = 0
  /\ QueuedFor(svcq, "tuning", g) = 0

LEMMA NoneIs ==
  ASSUME NEW q \in Seq(Notes), NEW w, Queued(q, w) = 0, NEW g \in Groups
  PROVE  QueuedFor(q, w, g) = 0
<1>1. QueuedFor(q, w, g) <= Queued(q, w) /\ QueuedFor(q, w, g) \in Nat
  BY NoneFor, QueuesCount
<1>2. QED BY <1>1

LEMMA ClearedByTune ==
  ASSUME Base, NEW what \in {"tuned", "not_tuned"}, Event(what), Then(<<>>), NEW g, g = Starting
  PROVE  Cleared(g) /\ g \in Groups /\ At("start", "tune") /\ (what = "tuned" => QueuedFor(inbox, "tuned", g) # 0)
<1>1. WorldType /\ FiberType /\ Control
  BY DEF Base, TypeInv
<1>2. /\ At("start", "tune") /\ g \in Groups /\ EventOf = g
      /\ inbox' \in Seq(Notes)
      /\ Queued(inbox', "opened") = 0 /\ Queued(inbox', "start") = 0 /\ Queued(inbox', "tuned") = 0
      /\ Queued(svcq, "tuning") = 0
  BY <1>1, TuneAnswered
<1>3. More(inbox, inbox', what, g) /\ svcq \in Seq(Notes)
  BY <1>1, <1>2, InboxTaken, QueuesAre
<1>4. /\ \A w \in {"start", "opened", "tuned"} : QueuedFor(inbox', w, g) = 0
      /\ QueuedFor(svcq, "tuning", g) = 0
  BY <1>2, <1>3, NoneIs
<1>5. /\ \A x : QueuedFor(inbox', "post", x) = QueuedFor(inbox, "post", x)
      /\ \A x : x # g => \A w \in {"start", "opened", "tuned"} : QueuedFor(inbox', w, x) = QueuedFor(inbox, w, x)
  BY <1>3 DEF More
<1>6. what = "tuned" => QueuedFor(inbox, "tuned", g) # 0
  <2>1. QueuedFor(inbox, what, g) = QueuedFor(inbox', what, g) + 1
    BY <1>3 DEF More
  <2>2. QueuedFor(inbox', what, g) \in Nat
    BY <1>2, QueuesCount
  <2>3. QueuedFor(inbox, what, g) # 0
    BY <2>1, <2>2
  <2>4. QED BY <2>3
<1>7. QED BY <1>2, <1>4, <1>5, <1>6 DEF Cleared

LEMMA ClearedLater ==
  ASSUME Base, NEW g \in Groups, g = Starting, ~At("start", "tune"), UNCHANGED inbox
  PROVE  Cleared(g)
<1>1. WorldType /\ FiberType /\ Control
  BY DEF Base, TypeInv
<1>2. ~At("start", "sleep")
  BY <1>1, RecordingAssumption DEF FiberType
<1>3. /\ Queued(inbox, "opened") = 0 /\ Queued(inbox, "start") = 0 /\ Queued(inbox, "tuned") = 0
      /\ Queued(svcq, "tuning") = 0
  BY <1>1, <1>2, Busy
<1>4. inbox \in Seq(Notes) /\ svcq \in Seq(Notes)
  BY <1>1, QueuesAre
<1>5. /\ \A w \in {"start", "opened", "tuned"} : QueuedFor(inbox, w, g) = 0
      /\ QueuedFor(svcq, "tuning", g) = 0
  BY <1>3, <1>4, NoneIs
<1>6. QED BY <1>5 DEF Cleared

LEMMA ClearedByStart ==
  ASSUME Base, Event("start"), Then(<<>>), NEW g, g = EventOf
  PROVE  /\ Cleared(g) /\ g \in Groups /\ Begun(g)
         /\ \A x \in Groups : Starting # x
<1>1. WorldType /\ FiberType /\ Control
  BY DEF Base, TypeInv
<1>2. g \in Groups /\ More(inbox, inbox', "start", g)
  BY <1>1, EventIs, InboxTaken
<1>3. Queued(inbox, "start") = Queued(inbox', "start") + 1 /\ Queued(inbox', "start") \in Nat
  BY <1>2, QueuesCount DEF More
<1>4. At("start", "sleep") /\ At("check", "start") /\ Queued(inbox', "start") = 0
  BY <1>1, <1>3 DEF Control, StartOnce, One
<1>5. \A x \in Groups : Starting # x
  BY <1>1, <1>4, RecordingAssumption DEF FiberType
<1>6. /\ Queued(inbox, "opened") = 0 /\ Queued(inbox, "tuned") = 0 /\ Queued(svcq, "tuning") = 0
  <2>1. \A w : Queued(inbox, w) \in Nat /\ Queued(svcq, w) \in Nat
    BY <1>1, QueuesAre
  <2>2. Queued(svcq, "open") + Queued(inbox, "opened") = 0
    BY <1>1, <1>4 DEF Control, OpenOnce, One, At
  <2>3. Queued(svcq, "tune") + Queued(svcq, "tuning") + Queued(inbox, "tuned") + Queued(inbox, "not_tuned") = 0
    BY <1>1, <1>4 DEF Control, TuneOnce, One, At
  <2>4. ASSUME NEW a \in Nat, NEW b \in Nat, NEW c \in Nat, NEW d \in Nat, a + b + c + d = 0
        PROVE  b = 0 /\ c = 0
    BY <2>4
  <2>5. /\ Queued(svcq, "open") \in Nat /\ Queued(inbox, "opened") \in Nat
        /\ Queued(svcq, "tune") \in Nat /\ Queued(svcq, "tuning") \in Nat
        /\ Queued(inbox, "tuned") \in Nat /\ Queued(inbox, "not_tuned") \in Nat
    BY <2>1
  <2>6. Queued(inbox, "opened") = 0
    BY <2>2, <2>5
  <2>7. Queued(svcq, "tuning") = 0 /\ Queued(inbox, "tuned") = 0
    BY <2>3, <2>4, <2>5
  <2>8. QED BY <2>6, <2>7
<1>7. Queued(inbox', "opened") = 0 /\ Queued(inbox', "tuned") = 0 /\ inbox' \in Seq(Notes) /\ svcq \in Seq(Notes)
  BY <1>1, <1>2, <1>6, QueuesAre DEF More
<1>8. /\ \A w \in {"start", "opened", "tuned"} : QueuedFor(inbox', w, g) = 0
      /\ QueuedFor(svcq, "tuning", g) = 0
  BY <1>2, <1>4, <1>6, <1>7, NoneIs
<1>9. /\ \A x : QueuedFor(inbox', "post", x) = QueuedFor(inbox, "post", x)
      /\ \A x : x # g => \A w \in {"start", "opened", "tuned"} : QueuedFor(inbox', w, x) = QueuedFor(inbox, w, x)
      /\ QueuedFor(inbox, "start", g) = QueuedFor(inbox', "start", g) + 1
  BY <1>2 DEF More
<1>10. Begun(g)
  BY <1>8, <1>9 DEF Begun
<1>11. QED BY <1>2, <1>5, <1>8, <1>9, <1>10 DEF Cleared

(* A start that ends with the tuner given back.                             *)
LEMMA SoundInGiveUp ==
  ASSUME Base, Sound, NEW g \in Groups, Begun(g), Cleared(g), StartOver, GiveBack(g),
         UNCHANGED <<h, progress, b25, tuner, stream, odd>>,
         "now" \notin recordings'[g].flags, \A x \in Groups : x # g => recordings'[x] = recordings[x]
  PROVE  Sound'
<1>1. WorldType /\ FiberType
  BY DEF Base, TypeInv
<1>2. Owned(g) /\ Handled(g)
  BY DEF Sound
<1>3. ~Records(g) /\ ~Opened(g) /\ Held(g) /\ ~Records(g)'
  BY <1>2 DEF Owned, Held, Records
<1>4. fiber'["start"].g = NoGroup /\ fiber'["start"].pc = "sleep"
  BY <1>1, OverIs, AsleepIs
<1>5. /\ \A x : x # g => QueuedFor(svcq', "close", x) = QueuedFor(svcq, "close", x)
      /\ \A x : QueuedFor(svcq', "tuning", x) = QueuedFor(svcq, "tuning", x)
  BY <1>1, CloseGiven
<1>6. ~Begun(g)' /\ ~Opened(g)' /\ ~Fed(g)'
  <2>1. g # NoGroup
    BY RecordingAssumption
  <2>2. QED BY <1>3, <1>4, <1>5, <2>1 DEF Begun, Opened, Fed, Starting, Cleared
<1>7. Owned(g)'
  BY <1>1, <1>2, <1>3, <1>6, OwnedGiven
<1>8. ASSUME NEW x \in Groups, x # g PROVE SameHands(x)
  <2>1. x # NoGroup /\ fiber["start"].g # x
    BY <1>8, RecordingAssumption DEF Cleared, Starting
  <2>2. \A w \in {"start", "opened", "tuned"} : QueuedFor(inbox', w, x) = QueuedFor(inbox, w, x)
    BY <1>8 DEF Cleared
  <2>3. recordings'[x] = recordings[x] /\ tuner' = tuner /\ stream' = stream
    BY <1>8
  <2>4. QED BY <1>4, <1>5, <1>8, <2>1, <2>2, <2>3 DEF SameHands
<1>9. ASSUME NEW x \in Groups PROVE SameLooks(x)
  <2>1. CASE x = g
    BY <1>3, <2>1 DEF SameLooks, Records, Cleared
  <2>2. CASE x # g
    BY <2>2 DEF SameLooks, Cleared
  <2>3. QED BY <2>1, <2>2
<1>10. Paired'
  BY <1>1, PairedGiven, CalmIf DEF Sound
<1>11. QED BY <1>7, <1>8, <1>9, <1>10, SoundIf

LEMMA SoundInFails ==
  ASSUME Base, Sound, NEW g \in Groups, Begun(g), Cleared(g), StartFails(g),
         UNCHANGED <<h, progress, b25, tuner, stream, odd>>
  PROVE  Sound'
<1>1. recordings \in [Groups -> Entry({"now", "passed"})]
  BY DEF Base, TypeInv, DataType
<1>2. recordings' = [recordings EXCEPT ![g] = Blank] /\ StartOver /\ GiveBack(g)
  BY DEF StartFails, Ends
<1>3. "now" \notin recordings'[g].flags /\ \A x \in Groups : x # g => recordings'[x] = recordings[x]
  BY <1>1, <1>2, BlankIs
<1>4. QED BY <1>2, <1>3, SoundInGiveUp

(* A start that ends with the recording.                                    *)
LEMMA SoundInGo ==
  ASSUME Base, Sound, NEW g \in Groups, g = Starting, Cleared(g), Go(g), stream[g] # "off",
         UNCHANGED <<h, b25, tuner, stream, odd>>
  PROVE  Sound'
<1>1. WorldType /\ FiberType /\ LooksType /\ recordings \in [Groups -> Entry({"now", "passed"})]
  BY WorldHas DEF Base, TypeInv, DataType
<1>2. Begun(g) /\ Owned(g) /\ Handled(g)
  BY DEF Begun, Sound
<1>3. CASE progress[g] # "init"
  BY <1>2, <1>3, SoundInFails DEF Go
<1>4. CASE progress[g] = "init"
  <2>1. /\ progress' = [progress EXCEPT ![g] = "pre"]
        /\ recordings' = [recordings EXCEPT ![g].flags = @ \cup {"now"}]
        /\ StartOver /\ svcq' = svcq
    BY <1>4 DEF Go
  <2>2. /\ progress'[g] = "pre" /\ \A x \in Groups : x # g => progress'[x] = progress[x]
    BY <1>1, <2>1 DEF LooksType
  <2>3. /\ "now" \in recordings'[g].flags /\ recordings'[g].used = recordings[g].used
        /\ \A x \in Groups : x # g => recordings'[x] = recordings[x]
    BY <1>1, <2>1 DEF Entry
  <2>4. fiber'["start"].g = NoGroup /\ fiber'["start"].pc = "sleep"
    BY <1>1, <2>1, OverIs, AsleepIs
  <2>5. ~Records(g) /\ ~Opened(g) /\ recordings[g].used /\ tuner[g] = "mine" /\ Given(g) = 0
    BY <1>2 DEF Owned, Held
  <2>6. Posts(g) = 0
    BY <1>2, <2>5 DEF Handled
  <2>7. \A t \in Threads : ~In(g, t)
    <3>1. ASSUME NEW t \in Threads, In(g, t) PROVE FALSE
      <4>1. h[g][t].case # "init"
        BY <1>1, <3>1 DEF LooksType
      <4>2. QED BY <1>2, <1>4, <3>1, <4>1 DEF Handled, Written
    <3>2. QED BY <3>1
  <2>8. Handled(g)'
    <3>1. \A t \in Threads : ~In(g, t)'
      BY <2>7 DEF In
    <3>2. \A t \in Threads : h'[g][t].pc # "noticed"
      BY <3>1 DEF In
    <3>3. ~Closing(g)'
      BY <3>2 DEF Closing
    <3>4. Records(g)' /\ Posts(g)' = 0
      BY <2>3, <2>6 DEF Records, Posts, Cleared
    <3>5. "tune" \in Threads
      BY DEF Threads
    <3>6. QED BY <2>2, <3>1, <3>2, <3>3, <3>4, <3>5 DEF Handled, Written
  <2>9. Owned(g)'
    <3>1. g # NoGroup
      BY RecordingAssumption
    <3>2. ~Begun(g)' /\ ~Opened(g)' /\ Records(g)' /\ Given(g)' = 0
      BY <2>1, <2>3, <2>4, <2>5, <3>1 DEF Begun, Opened, Records, Given, Starting, Cleared
    <3>3. QED BY <2>3, <2>5, <3>2 DEF Owned, Held
  <2>10. ASSUME NEW x \in Groups, x # g PROVE SameHands(x)
    <3>1. x # NoGroup /\ fiber["start"].g # x
      BY <2>10, RecordingAssumption DEF Cleared, Starting
    <3>2. \A w \in {"start", "opened", "tuned"} : QueuedFor(inbox', w, x) = QueuedFor(inbox, w, x)
      BY <2>10 DEF Cleared
    <3>3. recordings'[x] = recordings[x] /\ tuner' = tuner /\ stream' = stream /\ svcq' = svcq
      BY <2>1, <2>3, <2>10
    <3>4. QED BY <2>4, <3>1, <3>2, <3>3 DEF SameHands
  <2>11. \A x \in Groups : SameLooks(x) \/ x = g
    BY <2>2, <2>3 DEF SameLooks, Cleared
  <2>12. Paired'
    BY <2>1, PairedStays, CalmIf DEF Sound
  <2>13. QED BY <2>8, <2>9, <2>10, <2>11, <2>12, SoundIf
<1>5. QED BY <1>3, <1>4

(* A start that goes on.                                                    *)
LEMMA SoundInMove ==
  ASSUME Base, Sound, NEW g \in Groups, g = Starting, Cleared(g),
         UNCHANGED <<h, progress, b25, recordings, tuner, stream, odd>>,
         fiber'["start"].g = g, Fed(g)' => stream[g] # "off",
         UNCHANGED svcq \/ svcq' = Append(svcq, On("tune", g))
  PROVE  Sound'
<1>1. WorldType
  BY DEF Base, TypeInv
<1>2. /\ \A x : /\ QueuedFor(svcq', "close", x) = QueuedFor(svcq, "close", x)
                /\ QueuedFor(svcq', "tuning", x) = QueuedFor(svcq, "tuning", x)
      /\ Paired'
  <2>1. Calm /\ Paired
    BY CalmIf DEF Sound
  <2>2. CASE UNCHANGED svcq
    BY <2>1, <2>2, PairedStays
  <2>3. CASE svcq' = Append(svcq, On("tune", g))
    <3>1. On("tune", g) \in Calls /\ On("tune", g) \in Notes /\ On("tune", g).what = "tune"
      BY OnIs, NotesIn DEF On
    <3>2. More(svcq', svcq, "tune", g)
      BY <1>1, <2>3, <3>1, SvcqPosted
    <3>3. Paired'
      BY <1>1, <2>1, <2>3, <3>1, PairedPosted
    <3>4. QED BY <3>2, <3>3 DEF More
  <2>4. QED BY <2>2, <2>3
<1>3. Owned(g)'
  <2>1. Owned(g) /\ Begun(g) /\ Begun(g)'
    BY DEF Sound, Begun, Starting
  <2>2. ~Records(g)' /\ ~Opened(g)' /\ Given(g)' = 0 /\ tuner'[g] = "mine" /\ recordings'[g].used
    BY <1>2, <2>1 DEF Owned, Held, Records, Opened, Given, Cleared
  <2>3. QED BY <2>1, <2>2 DEF Owned, Held
<1>4. ASSUME NEW x \in Groups, x # g PROVE SameHands(x)
  <2>1. fiber["start"].g # x /\ fiber'["start"].g # x
    BY <1>4 DEF Starting
  <2>2. \A w \in {"start", "opened", "tuned"} : QueuedFor(inbox', w, x) = QueuedFor(inbox, w, x)
    BY <1>4 DEF Cleared
  <2>3. QED BY <1>2, <2>1, <2>2 DEF SameHands
<1>5. \A x \in Groups : SameLooks(x)
  BY DEF SameLooks, Cleared
<1>6. QED BY <1>2, <1>3, <1>4, <1>5, SoundIf

LEMMA GoesOn ==
  ASSUME Base, NEW pc \in Pcs, Goes("start", pc)
  PROVE  fiber'["start"].pc = pc /\ fiber'["start"].g = Starting
<1>1. FiberType /\ "start" \in Fibers
  BY DEF Base, TypeInv, Fibers
<1>2. QED BY <1>1, GoesIs DEF Starting

LEMMA SoundInStart ==
  ASSUME Base, Sound,
         OnStart \/ ChannelAnswered \/ Tuned \/ NotTuned \/ EventAnswered \/ PauseOver \/ ForceAnswered
           \/ \E time \in EpgTimes : ReAdd(time)
  PROVE  Sound'
<1>1. WorldType /\ FiberType /\ recordings \in [Groups -> Entry({"now", "passed"})]
  BY DEF Base, TypeInv, DataType
<1>2. \A x \in Groups : Owned(x)
  BY DEF Sound
<1>3. CASE OnStart
  <2>1. PICK g : g = EventOf
    OBVIOUS
  <2>2. Event("start") /\ Then(<<>>) /\ UNCHANGED <<h, progress, b25, tuner, stream, odd>>
    BY <1>3 DEF OnStart, StartRest
  <2>3. g \in Groups /\ Cleared(g) /\ Begun(g) /\ \A x \in Groups : Starting # x
    BY <2>1, <2>2, ClearedByStart
  <2>4. CASE StartFails(g)
    BY <2>2, <2>3, <2>4, SoundInFails
  <2>5. CASE fiber' = [fiber EXCEPT !["start"] = [pc |-> "channel", g |-> g, n |-> 0]] /\ UNCHANGED <<recordings, svcq>>
    <3>1. fiber'["start"].g = g /\ fiber'["start"].pc = "channel"
      BY <1>1, <2>5, FibersAre
    <3>2. Owned(g) /\ ~Records(g) /\ ~Opened(g)
      BY <1>2, <2>3 DEF Owned
    <3>3. Begun(g)' /\ ~Records(g)' /\ ~Opened(g)' /\ ~Fed(g)'
      BY <2>3, <2>5, <3>1, <3>2 DEF Begun, Records, Opened, Fed, Starting, Cleared
    <3>4. Owned(g)'
      <4>1. Given(g)' = Given(g) /\ tuner' = tuner /\ recordings' = recordings
        BY <2>2, <2>5 DEF Given
      <4>2. recordings[g].used /\ tuner[g] = "mine" /\ Given(g) = 0
        BY <2>3, <3>2 DEF Owned, Held
      <4>3. QED BY <3>3, <4>1, <4>2 DEF Owned, Held
    <3>5. ASSUME NEW x \in Groups, x # g PROVE SameHands(x)
      <4>1. fiber["start"].g # x /\ fiber'["start"].g # x
        BY <2>3, <3>1, <3>5 DEF Starting
      <4>2. \A w \in {"start", "opened", "tuned"} : QueuedFor(inbox', w, x) = QueuedFor(inbox, w, x)
        BY <2>3, <3>5 DEF Cleared
      <4>3. QED BY <2>2, <2>5, <4>1, <4>2 DEF SameHands
    <3>6. \A x \in Groups : SameLooks(x)
      BY <2>2, <2>3, <2>5 DEF SameLooks, Cleared
    <3>7. Paired'
      BY <2>2, <2>5, PairedStays, CalmIf DEF Sound
    <3>8. QED BY <2>2, <3>4, <3>5, <3>6, <3>7, SoundIf
  <2>6. QED BY <1>3, <2>1, <2>4, <2>5 DEF OnStart
<1>4. PICK g : g = Starting
  OBVIOUS
<1>5. CASE Tuned \/ NotTuned
  <2>1. /\ Then(<<>>) /\ UNCHANGED <<h, b25, tuner, stream, odd>>
        /\ \/ Tuned /\ Event("tuned")
           \/ NotTuned /\ Event("not_tuned")
    BY <1>5 DEF Tuned, NotTuned, StartRest
  <2>2. Cleared(g) /\ g \in Groups /\ At("start", "tune") /\ (Tuned => QueuedFor(inbox, "tuned", g) # 0)
    <3>1. CASE Event("tuned")
      BY <1>4, <2>1, <3>1, ClearedByTune
    <3>2. CASE Event("not_tuned") /\ ~Event("tuned")
      BY <1>4, <2>1, <3>2, ClearedByTune DEF Tuned
    <3>3. QED BY <2>1, <3>1, <3>2
  <2>3. Begun(g)
    BY <1>4 DEF Begun
  <2>4. CASE NotTuned
    BY <1>4, <2>1, <2>2, <2>3, <2>4, SoundInFails DEF NotTuned
  <2>5. CASE Tuned
    <3>1. stream[g] # "off"
      BY <1>2, <2>2, <2>5 DEF Owned, Fed
    <3>2. CASE Go(g)
      BY <1>4, <2>1, <2>2, <3>1, <3>2, SoundInGo
    <3>3. CASE StartGoes("event") /\ UNCHANGED <<svcq, progress>>
      <4>1. fiber'["start"].g = g
        BY <1>4, <3>3, GoesOn DEF StartGoes, Pcs
      <4>2. QED BY <1>4, <2>1, <2>2, <3>1, <3>3, <4>1, SoundInMove DEF StartGoes
    <3>4. QED BY <1>4, <2>5, <3>2, <3>3 DEF Tuned
  <2>6. QED BY <1>5, <2>4, <2>5
<1>6. CASE ChannelAnswered \/ EventAnswered \/ PauseOver \/ ForceAnswered \/ \E time \in EpgTimes : ReAdd(time)
  <2>1. /\ UNCHANGED <<h, b25, tuner, stream, odd, inbox>>
        /\ ~At("start", "tune") /\ ~At("start", "sleep")
    BY <1>6 DEF ChannelAnswered, EventAnswered, PauseOver, ForceAnswered, ReAdd, StartRest, At, handler
  <2>2. g \in Groups
    BY <1>1, <1>4, <2>1, FibersAre
  <2>3. Cleared(g) /\ Begun(g)
    BY <1>4, <2>1, <2>2, ClearedLater DEF Begun
  <2>4. ASSUME StartFails(g), UNCHANGED progress PROVE Sound'
    BY <2>1, <2>2, <2>3, <2>4, SoundInFails
  <2>5. ~Records(g)
    BY <1>2, <2>2, <2>3 DEF Owned
  <2>6. CASE ChannelAnswered
    <3>1. UNCHANGED <<recordings, progress>>
      BY <2>6 DEF ChannelAnswered
    <3>2. CASE StartOver /\ GiveBack(g)
      BY <2>1, <2>2, <2>3, <2>5, <3>1, <3>2, SoundInGiveUp DEF Records
    <3>3. CASE Goes("start", "tune") /\ svcq' = Append(svcq, On("tune", g))
      <4>1. fiber'["start"].g = g /\ fiber'["start"].pc = "tune"
        BY <1>4, <3>3, GoesOn DEF Pcs
      <4>2. QueuedFor(svcq', "tuning", g) = 0
        <5>1. On("tune", g) \in Notes
          BY <2>2, NotesIn
        <5>2. More(svcq', svcq, "tune", g)
          BY <1>1, <3>3, <5>1, SvcqPosted
        <5>3. QED BY <2>3, <5>2 DEF More, Cleared
      <4>3. ~Fed(g)'
        BY <2>3, <2>5, <3>1, <4>1, <4>2 DEF Fed, Records, Starting, Cleared
      <4>4. QED BY <1>4, <2>1, <2>2, <2>3, <3>1, <3>3, <4>1, <4>3, SoundInMove
    <3>4. QED BY <1>4, <2>6, <3>2, <3>3 DEF ChannelAnswered
  <2>7. ASSUME fiber["start"].pc \in {"event", "pause", "force", "readd"} PROVE stream[g] # "off"
    BY <1>2, <1>4, <2>2, <2>7 DEF Owned, Fed
  <2>8. ASSUME NEW pc \in Pcs, Goes("start", pc), UNCHANGED <<recordings, svcq, progress>>, stream[g] # "off" PROVE Sound'
    <3>1. fiber'["start"].g = g
      BY <1>4, <2>8, GoesOn
    <3>2. QED BY <1>4, <2>1, <2>2, <2>3, <2>8, <3>1, SoundInMove
  <2>9. CASE EventAnswered
    <3>1. stream[g] # "off"
      BY <2>7, <2>9 DEF EventAnswered, At
    <3>2. CASE Go(g)
      BY <1>4, <2>1, <2>2, <2>3, <3>1, <3>2, SoundInGo
    <3>3. CASE (StartGoes("force") \/ StartGoes("pause")) /\ UNCHANGED <<svcq, progress>>
      BY <2>8, <3>1, <3>3 DEF StartGoes, Pcs
    <3>4. QED BY <1>4, <2>9, <3>2, <3>3 DEF EventAnswered
  <2>10. CASE PauseOver
    <3>1. stream[g] # "off" /\ UNCHANGED progress
      BY <2>7, <2>10 DEF PauseOver, At
    <3>2. CASE fiber' = [fiber EXCEPT !["start"].pc = "event", !["start"].n = @ + 1] /\ UNCHANGED <<recordings, svcq>>
      <4>1. fiber'["start"].g = g
        BY <1>1, <1>4, <3>2, FibersAre DEF FiberSet, Starting
      <4>2. QED BY <1>4, <2>1, <2>2, <2>3, <3>1, <3>2, <4>1, SoundInMove
    <3>3. QED BY <1>4, <2>4, <2>10, <3>1, <3>2 DEF PauseOver
  <2>11. CASE ForceAnswered
    <3>1. stream[g] # "off" /\ UNCHANGED progress
      BY <2>7, <2>11 DEF ForceAnswered, At
    <3>2. QED BY <1>4, <2>4, <2>8, <2>11, <3>1 DEF ForceAnswered, StartGoes, Pcs
  <2>12. ASSUME NEW time \in EpgTimes, ReAdd(time) PROVE Sound'
    <3>1. UNCHANGED progress
      BY <2>12 DEF ReAdd, handler
    <3>2. CASE StartOver /\ GiveBack(g) /\ recordings' = [recordings EXCEPT ![g] = Blank]
      <4>1. "now" \notin recordings'[g].flags /\ \A x \in Groups : x # g => recordings'[x] = recordings[x]
        BY <1>1, <2>2, <3>2, BlankIs
      <4>2. QED BY <2>1, <2>2, <2>3, <3>1, <3>2, <4>1, SoundInGiveUp
    <3>3. QED BY <1>4, <2>4, <2>12, <3>1, <3>2 DEF ReAdd
  <2>13. QED BY <1>6, <2>6, <2>9, <2>10, <2>11, <2>12
<1>7. QED BY <1>3, <1>5, <1>6

(* The answer to open.                                                      *)
LEMMA PickedIs ==
  ASSUME Base, NEW g \in Groups, Requested(reserves) # {}, Pick(g)
  PROVE  /\ recordings'[g].used /\ "now" \notin recordings'[g].flags
         /\ \A x \in Groups : x # g => recordings'[x] = recordings[x]
<1>1. reserves \in [Slots -> Entry({"req", "passed"})] /\ recordings \in [Groups -> Entry({"now", "passed"})]
  BY DEF Base, TypeInv, DataType
<1> DEFINE i == Least(Requested(reserves))
           r == [reserves[i] EXCEPT !.flags = @ \ {"req"}]
<1>2. i \in Slots /\ reserves[i].used
  <2>1. Requested(reserves) \in SUBSET Slots
    BY DEF Requested
  <2>2. i \in Requested(reserves)
    BY <2>1, LeastIs
  <2>3. QED BY <2>2 DEF Requested
<1>3. recordings' = [recordings EXCEPT ![g] = r]
  BY DEF Pick
<1> HIDE DEF i
<1>4. r.used /\ "now" \notin r.flags
  <2>1. reserves[i] \in Entry({"req", "passed"})
    BY <1>1, <1>2
  <2>2. QED BY <1>2, <2>1 DEF Entry
<1> HIDE DEF r
<1>5. QED BY <1>1, <1>3, <1>4

LEMMA SoundInOpenAnswered ==
  ASSUME Base, Sound, OpenAnswered
  PROVE  Sound'
<1>1. WorldType /\ FiberType /\ Control
  BY DEF Base, TypeInv
<1>0. PICK g : g = EventOf
  OBVIOUS
<1>2. Event("opened") /\ UNCHANGED <<h, progress, b25, svcq, tuner, stream>>
  BY DEF OpenAnswered, handler, service
<1>3. /\ inbox # <<>> /\ inbox \in Seq(Notes) /\ Tail(inbox) \in Seq(Notes)
      /\ Head(inbox).what = "opened" /\ Head(inbox).g = g /\ g \in Groups \cup {NoGroup}
  BY <1>0, <1>1, <1>2, QueuesAre, EventIs DEF EventOf
<1> DEFINE q == Tail(inbox)
<1>4. More(inbox, q, "opened", g)
  BY <1>3, Taken
<1>5. At("start", "sleep") /\ Queued(q, "opened") = 0
  BY <1>1, <1>2, OpenedIs
<1>6. fiber["start"].g = NoGroup
  BY <1>1, <1>5 DEF FiberType, Starting
<1>7. q \in Seq(Notes)
  BY <1>3
<1> HIDE DEF q
<1>8. \A w, x : w # "opened" => QueuedFor(q, w, x) = QueuedFor(inbox, w, x)
  BY <1>4 DEF More
<1>9. \A x : x # g => QueuedFor(q, "opened", x) = QueuedFor(inbox, "opened", x)
  BY <1>4 DEF More
<1>10. \A x \in Groups : QueuedFor(q, "opened", x) = 0
  BY <1>5, <1>7, NoneIs
<1>11. ASSUME g \in Groups
       PROVE  /\ Opened(g) /\ ~Begun(g) /\ ~Records(g) /\ tuner[g] = "mine" /\ Given(g) = 0
              /\ QueuedFor(inbox, "tuned", g) = 0 /\ QueuedFor(svcq, "tuning", g) = 0
  <2>1. QueuedFor(inbox, "opened", g) = QueuedFor(q, "opened", g) + 1
    BY <1>4 DEF More
  <2>2. Opened(g)
    BY <1>10, <1>11, <2>1 DEF Opened
  <2>3. ~Begun(g) /\ ~Records(g) /\ tuner[g] = "mine" /\ Given(g) = 0
    BY <1>11, <2>2 DEF Sound, Owned, Held
  <2>4. QED BY <1>11, <2>2, <2>3, TunedIsBegun
<1>12. Paired'
  BY <1>2, PairedStays, CalmIf DEF Sound
<1>13. CASE Marks(IF g = NoGroup THEN {} ELSE {"leak"}) /\ Goes("check", "sleep") /\ Then(<<>>) /\ UNCHANGED recordings
  <2>1. inbox' = q
    BY <1>1, <1>3, <1>13, TakenIs DEF q
  <2>2. fiber'["start"] = fiber["start"]
    BY <1>1, <1>13, GoesIs, FibersAre DEF Pcs
  <2>3. odd \subseteq odd' /\ (g \in Groups => "leak" \in odd')
    BY <1>13, RecordingAssumption DEF Marks
  <2>4. ASSUME NEW x \in Groups PROVE SameLooks(x)
    BY <1>2, <1>8, <1>13, <2>1 DEF SameLooks
  <2>5. ASSUME NEW x \in Groups, x # g PROVE SameHands(x)
    <3>1. QueuedFor(inbox', "opened", x) = QueuedFor(inbox, "opened", x)
      BY <1>9, <2>1, <2>5
    <3>2. \A w \in {"start", "tuned"} : QueuedFor(inbox', w, x) = QueuedFor(inbox, w, x)
      BY <1>8, <2>1
    <3>3. QED BY <1>2, <1>13, <2>2, <3>1, <3>2 DEF SameHands
  <2>6. ASSUME g \in Groups PROVE Owned(g)'
    <3>1. ~Opened(g)' /\ ~Begun(g)' /\ ~Records(g)'
      BY <1>8, <1>10, <1>11, <1>13, <2>1, <2>2, <2>6 DEF Opened, Begun, Records, Starting
    <3>2. ~Fed(g)'
      <4>1. QueuedFor(inbox', "tuned", g) = 0 /\ QueuedFor(svcq', "tuning", g) = 0
        BY <1>2, <1>8, <1>11, <2>1, <2>6
      <4>2. QED BY <3>1, <4>1 DEF Fed, Begun
    <3>3. Given(g)' = 0
      BY <1>2, <1>11, <2>6 DEF Given
    <3>4. QED BY <2>3, <2>6, <3>1, <3>2, <3>3 DEF Owned, Held
  <2>7. \A x \in Groups : SameHands(x) \/ Owned(x)'
    BY <2>5, <2>6
  <2>8. QED BY <1>12, <2>3, <2>4, <2>7, SoundIf
<1>14. CASE g # NoGroup /\ Requested(reserves) # {} /\ Pick(g)
  <2>1. g \in Groups
    BY <1>3, <1>14
  <2>2. /\ recordings'[g].used /\ "now" \notin recordings'[g].flags
        /\ \A x \in Groups : x # g => recordings'[x] = recordings[x]
    BY <1>14, <2>1, PickedIs
  <2> DEFINE e == On("start", g)
  <2>3. inbox' = q \o <<e>> /\ odd' = odd /\ Goes("check", "start")
    BY <1>14 DEF Pick, Then, q
  <2>4. e \in Notes /\ e.what = "start" /\ e.g = g
    BY <2>1, NotesIn DEF On
  <2> HIDE DEF e
  <2>5. More(inbox', q, "start", g)
    BY <1>7, <2>3, <2>4, Posted
  <2>6. fiber'["start"] = fiber["start"]
    BY <1>1, <2>3, GoesIs, FibersAre DEF Pcs
  <2>7. /\ \A w, x : w # "start" => QueuedFor(inbox', w, x) = QueuedFor(q, w, x)
        /\ \A w, x : x # g => QueuedFor(inbox', w, x) = QueuedFor(q, w, x)
        /\ QueuedFor(inbox', "start", g) = QueuedFor(q, "start", g) + 1
    BY <2>5 DEF More
  <2>8. QueuedFor(inbox', "start", g) # 0
    <3>1. QueuedFor(q, "start", g) \in Nat
      BY <1>7, QueuesCount
    <3>2. QED BY <2>7, <3>1
  <2>9. ASSUME NEW x \in Groups PROVE SameLooks(x)
    <3>1. QueuedFor(inbox', "post", x) = QueuedFor(inbox, "post", x)
      BY <1>8, <2>7
    <3>2. "now" \in recordings'[x].flags <=> "now" \in recordings[x].flags
      <4>1. CASE x = g
        BY <1>11, <2>2, <4>1 DEF Records
      <4>2. CASE x # g
        BY <2>2, <4>2
      <4>3. QED BY <4>1, <4>2
    <3>3. QED BY <1>2, <3>1, <3>2 DEF SameLooks
  <2>10. ASSUME NEW x \in Groups, x # g PROVE SameHands(x)
    <3>1. QueuedFor(inbox', "opened", x) = QueuedFor(inbox, "opened", x)
      BY <1>9, <2>7, <2>10
    <3>2. \A w \in {"start", "tuned"} : QueuedFor(inbox', w, x) = QueuedFor(inbox, w, x)
      BY <1>8, <2>7, <2>10
    <3>3. recordings'[x] = recordings[x]
      BY <2>2, <2>10
    <3>4. QED BY <1>2, <2>6, <3>1, <3>2, <3>3 DEF SameHands
  <2>11. Owned(g)'
    <3>1. ~Opened(g)' /\ Begun(g)' /\ ~Records(g)'
      BY <1>10, <2>1, <2>2, <2>7, <2>8 DEF Opened, Begun, Records
    <3>2. ~Fed(g)'
      <4>1. QueuedFor(inbox', "tuned", g) = 0 /\ QueuedFor(svcq', "tuning", g) = 0
        BY <1>2, <1>8, <1>11, <2>1, <2>7
      <4>2. fiber'["start"].g # g
        BY <1>14, <1>6, <2>6
      <4>3. QED BY <3>1, <4>1, <4>2 DEF Fed, Starting
    <3>3. Given(g)' = 0 /\ tuner'[g] = "mine"
      BY <1>2, <1>11, <2>1 DEF Given
    <3>4. QED BY <2>2, <3>1, <3>2, <3>3 DEF Owned, Held
  <2>12. \A x \in Groups : SameHands(x) \/ Owned(x)'
    BY <2>10, <2>11
  <2>13. QED BY <1>12, <2>3, <2>9, <2>12, SoundIf
<1>15. QED BY <1>0, <1>13, <1>14 DEF OpenAnswered

(* The loop ends recordings whose time is over.                             *)
LEMMA HandledAtEnd ==
  ASSUME LooksType, Scheduling, NEW g \in Groups, Handled(g), AtEnd(g), Hits(g) \subseteq odd', "raced" \notin odd',
         odd \subseteq odd', UNCHANGED <<recordings, b25, h>>, progress'[g] = "success",
         QueuedFor(inbox', "post", g) = QueuedFor(inbox, "post", g)
  PROVE  Handled(g)'
<1>1. progress[g] = "recording" /\ Records(g)
  BY DEF AtEnd, InProgress, Records
<1>2. Inside(g, "tune") => h[g]["tune"].case = "recording"
  BY DEF Hits
<1>3. ~Inside(g, "rec")
  BY DEF Scheduling
<1>4. Threads = {"tune", "rec"}
  BY DEF Threads
<1>5. ~Closing(g)
  BY <1>2, <1>3, <1>4 DEF Closing, Inside
<1>6. Posts(g) = 0 /\ ("early" \notin odd => b25[g])
  BY <1>1, <1>5 DEF Handled, Written
<1>7. h' = h /\ b25' = b25
  OBVIOUS
<1>8. Records(g)' /\ Posts(g)' = 0 /\ ~Closing(g)'
  BY <1>1, <1>5, <1>6 DEF Records, Posts, Closing
<1>9. \A t \in Threads : In(g, t) => t = "tune" /\ h[g][t].case = "recording"
  BY <1>2, <1>3, <1>4 DEF In, Inside
<1>10. \A t \in Threads : In(g, t)' => h'[g][t].case = "recording" /\ t = "tune"
  BY <1>7, <1>9 DEF In
<1>11. ~(In(g, "tune") /\ In(g, "rec"))'
  BY <1>4, <1>10
<1>12. \A t \in Threads : h'[g][t].pc = "noticed" => h'[g][t].case # "pre"
  BY <1>10 DEF In
<1>13. QED BY <1>6, <1>7, <1>8, <1>10, <1>11, <1>12 DEF Handled, Written

LEMMA SoundInCheckLoop ==
  ASSUME Base, Sound, CheckLoop, "raced" \notin odd'
  PROVE  Sound'
<1>1. WorldType /\ FiberType /\ LooksType
  BY WorldHas DEF Base, TypeInv
<1>2. Scheduling /\ UNCHANGED <<recordings, b25, h, tuner, stream>>
  BY DEF CheckLoop
<1>3. progress' = [x \in Groups |-> IF AtEnd(x) THEN "success" ELSE progress[x]]
  BY DEF CheckLoop
<1>4. odd' = odd \cup UNION {Hits(x) : x \in {y \in Groups : AtEnd(y)}}
  BY DEF CheckLoop, Marks
<1>5. SameIn(inbox', inbox)
  <2>1. CASE UNCHANGED inbox
    BY <2>1 DEF SameIn
  <2>2. ASSUME NEW x \in Stoppable, Post(<<On("stop", x)>>) PROVE SameIn(inbox', inbox)
    <3>1. x \in Groups
      BY DEF Stoppable
    <3>2. On("stop", x) \in Notes
      BY <3>1, NotesIn
    <3>3. More(inbox', inbox, "stop", x)
      BY <1>1, <2>2, <3>2, InboxPosted
    <3>4. QED BY <3>3, SameInIf
  <2>3. QED BY <2>1, <2>2 DEF CheckLoop
<1>6. fiber'["start"] = fiber["start"]
  <2>1. CASE Goes("check", "open")
    BY <1>1, <2>1, GoesIs, FibersAre DEF Pcs
  <2>2. QED BY <2>1 DEF CheckLoop
<1>7. /\ Paired'
      /\ \A x : /\ QueuedFor(svcq', "close", x) = QueuedFor(svcq, "close", x)
                /\ QueuedFor(svcq', "tuning", x) = QueuedFor(svcq, "tuning", x)
  <2>1. Calm /\ Paired
    BY <1>2, CalmIf DEF Sound
  <2>2. CASE UNCHANGED svcq
    BY <2>1, <2>2, PairedStays
  <2>3. CASE svcq' = Append(svcq, On("open", NoGroup))
    <3>1. On("open", NoGroup) \in Calls /\ On("open", NoGroup) \in Notes /\ On("open", NoGroup).what = "open"
      BY NotesIn DEF On, Calls
    <3>2. More(svcq', svcq, "open", NoGroup)
      BY <1>1, <2>3, <3>1, SvcqPosted
    <3>3. Paired'
      BY <1>1, <2>1, <2>3, <3>1, PairedPosted
    <3>4. QED BY <3>2, <3>3 DEF More
  <2>4. QED BY <2>2, <2>3 DEF CheckLoop
<1>8. \A x : \A w \in {"post", "start", "opened", "tuned"} : QueuedFor(inbox', w, x) = QueuedFor(inbox, w, x)
  BY <1>5 DEF SameIn
<1>9. ASSUME NEW x \in Groups PROVE SameHands(x)
  BY <1>2, <1>6, <1>7, <1>8 DEF SameHands
<1>10. ASSUME NEW x \in Groups PROVE SameLooks(x) \/ Handled(x)'
  <2>1. CASE AtEnd(x)
    <3>1. Hits(x) \subseteq odd' /\ odd \subseteq odd'
      BY <1>4, <2>1
    <3>2. progress'[x] = "success"
      BY <1>3, <2>1
    <3>3. Handled(x)
      BY DEF Sound
    <3>4. QED BY <1>1, <1>2, <1>8, <2>1, <3>1, <3>2, <3>3, HandledAtEnd
  <2>2. CASE ~AtEnd(x)
    BY <1>2, <1>3, <1>8, <2>2 DEF SameLooks
  <2>3. QED BY <2>1, <2>2
<1>11. odd \subseteq odd'
  BY <1>4
<1>12. QED BY <1>7, <1>9, <1>10, <1>11, SoundIf

(* The streams and the other clients.                                       *)
LEMMA OpenedIsHeld ==
  ASSUME WorldType, Sound, NEW g \in Groups, tuner[g] # "mine"
  PROVE  ~Held(g) /\ ~Records(g) /\ ~Begun(g) /\ ~Opened(g) /\ Given(g) = 0
BY DEF Sound, Owned, Held

LEMMA NotFed ==
  ASSUME Base, NEW g \in Groups, ~Begun(g), ~Records(g)
  PROVE  ~Fed(g)
<1>1. QueuedFor(inbox, "tuned", g) = 0 /\ QueuedFor(svcq, "tuning", g) = 0
  BY TunedIsBegun
<1>2. QED BY <1>1 DEF Fed, Begun

(* The request that comes first counts.                                     *)
LEMMA HeadCounts ==
  ASSUME WorldType, NEW what, First(what)
  PROVE  QueuedFor(svcq, what, Head(svcq).g) # 0
<1>1. More(svcq, Tail(svcq), what, Head(svcq).g)
  BY SvcqTaken
<1>2. QueuedFor(Tail(svcq), what, Head(svcq).g) \in Nat
  BY <1>1, QueuesCount DEF More
<1>3. QED BY <1>1, <1>2 DEF More

LEMMA CalmWhere ==
  ASSUME WorldType, Sound, NEW g, UNCHANGED svcq, \A x \in Groups : x # g => stream'[x] = stream[x],
         (g \in Groups /\ Given(g) = 0) \/ stream'[g] = "off"
  PROVE  Paired'
<1>1. Paired
  BY DEF Sound
<1>2. ASSUME First("close") PROVE stream'[Head(svcq).g] = "off"
  <2>1. Head(svcq).g \in Groups
    BY <1>2, CallIs
  <2>2. stream[Head(svcq).g] = "off"
    BY <1>1, <1>2 DEF Paired
  <2>3. Given(Head(svcq).g) # 0
    BY <1>2, HeadCounts DEF Given
  <2>4. QED BY <2>1, <2>2, <2>3
<1>3. QED BY <1>1, <1>2, PairedStays DEF Calm

LEMMA SoundInWorld ==
  ASSUME Base, Sound, NEW g \in Groups, StreamDries(g) \/ OtherOpens(g) \/ OtherCloses(g)
  PROVE  Sound'
<1>1. WorldType
  BY DEF Base, TypeInv
<1>2. \A x \in Groups : Handled(x) /\ Owned(x)
  BY DEF Sound
<1>3. /\ UNCHANGED <<recordings, fiber, h, progress, b25, svcq, odd>>
      /\ UNCHANGED inbox \/ Post(<<On("pat_lost", g)>>)
  BY DEF StreamDries, OtherOpens, OtherCloses, ServiceOnly, tables, handler, history
<1>4. SameIn(inbox', inbox)
  <2>1. CASE UNCHANGED inbox
    BY <2>1 DEF SameIn
  <2>2. CASE Post(<<On("pat_lost", g)>>)
    <3>1. On("pat_lost", g) \in Notes
      BY NotesIn
    <3>2. More(inbox', inbox, "pat_lost", g)
      BY <1>1, <2>2, <3>1, InboxPosted
    <3>3. QED BY <3>2, SameInIf
  <2>3. QED BY <1>3, <2>1, <2>2
<1>5. \A x : \A w \in {"post", "start", "opened", "tuned"} : QueuedFor(inbox', w, x) = QueuedFor(inbox, w, x)
  BY <1>4 DEF SameIn
<1>6. \A x \in Groups : SameLooks(x)
  BY <1>3, <1>5 DEF SameLooks
<1>7. \A x \in Groups : x # g => stream'[x] = stream[x] /\ tuner'[x] = tuner[x]
  <2>1. stream \in [Groups -> {"off", "tuning", "on", "silent"}] /\ tuner \in [Groups -> {"free", "mine", "other"}]
    BY <1>1 DEF WorldType
  <2>2. QED BY <2>1 DEF StreamDries, OtherOpens, OtherCloses, StreamStops
<1>8. ASSUME NEW x \in Groups, x # g PROVE SameHands(x)
  BY <1>3, <1>5, <1>7, <1>8 DEF SameHands
<1>9. stream \in [Groups -> {"off", "tuning", "on", "silent"}] /\ tuner \in [Groups -> {"free", "mine", "other"}]
  BY <1>1 DEF WorldType
<1>10. CASE StreamDries(g)
  <2>1. stream'[g] = "silent" /\ stream[g] # "off" /\ tuner'[g] = tuner[g]
    BY <1>9, <1>10 DEF StreamDries
  <2>2. SameHands(g)
    BY <1>3, <1>5, <2>1 DEF SameHands
  <2>3. Paired'
    <3>1. Paired /\ svcq' = svcq
      BY <1>3 DEF Sound
    <3>2. Calm
      <4>1. SUFFICES ASSUME First("close") PROVE stream'[Head(svcq).g] = "off"
        BY DEF Calm
      <4>2. Head(svcq).g \in Groups /\ stream[Head(svcq).g] = "off"
        BY <1>1, <3>1, <4>1, CallIs DEF Paired
      <4>3. Head(svcq).g # g
        BY <2>1, <4>2
      <4>4. QED BY <1>7, <4>2, <4>3
    <3>3. QED BY <3>1, <3>2, PairedStays
  <2>4. QED BY <1>3, <1>6, <1>8, <2>2, <2>3, SoundIf
<1>11. CASE OtherOpens(g) \/ OtherCloses(g)
  <2>1. tuner[g] # "mine" /\ tuner'[g] # "mine" /\ (OtherCloses(g) => stream'[g] = "off")
    BY <1>9, <1>11 DEF OtherOpens, OtherCloses, StreamStops
  <2>2. ~Records(g) /\ ~Begun(g) /\ ~Opened(g) /\ Given(g) = 0
    BY <1>1, <2>1, OpenedIsHeld
  <2>3. ~Fed(g)
    BY <2>2, NotFed
  <2>4. /\ ~Records(g)' /\ ~Begun(g)' /\ ~Opened(g)' /\ Given(g)' = 0
        /\ Fed(g)' <=> Fed(g)
    BY <1>3, <1>5, <2>2 DEF Records, Begun, Opened, Given, Fed, Starting
  <2>5. Owned(g)'
    BY <2>1, <2>3, <2>4 DEF Owned, Held
  <2>6. Paired'
    BY <1>1, <1>3, <1>7, <2>2, CalmWhere
  <2>7. QED BY <1>3, <1>6, <1>8, <2>5, <2>6, SoundIf
<1>12. QED BY <1>10, <1>11

(* tuner_service.                                                           *)
LEMMA FirstCounts ==
  ASSUME NEW q \in Seq(Notes), q # <<>>
  PROVE  QueuedFor(q, Head(q).what, Head(q).g) # 0
<1>1. More(q, Tail(q), Head(q).what, Head(q).g)
  BY Taken
<1>2. QueuedFor(Tail(q), Head(q).what, Head(q).g) \in Nat
  BY <1>1, QueuesCount DEF More
<1>3. QED BY <1>1, <1>2 DEF More

(* A request that is taken and is not one to stop.                          *)
LEMMA PairedTaken ==
  ASSUME WorldType, Paired, svcq # <<>>, Head(svcq).what # "tune_stop", svcq' = Tail(svcq)
  PROVE  Paired'
<1>1. svcq \in Seq(Calls) /\ Pairs(svcq)
  BY DEF WorldType, Paired
<1>2. /\ Pairs(svcq')
      /\ svcq' # <<>> /\ Head(svcq').what = "close" => Head(svcq) = On("tune_stop", Head(svcq').g)
  BY <1>1, PairsTail
<1>3. ~(First("close"))'
  BY <1>2 DEF First, On
<1>4. QED BY <1>2, <1>3 DEF Paired

(* What tuner_service leaves alone.                                         *)
LEMMA ServiceLooks ==
  ASSUME ServiceOnly, NEW g \in Groups, QueuedFor(inbox', "post", g) = QueuedFor(inbox, "post", g)
  PROVE  SameLooks(g) /\ odd' = odd
BY DEF ServiceOnly, SameLooks, tables, handler, history

LEMMA ServiceHands ==
  ASSUME ServiceOnly, NEW g \in Groups, tuner'[g] = tuner[g], stream[g] # "off" => stream'[g] # "off",
         \A w \in {"start", "opened", "tuned"} : QueuedFor(inbox', w, g) = QueuedFor(inbox, w, g),
         \A w \in {"tuning", "close"} : QueuedFor(svcq', w, g) = QueuedFor(svcq, w, g)
  PROVE  SameHands(g)
BY DEF ServiceOnly, SameHands, tables

LEMMA SoundInOpens ==
  ASSUME Base, Sound, ServiceOpens
  PROVE  Sound'
<1>1. WorldType /\ tuner \in [Groups -> {"free", "mine", "other"}]
  BY DEF Base, TypeInv, WorldType
<1>2. First("open") /\ svcq' = Tail(svcq) /\ ServiceOnly /\ UNCHANGED stream
  BY DEF ServiceOpens
<1>3. More(svcq, svcq', "open", Head(svcq).g)
  BY <1>1, <1>2, SvcqTaken
<1>4. \A x : \A w \in {"tuning", "close"} : QueuedFor(svcq', w, x) = QueuedFor(svcq, w, x)
  BY <1>3 DEF More
<1>5. Paired'
  BY <1>1, <1>2, PairedTaken DEF Sound, First
<1>6. CASE Post(<<On("opened", NoGroup)>>) /\ UNCHANGED tuner
  <2>1. On("opened", NoGroup) \in Notes
    BY NotesIn
  <2>2. More(inbox', inbox, "opened", NoGroup)
    BY <1>1, <1>6, <2>1, InboxPosted
  <2>3. \A x \in Groups : x # NoGroup
    BY RecordingAssumption
  <2>4. \A x \in Groups : \A w : QueuedFor(inbox', w, x) = QueuedFor(inbox, w, x)
    BY <2>2, <2>3 DEF More
  <2>5. \A x \in Groups : SameLooks(x) /\ SameHands(x) /\ odd' = odd
    BY <1>2, <1>4, <1>6, <2>4, ServiceLooks, ServiceHands
  <2>6. odd \subseteq odd'
    BY <1>2 DEF ServiceOnly, history
  <2>7. QED BY <1>5, <2>5, <2>6, SoundIf
<1>7. ASSUME NEW g \in Groups, tuner[g] = "free", tuner' = [tuner EXCEPT ![g] = "mine"], Post(<<On("opened", g)>>)
      PROVE  Sound'
  <2>1. On("opened", g) \in Notes
    BY NotesIn
  <2>2. More(inbox', inbox, "opened", g)
    BY <1>1, <1>7, <2>1, InboxPosted
  <2>3. /\ \A x : \A w \in {"post", "start", "tuned"} : QueuedFor(inbox', w, x) = QueuedFor(inbox, w, x)
        /\ \A x : x # g => QueuedFor(inbox', "opened", x) = QueuedFor(inbox, "opened", x)
        /\ QueuedFor(inbox', "opened", g) = QueuedFor(inbox, "opened", g) + 1
    BY <2>2 DEF More
  <2>4. tuner'[g] = "mine" /\ \A x \in Groups : x # g => tuner'[x] = tuner[x]
    BY <1>1, <1>7
  <2>5. ASSUME NEW x \in Groups, x # g PROVE SameHands(x)
    <3>1. \A w \in {"start", "opened", "tuned"} : QueuedFor(inbox', w, x) = QueuedFor(inbox, w, x)
      BY <2>3, <2>5
    <3>2. QED BY <1>2, <1>4, <2>4, <2>5, <3>1, ServiceHands
  <2>6. ~Records(g) /\ ~Begun(g) /\ Given(g) = 0
    BY <1>1, <1>7, OpenedIsHeld
  <2>7. ~Fed(g)
    BY <2>6, NotFed
  <2>8. fiber' = fiber /\ recordings' = recordings
    BY <1>2 DEF ServiceOnly, tables
  <2>9. ~Records(g)' /\ ~Begun(g)' /\ Given(g)' = 0 /\ ~Fed(g)'
    BY <1>4, <2>3, <2>6, <2>7, <2>8 DEF Records, Begun, Given, Fed, Starting
  <2>10. Opened(g)'
    <3>1. QueuedFor(inbox, "opened", g) \in Nat
      BY <1>1, QueuesAre
    <3>2. QED BY <2>3, <3>1 DEF Opened
  <2>11. Owned(g)'
    BY <2>4, <2>9, <2>10 DEF Owned, Held
  <2>12. \A x \in Groups : SameLooks(x) /\ odd' = odd
    BY <1>2, <2>3, ServiceLooks
  <2>13. odd \subseteq odd'
    BY <1>2 DEF ServiceOnly, history
  <2>14. QED BY <1>5, <2>5, <2>11, <2>12, <2>13, SoundIf
<1>8. QED BY <1>6, <1>7 DEF ServiceOpens

LEMMA SoundInTunes ==
  ASSUME Base, Sound, ServiceTunes
  PROVE  Sound'
<1>1. WorldType /\ stream \in [Groups -> {"off", "tuning", "on", "silent"}]
  BY DEF Base, TypeInv, WorldType
<1>0. PICK g : g = Head(svcq).g
  OBVIOUS
<1>2. First("tune") /\ ServiceOnly /\ UNCHANGED tuner /\ odd \subseteq odd'
  BY DEF ServiceTunes, ServiceOnly, history
<1>3. g \in Groups /\ svcq # <<>> /\ Head(svcq).what = "tune"
  BY <1>0, <1>1, <1>2, CallIs
<1>4. More(svcq, Tail(svcq), "tune", g)
  BY <1>0, <1>1, <1>2, SvcqTaken
<1>5. \A x : \A w \in {"tuning", "close"} : QueuedFor(Tail(svcq), w, x) = QueuedFor(svcq, w, x)
  BY <1>4 DEF More
<1>6. CASE svcq' = Tail(svcq) /\ Post(<<On("not_tuned", g)>>) /\ UNCHANGED stream
  <2>1. On("not_tuned", g) \in Notes
    BY <1>3, NotesIn
  <2>2. More(inbox', inbox, "not_tuned", g)
    BY <1>1, <1>6, <2>1, InboxPosted
  <2>3. \A x : \A w \in {"post", "start", "opened", "tuned"} : QueuedFor(inbox', w, x) = QueuedFor(inbox, w, x)
    BY <2>2 DEF More
  <2>4. \A x \in Groups : SameLooks(x) /\ SameHands(x)
    BY <1>2, <1>5, <1>6, <2>3, ServiceLooks, ServiceHands
  <2>5. Paired'
    BY <1>1, <1>3, <1>6, PairedTaken DEF Sound
  <2>6. QED BY <1>2, <2>4, <2>5, SoundIf
<1>7. CASE svcq' = <<On("tuning", g)>> \o Tail(svcq) /\ stream' = [stream EXCEPT ![g] = "tuning"] /\ UNCHANGED inbox
  <2> DEFINE e == On("tuning", g)
  <2>1. e \in Notes /\ e \in Calls /\ e.what = "tuning"
    BY <1>3, NotesIn, OnIs DEF On
  <2>2. More(svcq', Tail(svcq), "tuning", g)
    BY <1>1, <1>2, <1>7, <2>1, SvcqReplaced
  <2>3. svcq' = <<e>> \o Tail(svcq)
    BY <1>7
  <2> HIDE DEF e
  <2>4. Pairs(svcq') /\ Head(svcq') = e
    <3>1. svcq \in Seq(Calls) /\ Pairs(svcq)
      BY <1>1 DEF WorldType, Sound, Paired
    <3>2. QED BY <1>3, <2>1, <2>3, <3>1, PairsReplaced
  <2>5. Paired'
    BY <2>1, <2>4 DEF Paired, First
  <2>6. /\ \A x : QueuedFor(svcq', "close", x) = QueuedFor(svcq, "close", x)
        /\ \A x : x # g => QueuedFor(svcq', "tuning", x) = QueuedFor(svcq, "tuning", x)
    BY <1>5, <2>2 DEF More
  <2>7. stream'[g] = "tuning" /\ \A x \in Groups : x # g => stream'[x] = stream[x]
    BY <1>1, <1>3, <1>7
  <2>8. ASSUME NEW x \in Groups, x # g PROVE SameHands(x)
    <3>1. \A w \in {"tuning", "close"} : QueuedFor(svcq', w, x) = QueuedFor(svcq, w, x)
      BY <2>6, <2>8
    <3>2. QED BY <1>2, <1>7, <2>7, <2>8, <3>1, ServiceHands
  <2>9. Owned(g)'
    <3>1. fiber' = fiber /\ recordings' = recordings /\ odd' = odd
      BY <1>2 DEF ServiceOnly, tables, history
    <3>2. /\ Begun(g)' <=> Begun(g)
          /\ Records(g)' <=> Records(g)
          /\ Opened(g)' <=> Opened(g)
          /\ Given(g)' = Given(g)
      BY <1>7, <2>6, <3>1 DEF Begun, Records, Opened, Given, Starting
    <3>3. Owned(g)
      BY <1>3 DEF Sound
    <3>4. QED BY <1>2, <2>7, <3>1, <3>2, <3>3 DEF Owned, Held
  <2>10. \A x \in Groups : SameLooks(x)
    BY <1>2, <1>7, ServiceLooks
  <2>11. QED BY <1>2, <2>5, <2>8, <2>9, <2>10, SoundIf
<1>8. QED BY <1>0, <1>6, <1>7 DEF ServiceTunes

LEMMA SoundInTuned ==
  ASSUME Base, Sound, ServiceTuned
  PROVE  Sound'
<1>1. WorldType /\ Control /\ stream \in [Groups -> {"off", "tuning", "on", "silent"}]
  BY DEF Base, TypeInv, WorldType
<1>0. PICK g : g = Head(svcq).g
  OBVIOUS
<1>2. First("tuning") /\ ServiceOnly /\ UNCHANGED tuner /\ odd \subseteq odd' /\ svcq' = Tail(svcq)
  BY DEF ServiceTuned, ServiceOnly, history
<1>3. g \in Groups /\ svcq # <<>> /\ Head(svcq).what = "tuning"
  BY <1>0, <1>1, <1>2, CallIs
<1>4. More(svcq, svcq', "tuning", g)
  BY <1>0, <1>1, <1>2, SvcqTaken
<1>5. /\ \A x : QueuedFor(svcq', "close", x) = QueuedFor(svcq, "close", x)
      /\ \A x : x # g => QueuedFor(svcq', "tuning", x) = QueuedFor(svcq, "tuning", x)
  BY <1>4 DEF More
<1>6. Paired'
  BY <1>1, <1>2, <1>3, PairedTaken DEF Sound
<1>7. QueuedFor(svcq, "tuning", g) # 0
  BY <1>0, <1>1, <1>2, HeadCounts
<1>8. Begun(g) /\ ~Records(g) /\ Owned(g) /\ stream[g] # "off"
  <2>1. Owned(g) /\ Fed(g)
    BY <1>3, <1>7 DEF Sound, Fed
  <2>2. Begun(g)
    BY <1>3, <1>7, TunedIsBegun
  <2>3. QED BY <2>1, <2>2 DEF Owned
<1>9. /\ \A x \in Groups : x # g => stream'[x] = stream[x]
  BY <1>0, <1>1 DEF ServiceTuned, StreamStops
<1>10. ASSUME NEW w \in {"tuned", "not_tuned"}, Post(<<On(w, g)>>), Fed(g)' => stream'[g] # "off"
       PROVE  Sound'
  <2>1. On(w, g) \in Notes
    BY <1>3, NotesIn
  <2>2. More(inbox', inbox, w, g)
    BY <1>1, <1>10, <2>1, InboxPosted
  <2>3. /\ \A x : \A m \in {"post", "start", "opened"} : QueuedFor(inbox', m, x) = QueuedFor(inbox, m, x)
        /\ \A x : x # g => QueuedFor(inbox', "tuned", x) = QueuedFor(inbox, "tuned", x)
    BY <2>2 DEF More
  <2>4. ASSUME NEW x \in Groups, x # g PROVE SameHands(x)
    <3>1. \A m \in {"start", "opened", "tuned"} : QueuedFor(inbox', m, x) = QueuedFor(inbox, m, x)
      BY <2>3, <2>4
    <3>2. \A m \in {"tuning", "close"} : QueuedFor(svcq', m, x) = QueuedFor(svcq, m, x)
      BY <1>5, <2>4
    <3>3. QED BY <1>2, <1>9, <2>4, <3>1, <3>2, ServiceHands
  <2>5. Owned(g)'
    <3>1. fiber' = fiber /\ recordings' = recordings /\ odd' = odd
      BY <1>2 DEF ServiceOnly, tables, history
    <3>2. /\ Begun(g)' <=> Begun(g)
          /\ Records(g)' <=> Records(g)
          /\ Opened(g)' <=> Opened(g)
          /\ Given(g)' = Given(g)
      BY <1>5, <2>3, <3>1 DEF Begun, Records, Opened, Given, Starting
    <3>3. QED BY <1>2, <1>8, <1>10, <3>1, <3>2 DEF Owned, Held
  <2>6. \A x \in Groups : SameLooks(x)
    BY <1>2, <2>3, ServiceLooks
  <2>7. QED BY <1>2, <1>6, <2>4, <2>5, <2>6, SoundIf
<1>11. CASE Post(<<On("tuned", g)>>) /\ stream' = [stream EXCEPT ![g] = IF @ = "tuning" THEN "on" ELSE @]
  <2>1. stream'[g] # "off"
    BY <1>1, <1>3, <1>8, <1>11
  <2>2. QED BY <1>10, <1>11, <2>1
<1>12. CASE Post(<<On("not_tuned", g)>>) /\ StreamStops(g)
  <2>1. /\ Queued(svcq, "tuning") = Queued(svcq', "tuning") + 1
        /\ svcq' \in Seq(Notes)
    BY <1>4 DEF More
  <2>2. ASSUME NEW a \in Nat, NEW b \in Nat, NEW c \in Nat, NEW d \in Nat, NEW k \in {0, 1}, a + (b + 1) + c + d = k
        PROVE  b = 0 /\ c = 0 /\ k = 1
    BY <2>2
  <2>3. Queued(svcq', "tuning") = 0 /\ Queued(inbox, "tuned") = 0 /\ At("start", "tune")
    <3>1. /\ Queued(svcq, "tune") \in Nat /\ Queued(inbox, "tuned") \in Nat /\ Queued(inbox, "not_tuned") \in Nat
          /\ Queued(svcq', "tuning") \in Nat
      BY <1>1, <2>1, QueuesAre, QueuesCount
    <3>2. One(At("start", "tune")) \in {0, 1} /\ (One(At("start", "tune")) = 1 => At("start", "tune"))
      BY DEF One
    <3>3. Queued(svcq, "tune") + (Queued(svcq', "tuning") + 1) + Queued(inbox, "tuned") + Queued(inbox, "not_tuned")
            = One(At("start", "tune"))
      BY <1>1, <2>1 DEF Control, TuneOnce
    <3>4. QED BY <2>2, <3>1, <3>2, <3>3
  <2>4. QueuedFor(svcq', "tuning", g) = 0 /\ QueuedFor(inbox, "tuned", g) = 0
    BY <1>1, <1>3, <2>1, <2>3, QueuesAre, NoneIs
  <2>5. QueuedFor(inbox', "tuned", g) = QueuedFor(inbox, "tuned", g)
    <3>1. On("not_tuned", g) \in Notes
      BY <1>3, NotesIn
    <3>2. More(inbox', inbox, "not_tuned", g)
      BY <1>1, <1>12, <3>1, InboxPosted
    <3>3. QED BY <3>2 DEF More
  <2>6. fiber' = fiber /\ recordings' = recordings
    BY <1>2 DEF ServiceOnly, tables
  <2>7. ~Fed(g)'
    BY <1>8, <2>3, <2>4, <2>5, <2>6 DEF Fed, Records, At
  <2>8. QED BY <1>10, <1>12, <2>7
<1>13. QED BY <1>0, <1>11, <1>12 DEF ServiceTuned

LEMMA SoundInStops ==
  ASSUME Base, Sound, ServiceStops \/ ServiceCloses
  PROVE  Sound'
<1>1. /\ WorldType /\ stream \in [Groups -> {"off", "tuning", "on", "silent"}]
      /\ svcq \in Seq(Calls) /\ tuner \in [Groups -> {"free", "mine", "other"}]
  BY DEF Base, TypeInv, WorldType
<1>0. PICK g : g = Head(svcq).g
  OBVIOUS
<1>2. /\ First("tune_stop") \/ First("close")
      /\ ServiceOnly /\ UNCHANGED inbox /\ odd \subseteq odd' /\ svcq' = Tail(svcq)
  BY DEF ServiceStops, ServiceCloses, ServiceOnly, history
<1>3. g \in Groups /\ svcq # <<>>
  <2>1. CASE First("tune_stop")
    BY <1>0, <1>1, <2>1, CallIs
  <2>2. CASE First("close")
    BY <1>0, <1>1, <2>2, CallIs
  <2>3. QED BY <1>2, <2>1, <2>2
<1>4. Paired /\ Pairs(svcq)
  BY DEF Sound, Paired
<1>5. fiber' = fiber /\ recordings' = recordings /\ odd' = odd /\ inbox' = inbox
  BY <1>2 DEF ServiceOnly, tables, history
<1>6. \A x \in Groups : SameLooks(x)
  BY <1>2, ServiceLooks
<1>7. svcq' \in Seq(Notes)
  BY <1>1, <1>3, <1>2, NotesAre
<1>8. Owned(g)
  BY <1>3 DEF Sound
<1>9. ASSUME Given(g) # 0
      PROVE  /\ tuner[g] = "mine" /\ Given(g) = 1 /\ ~Begun(g) /\ ~Records(g) /\ ~Opened(g) /\ ~Fed(g)
  <2>1. tuner[g] = "mine" /\ Given(g) = 1 /\ ~Begun(g) /\ ~Records(g) /\ ~Opened(g)
    BY <1>8, <1>9 DEF Owned, Held
  <2>2. QED BY <1>3, <2>1, NotFed
<1>10. CASE ServiceStops
  <2>1. More(svcq, svcq', "tune_stop", g)
    BY <1>0, <1>1, <1>2, <1>10, SvcqTaken DEF ServiceStops
  <2>2. \A x : \A w \in {"tuning", "close"} : QueuedFor(svcq', w, x) = QueuedFor(svcq, w, x)
    BY <2>1 DEF More
  <2>3. Pairs(svcq') /\ svcq' # <<>> /\ Head(svcq') = On("close", g)
    BY <1>0, <1>1, <1>2, <1>3, <1>4, <1>10, PairsTail DEF ServiceStops, First
  <2>4. Given(g) # 0
    <3>1. Head(svcq').what = "close" /\ Head(svcq').g = g
      BY <2>3 DEF On
    <3>2. QueuedFor(svcq', "close", g) # 0
      BY <1>7, <2>3, <3>1, FirstCounts
    <3>3. QED BY <2>2, <3>2 DEF Given
  <2>5. StreamStops(g) /\ UNCHANGED tuner
    BY <1>0, <1>9, <1>10, <2>4 DEF ServiceStops
  <2>6. stream'[g] = "off" /\ \A x \in Groups : x # g => stream'[x] = stream[x]
    BY <1>1, <1>3, <2>5 DEF StreamStops
  <2>7. Paired'
    BY <2>3, <2>6 DEF Paired, On
  <2>8. ASSUME NEW x \in Groups, x # g PROVE SameHands(x)
    BY <1>2, <2>2, <2>5, <2>6, <2>8, ServiceHands
  <2>9. Owned(g)'
    <3>1. /\ ~Begun(g)' /\ ~Records(g)' /\ ~Opened(g)' /\ ~Fed(g)' /\ Given(g)' = Given(g)
      BY <1>5, <1>9, <2>2, <2>4 DEF Begun, Records, Opened, Fed, Given, Starting
    <3>2. QED BY <1>9, <2>4, <2>5, <3>1 DEF Owned, Held
  <2>10. QED BY <1>2, <1>6, <2>7, <2>8, <2>9, SoundIf
<1>11. CASE ServiceCloses
  <2>1. First("close") /\ More(svcq, svcq', "close", g)
    BY <1>0, <1>1, <1>2, <1>11, SvcqTaken DEF ServiceCloses
  <2>2. /\ \A x : QueuedFor(svcq', "tuning", x) = QueuedFor(svcq, "tuning", x)
        /\ \A x : x # g => QueuedFor(svcq', "close", x) = QueuedFor(svcq, "close", x)
        /\ QueuedFor(svcq, "close", g) = QueuedFor(svcq', "close", g) + 1
    BY <2>1 DEF More
  <2>3. Paired'
    BY <1>1, <1>2, <1>3, <1>4, <2>1, PairedTaken DEF First
  <2>4. Given(g) # 0
    BY <1>0, <1>1, <2>1, HeadCounts DEF Given
  <2>5. Given(g)' = 0
    <3>1. QueuedFor(svcq', "close", g) \in Nat
      BY <1>7, QueuesCount
    <3>2. QED BY <1>9, <2>2, <2>4, <3>1 DEF Given
  <2>6. stream[g] = "off" /\ UNCHANGED stream
    BY <1>0, <1>4, <1>11, <2>1 DEF Paired, ServiceCloses
  <2>7. tuner'[g] = "free" /\ \A x \in Groups : x # g => tuner'[x] = tuner[x]
    BY <1>0, <1>1, <1>3, <1>11, <2>6 DEF ServiceCloses
  <2>8. ASSUME NEW x \in Groups, x # g PROVE SameHands(x)
    <3>1. \A w \in {"tuning", "close"} : QueuedFor(svcq', w, x) = QueuedFor(svcq, w, x)
      BY <2>2, <2>8
    <3>2. QED BY <1>2, <2>6, <2>7, <2>8, <3>1, ServiceHands
  <2>9. Owned(g)'
    <3>1. /\ ~Begun(g)' /\ ~Records(g)' /\ ~Opened(g)' /\ ~Fed(g)'
      BY <1>5, <1>9, <2>2, <2>4 DEF Begun, Records, Opened, Fed, Starting
    <3>2. QED BY <2>5, <2>7, <3>1 DEF Owned, Held
  <2>10. QED BY <1>2, <1>6, <2>3, <2>8, <2>9, SoundIf
<1>12. QED BY <1>10, <1>11

(* A process that has just been started.                                    *)
Fresh ==
  /\ recordings = [g \in Groups |-> Blank]
  /\ fiber = [f \in Fibers |-> Asleep]
  /\ inbox = <<>> /\ svcq = <<>>
  /\ progress = [g \in Groups |-> "init"]
  /\ h = [g \in Groups |-> [t \in Threads |-> Outside]]
  /\ tuner = [g \in Groups |-> "free"]

LEMMA FreshIsSound == Fresh => Sound
<1> SUFFICES ASSUME Fresh PROVE Sound
  OBVIOUS
<1>1. /\ recordings = [g \in Groups |-> Blank] /\ fiber["start"] = Asleep
      /\ inbox = <<>> /\ svcq = <<>> /\ progress = [g \in Groups |-> "init"]
      /\ h = [g \in Groups |-> [t \in Threads |-> Outside]] /\ tuner = [g \in Groups |-> "free"]
  BY DEF Fresh, Fibers
<1>2. Paired
  BY <1>1 DEF Paired, Pairs, First
<1>3. \A w, g : QueuedFor(inbox, w, g) = 0 /\ QueuedFor(svcq, w, g) = 0
  BY <1>1, NothingQueued
<1>4. ASSUME NEW g \in Groups PROVE Handled(g) /\ Owned(g)
  <2>1. \A t \in Threads : h[g][t].pc = "out"
    BY <1>1 DEF Outside
  <2>2. progress[g] = "init" /\ tuner[g] = "free" /\ recordings[g].flags = {}
    BY <1>1, BlankIs
  <2>3. ~Records(g) /\ ~Closing(g) /\ Posts(g) = 0 /\ \A t \in Threads : ~In(g, t)
    BY <1>3, <2>1, <2>2 DEF Records, Closing, Posts, In
  <2>4. Handled(g)
    <3>1. "tune" \in Threads /\ \A t \in Threads : h[g][t].pc # "noticed"
      BY <2>1 DEF Threads
    <3>2. QED BY <2>2, <2>3, <3>1 DEF Handled, Written
  <2>5. g # NoGroup
    BY RecordingAssumption
  <2>6. ~Begun(g) /\ ~Opened(g) /\ Given(g) = 0 /\ ~Fed(g)
    BY <1>1, <1>3, <2>3, <2>5, AsleepIs DEF Begun, Opened, Given, Fed, Starting
  <2>7. Owned(g)
    BY <2>2, <2>3, <2>6 DEF Owned, Held
  <2>8. QED BY <2>4, <2>7
<1>5. QED BY <1>2, <1>4 DEF Sound

LEMMA FreshIsSoundNext == Fresh' => Sound'
BY FreshIsSound, PTL

(* Every step, as long as nothing has raced.                                *)
LEMMA SoundStep ==
  ASSUME Base, Sound, Step, "raced" \notin odd'
  PROVE  Sound'
<1>1. CASE Quiet
  <2>1. CASE OnNotice
    BY <2>1, SoundInNotice
  <2>2. CASE OnStop \/ OnPatLost
    BY <2>2, SoundInBreak
  <2>3. CASE Users \/ UNCHANGED vars
    BY <2>3, SoundInStill
  <2>4. CASE World \/ Saves
    BY <2>4, SoundInStill, SoundInWorld DEF World
  <2>5. CASE \E g \in Groups : DataArrives(g) \/ CallHandler(g)
    BY <2>5, SoundInCalls
  <2>6. CASE \E g \in Groups, t \in Threads : InHandler(g, t)
    BY <2>6, SoundInNotify, SoundInLeave DEF InHandler
  <2>7. QED BY <1>1, <2>1, <2>2, <2>3, <2>4, <2>5, <2>6 DEF Quiet
<1>2. CASE Service
  BY <1>2, SoundInOpens, SoundInTunes, SoundInTuned, SoundInStops DEF Service
<1>3. CASE Restart
  <2>1. Fresh'
    BY <1>3 DEF Restart, Volatile, Fresh
  <2>2. QED BY <2>1, FreshIsSoundNext
<1>4. CASE Watching
  BY <1>4, SoundInStill
<1>5. CASE CheckLoop
  BY <1>5, SoundInCheckLoop
<1>6. CASE OpenAnswered
  BY <1>6, SoundInOpenAnswered
<1>7. CASE \/ OnStart \/ ChannelAnswered \/ Tuned \/ NotTuned \/ EventAnswered \/ PauseOver \/ ForceAnswered
           \/ \E time \in EpgTimes : ReAdd(time)
  BY <1>7, SoundInStart
<1>8. QED BY <1>1, <1>2, <1>3, <1>4, <1>5, <1>6, <1>7 DEF Step

-----------------------------------------------------------------------------
LEMMA IInvInit == Init => IInv
<1> SUFFICES ASSUME Init PROVE IInv
  OBVIOUS
<1>1. Base
  BY BaseInit
<1>2. Fresh
  BY DEF Init, Fresh
<1>3. QED BY <1>1, <1>2, FreshIsSound DEF IInv

LEMMA IInvStep == IInv /\ [Next]_vars => IInv'
<1> SUFFICES ASSUME IInv, [Next]_vars PROVE IInv'
  OBVIOUS
<1>1. Base /\ Step
  BY NextIsStep DEF IInv
<1>2. Base'
  BY <1>1, BaseStep
<1>3. ASSUME ~Raced' PROVE Sound'
  <2>1. "raced" \notin odd'
    BY <1>3 DEF Raced
  <2>2. Sound
    BY <1>1, <2>1, OddGrows DEF IInv, Raced
  <2>3. QED BY <1>1, <2>1, <2>2, SoundStep
<1>4. QED BY <1>2, <1>3 DEF IInv

LEMMA SpecIInv == Spec => []IInv
BY IInvInit, IInvStep, PTL DEF Spec

-----------------------------------------------------------------------------
(* What it says in the words of the properties.                             *)
LEMMA IInvTypes ==
  ASSUME IInv
  PROVE  TypeOK
<1>1. FiberType /\ DataType /\ WorldType
  BY DEF IInv, Base, TypeInv
<1>2. ASSUME NEW F \in SUBSET Flags PROVE Entry(F) \subseteq Reserve
  BY DEF Entry, Reserve
<1>3. Entry({"req", "passed"}) \subseteq Reserve /\ Entry({"now", "passed"}) \subseteq Reserve
  BY <1>2 DEF Flags
<1>4. Events \subseteq Messages
  BY DEF Events, Messages
<1>5. Calls \subseteq Requests
  BY DEF Calls, Requests
<1>6. /\ reserves \in [Slots -> Reserve] /\ recordings \in [Groups -> Reserve]
      /\ disk \in Seq(Contents)
  <2>1. Image \subseteq Contents
    BY <1>3 DEF Image, Contents
  <2>2. QED BY <1>1, <1>3, <2>1 DEF DataType
<1>7. inbox \in Seq(Messages) /\ svcq \in Seq(Requests)
  BY <1>1, <1>4, <1>5 DEF WorldType
<1>8. QED BY <1>1, <1>6, <1>7 DEF TypeOK, FiberType, DataType, WorldType

LEMMA InQueue ==
  ASSUME NEW q \in Seq(Notes), NEW w, NEW g
  PROVE  /\ QueuedFor(q, w, g) = Cardinality({i \in DOMAIN q : q[i] = On(w, g)})
         /\ QueuedFor(q, w, g) # 0 <=> \E i \in DOMAIN q : q[i] = On(w, g)
<1>1. {i \in DOMAIN q : q[i] \in {On(w, g)}} = {i \in DOMAIN q : q[i] = On(w, g)}
  OBVIOUS
<1>2. Count(q, {On(w, g)}) = 0 <=> \A i \in DOMAIN q : q[i] \notin {On(w, g)}
  BY CountType
<1>3. QED BY <1>1, <1>2 DEF QueuedFor, Count

LEMMA HandsAre ==
  ASSUME IInv, ~Raced, NEW g \in Groups
  PROVE  /\ Owned(g) /\ Closes(g) = Given(g) /\ Given(g) \in Nat
         /\ Holds(g) <=> Held(g)
<1>1. Owned(g) /\ WorldType
  BY DEF IInv, Sound, Base, TypeInv
<1>2. Closes(g) = Given(g) /\ Given(g) \in Nat
  BY <1>1, QueuesAre, InQueue DEF Closes, Given
<1>3. InFlight(On("start", g)) <=> QueuedFor(inbox, "start", g) # 0
  BY <1>1, QueuesAre, InQueue DEF InFlight
<1>4. Opening(g) <=> Opened(g)
  BY <1>1, QueuesAre, InQueue DEF Opening, Opened
<1>5. Holds(g) <=> Held(g)
  BY <1>1, <1>3, <1>4 DEF Holds, Held, Begun, Records, Owned
<1>6. QED BY <1>1, <1>2, <1>5

LEMMA IInvTuners ==
  ASSUME IInv
  PROVE  TunerAccounted
<1>1. SUFFICES ASSUME ~Raced, "leak" \notin odd, NEW g \in Groups
               PROVE  (IF Holds(g) THEN 1 ELSE 0) + Closes(g) = IF tuner[g] = "mine" THEN 1 ELSE 0
  BY DEF TunerAccounted
<1>2. /\ Owned(g) /\ Closes(g) = Given(g) /\ Given(g) \in Nat
      /\ Holds(g) <=> Held(g)
  BY <1>1, HandsAre
<1>3. CASE Held(g)
  <2>1. tuner[g] = "mine" /\ Given(g) = 0
    BY <1>2, <1>3 DEF Owned
  <2>2. QED BY <1>2, <1>3, <2>1
<1>4. CASE ~Held(g)
  <2>1. Given(g) # 0 => tuner[g] = "mine" /\ Given(g) = 1
    BY <1>2 DEF Owned
  <2>2. tuner[g] = "mine" => Given(g) # 0
    BY <1>1, <1>2, <1>4 DEF Owned
  <2>3. QED BY <1>2, <1>4, <2>1, <2>2
<1>5. QED BY <1>3, <1>4

LEMMA IInvWhole ==
  ASSUME IInv
  PROVE  RecordingIsWhole
<1>1. RecordingHasTuner
  <2>1. SUFFICES ASSUME ~Raced, NEW g \in Groups, Records(g)
                 PROVE  tuner[g] = "mine" /\ stream[g] # "off" /\ Closes(g) = 0
    BY DEF RecordingHasTuner, Records
  <2>2. Owned(g) /\ Closes(g) = Given(g)
    BY <2>1, HandsAre
  <2>3. QED BY <2>1, <2>2 DEF Owned, Held, Fed
<1>2. WriterThere
  <2>1. SUFFICES ASSUME ~Raced, "early" \notin odd, NEW g \in Groups, NEW t \in Threads, NullWriter(g, t)
                 PROVE  FALSE
    BY DEF WriterThere, NoWriter
  <2>2. Handled(g) /\ In(g, t) /\ h[g][t].pc = "work"
    BY <2>1 DEF IInv, Sound, NullWriter, In
  <2>3. progress[g] \in Written
    BY <2>1, <2>2 DEF Handled, NullWriter, Written
  <2>4. ~Closing(g)
    <3>1. PICK o \in Threads : o # t /\ Threads = {t, o}
      BY OtherThread
    <3>2. h[g][o].pc # "noticed"
      BY <2>2, <3>1, OneInside
    <3>3. QED BY <2>2, <3>1, <3>2 DEF Closing
  <2>5. b25[g]
    BY <2>1, <2>2, <2>3, <2>4 DEF Handled
  <2>6. QED BY <2>1, <2>5 DEF NullWriter
<1>3. QED BY <1>1, <1>2 DEF RecordingIsWhole

(* The reserves, the recordings, the queues and the places of the fibers    *)
(* and threads are what rec_manager.h declares: a fiber is at a step of its *)
(* own, and what it waits for names a tuner or a slot there is.             *)
THEOREM TypesHold == Spec => []TypeOK
<1>1. IInv => TypeOK
  BY IInvTypes
<1>2. QED BY <1>1, SpecIInv, PTL

(* The table of reserves stays packed, sorted and without doubles through   *)
(* insertion (add_reserve), removal (remove_reserve), the check loop        *)
(* (check_reserves, refresh_reserves), the pick of a reserve for recording  *)
(* and a restart, also one with the files that a crash has left between the *)
(* saves (save_reserves, save_results) of a step; but for the two writes of *)
(* on_check_reserves_event_loop.  When the saves of a step are made, the    *)
(* files say what the table does.                                           *)
THEOREM TableKept == Spec => []TableIsKept
<1>1. IInv => TableIsKept
  BY DEF IInv, Base, TableInv, Kept, TableIsKept, Packed
<1>2. QED BY <1>1, SpecIInv, PTL

(* No reserve is lost or doubled on its way from the table into a recording *)
(* and into the results, whichever path of on_start_recording it takes, but *)
(* for a crash between save_results and save_reserves.                      *)
THEOREM ReservesAccounted == Spec => []Accounted
<1>1. IInv => Accounted
  BY DEF IInv, Base
<1>2. QED BY <1>1, SpecIInv, PTL

(* A tuner that rec_manager has opened is in one hand at a time (the answer *)
(* to open, on_start_recording, a recording) or is about to be closed,      *)
(* once, but for the two paths of on_check_loop that leave it open.         *)
THEOREM TunersAccounted == Spec => []TunerAccounted
<1>1. IInv => TunerAccounted
  BY IInvTuners
<1>2. QED BY <1>1, SpecIInv, PTL

(* What is recorded comes from a tuner that is rec_manager's and stays      *)
(* tuned, and on_ts_received finds the b25 writer it writes to and flushes, *)
(* as long as rec_progress_ has not been written in the middle of it.       *)
THEOREM RecordingsWhole == Spec => []RecordingIsWhole
<1>1. IInv => RecordingIsWhole
  BY IInvWhole
<1>2. QED BY <1>1, SpecIInv, PTL
=============================================================================
