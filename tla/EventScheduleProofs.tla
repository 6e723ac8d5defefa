------------------------ MODULE EventScheduleProofs -------------------------
(***************************************************************************)
(* What event_schedule_manager promises, for any channels, tuners and      *)
(* callers.  First what sorting the reserves does to them, then the        *)
(* invariant that the fibers keep together, one group of its parts after   *)
(* the other.                                                              *)
(***************************************************************************)
EXTENDS EventSchedule, FiniteSetTheorems, WellFoundedInduction, TLAPS

Elements(q) == {q[i] : i \in 1..Len(q)}
Ordered(q)  == \A i, j \in 1..Len(q) : i <= j => q[i].start <= q[j].start
Distinct(q) == \A i, j \in 1..Len(q) : q[i] = q[j] => i = j

(* Every reserve of A has one of B at its place or after it, but for those  *)
(* that begin by t.                                                         *)
Open(q, A, B, t) ==
  \A i \in 1..Len(q) :
    q[i] \in A => q[i].start <= t \/ \E j \in 1..Len(q) : i <= j /\ q[j] \in B
Closed(q, A, B) ==
  \A i \in 1..Len(q) : q[i] \in A => \E j \in 1..Len(q) : i <= j /\ q[j] \in B

(* The constants, one by one.                                               *)
LEMMA ChannelsAre ==
  /\ Len(Channels) \in Nat /\ Len(Channels) # 0 /\ DOMAIN Channels = 1..Len(Channels)
  /\ \A i \in 1..Len(Channels) : Channels[i] \in Nat
  /\ \A i, j \in 1..Len(Channels) : Channels[i] = Channels[j] => i = j
<1>1. Channels \in Seq(Nat \ {0}) /\ Channels # <<>>
  BY EventScheduleAssumption
<1>2. /\ Len(Channels) \in Nat /\ DOMAIN Channels = 1..Len(Channels)
      /\ \A i \in 1..Len(Channels) : Channels[i] \in Nat
  BY <1>1
<1>3. Len(Channels) # 0
  BY <1>1
<1>4. \A i, j \in DOMAIN Channels : Channels[i] = Channels[j] => i = j
  BY EventScheduleAssumption
<1>5. QED BY <1>2, <1>3, <1>4

LEMMA TimesAre ==
  StartTime \in Nat /\ IntervalDay \in Nat /\ RetryAfter \in Nat /\ Day \in Nat /\ Late \in Nat
BY EventScheduleAssumption

-----------------------------------------------------------------------------
(* Numbers.                                                                 *)
LEMMA LeastNumber ==
  ASSUME NEW T \in SUBSET Nat, T # {}
  PROVE  \E n \in T : \A m \in T : n <= m
<1> DEFINE R == {ss \in Nat \X Nat : ss[1] < ss[2]}
<1>1. IsWellFoundedOn(R, Nat)
  BY NatLessThanWellFounded DEF OpToRel
<1>2. ASSUME NEW x \in Nat, NEW y \in Nat, y < x
      PROVE  <<y, x>> \in R
  BY <1>2
<1> HIDE DEF R
<1>3. PICK x \in T : \A y \in T : ~(<<y, x>> \in R)
  BY <1>1, WFMin
<1>4. ASSUME NEW y \in T PROVE x <= y
  <2>1. x \in Nat /\ y \in Nat /\ ~(y < x)
    BY <1>2, <1>3
  <2>2. QED BY <2>1
<1>5. QED BY <1>4

LEMMA Induct ==
  ASSUME NEW T \in SUBSET Nat, 0 \in T, \A n \in T : n + 1 \in T
  PROVE  T = Nat
<1>1. SUFFICES ASSUME Nat \ T # {} PROVE FALSE
  OBVIOUS
<1>2. PICK n \in Nat \ T : \A m \in Nat \ T : n <= m
  BY <1>1, LeastNumber
<1>3. n # 0 /\ n - 1 \in Nat /\ n - 1 \in T
  BY <1>2
<1>4. QED BY <1>2, <1>3

-----------------------------------------------------------------------------
(* p is q with r behind the first n elements.                               *)
Placed(p, q, n, r) ==
  /\ Len(p) = Len(q) + 1
  /\ \A i \in 1..Len(p) : p[i] = IF i <= n THEN q[i] ELSE IF i = n + 1 THEN r ELSE q[i - 1]

(* Exactly the first n begin by t.                                          *)
Splits(q, n, t) == \A i \in 1..Len(q) : q[i].start <= t <=> i <= n

LEMMA Place ==
  ASSUME NEW S, NEW q \in Seq(S), NEW n \in 0..Len(q), NEW r \in S
  PROVE  LET p == SubSeq(q, 1, n) \o <<r>> \o SubSeq(q, n + 1, Len(q))
         IN  p \in Seq(S) /\ Placed(p, q, n, r)
<1> DEFINE a == SubSeq(q, 1, n)
           b == SubSeq(q, n + 1, Len(q))
<1>1. a \in Seq(S) /\ Len(a) = n /\ \A i \in 1..n : a[i] = q[i]
  OBVIOUS
<1>2. b \in Seq(S) /\ Len(b) = Len(q) - n /\ \A i \in 1..Len(b) : b[i] = q[n + i]
  OBVIOUS
<1> HIDE DEF a, b
<1>3. /\ a \o <<r>> \in Seq(S) /\ Len(a \o <<r>>) = n + 1
      /\ \A i \in 1..(n + 1) : (a \o <<r>>)[i] = IF i <= n THEN a[i] ELSE r
  BY <1>1
<1> DEFINE c == a \o <<r>>
<1> HIDE DEF c
<1>4. /\ c \o b \in Seq(S) /\ Len(c \o b) = Len(q) + 1
      /\ \A i \in 1..Len(c \o b) : (c \o b)[i] = IF i <= n + 1 THEN c[i] ELSE b[i - (n + 1)]
  BY <1>2, <1>3 DEF c
<1>5. ASSUME NEW i \in 1..Len(c \o b)
      PROVE  (c \o b)[i] = IF i <= n THEN q[i] ELSE IF i = n + 1 THEN r ELSE q[i - 1]
  <2>1. CASE i <= n
    BY <2>1, <1>1, <1>3, <1>4 DEF c
  <2>2. CASE i = n + 1
    BY <2>2, <1>3, <1>4 DEF c
  <2>3. CASE i > n + 1
    <3>1. i - (n + 1) \in 1..Len(b) /\ n + (i - (n + 1)) = i - 1
      BY <2>3, <1>2, <1>4
    <3>2. b[i - (n + 1)] = q[i - 1]
      BY <3>1, <1>2
    <3>3. QED BY <2>3, <3>2, <1>4
  <2>4. QED BY <2>1, <2>2, <2>3, <1>4
<1>6. QED BY <1>4, <1>5 DEF a, b, c, Placed

LEMMA UpTo ==
  ASSUME NEW n \in Nat
  PROVE  IsFiniteSet(1..n) /\ Cardinality(1..n) = n
<1>1. 1 \in Int /\ n \in Int
  OBVIOUS
<1>2. IsFiniteSet(1..n) /\ Cardinality(1..n) = IF 1 > n THEN 0 ELSE n - 1 + 1
  BY <1>1, FS_Interval
<1>3. QED BY <1>2

(* The number of those that begin by t.                                     *)
LEMMA Count ==
  ASSUME NEW q \in Seq(Reserve), NEW t \in Nat
  PROVE  /\ Cardinality({i \in DOMAIN q : q[i].start <= t}) \in 0..Len(q)
         /\ Ordered(q) => Splits(q, Cardinality({i \in DOMAIN q : q[i].start <= t}), t)
<1> DEFINE D == {i \in DOMAIN q : q[i].start <= t}
           T == {n \in 0..Len(q) : \A i \in 1..Len(q) : n < i => ~(q[i].start <= t)}
<1>1. DOMAIN q = 1..Len(q) /\ Len(q) \in Nat /\ \A i \in 1..Len(q) : q[i].start \in Nat
  <2>1. DOMAIN q = 1..Len(q) /\ Len(q) \in Nat /\ \A i \in 1..Len(q) : q[i] \in Reserve
    OBVIOUS
  <2>2. \A x \in Reserve : x.start \in Nat
    BY DEF Reserve
  <2>3. QED BY <2>1, <2>2
<1>2. IsFiniteSet(1..Len(q)) /\ Cardinality(1..Len(q)) = Len(q)
  BY <1>1, UpTo
<1>3. IsFiniteSet(D) /\ Cardinality(D) <= Len(q)
  BY <1>1, <1>2, FS_Subset
<1>4. Cardinality(D) \in 0..Len(q)
  BY <1>1, <1>3, FS_CardinalityType
<1>5. ASSUME Ordered(q) PROVE Splits(q, Cardinality(D), t)
  <2>1. Len(q) \in T /\ T \in SUBSET Nat
    BY <1>1
  <2>2. PICK n \in T : \A m \in T : n <= m
    BY <2>1, LeastNumber
  <2>3. n \in 0..Len(q) /\ \A i \in 1..Len(q) : n < i => ~(q[i].start <= t)
    BY <2>2
  <2>4. ASSUME n > 0 PROVE q[n].start <= t
    <3>1. n - 1 \notin T /\ n - 1 \in 0..Len(q)
      <4>1. n - 1 \in 0..Len(q) /\ ~(n <= n - 1)
        BY <2>3, <2>4, <1>1
      <4> HIDE DEF T
      <4>2. QED BY <2>2, <4>1
    <3>2. PICK i \in 1..Len(q) : n - 1 < i /\ q[i].start <= t
      BY <3>1
    <3>3. i = n
      BY <3>2, <2>3
    <3>4. QED BY <3>2, <3>3
  <2>5. ASSUME NEW i \in 1..Len(q), i <= n PROVE q[i].start <= t
    <3>1. n \in 1..Len(q) /\ q[i].start <= q[n].start /\ q[n].start <= t
      BY <2>3, <2>4, <2>5, <1>5 DEF Ordered
    <3>2. QED BY <3>1, <1>1
  <2>6. \A i \in 1..Len(q) : q[i].start <= t <=> i <= n
    BY <2>3, <2>5
  <2>7. D = 1..n
    BY <2>3, <2>6, <1>1
  <2>8. Cardinality(D) = n
    <3>1. n \in Nat
      BY <2>3
    <3> HIDE DEF D
    <3>2. QED BY <3>1, <2>7, UpTo
  <2> HIDE DEF D
  <2>9. QED BY <2>6, <2>8 DEF Splits
<1>6. QED BY <1>4, <1>5

(* Sorted puts r behind those that do not begin later.                      *)
LEMMA SortedPlaces ==
  ASSUME NEW q \in Seq(Reserve), NEW r \in Reserve
  PROVE  /\ Sorted(q, r) \in Seq(Reserve)
         /\ \E n \in 0..Len(q) :
              Placed(Sorted(q, r), q, n, r) /\ (Ordered(q) => Splits(q, n, r.start))
<1> DEFINE n == Cardinality({i \in DOMAIN q : q[i].start <= r.start})
<1>0. r.start \in Nat
  BY DEF Reserve
<1>1. n \in 0..Len(q) /\ (Ordered(q) => Splits(q, n, r.start))
  BY <1>0, Count
<1>2. Sorted(q, r) = SubSeq(q, 1, n) \o <<r>> \o SubSeq(q, n + 1, Len(q))
  BY DEF Sorted
<1> HIDE DEF n
<1>3. QED BY <1>1, <1>2, Place

-----------------------------------------------------------------------------
(* What a reserve put at its place changes.                                 *)
Joined(p, q, r) ==
  /\ p \in Seq(Reserve)
  /\ Elements(p) = Elements(q) \cup {r}
  /\ Ordered(q) => Ordered(p)
  /\ Distinct(q) /\ r \notin Elements(q) => Distinct(p)

LEMMA PlacedElements ==
  ASSUME NEW q \in Seq(Reserve), NEW p \in Seq(Reserve), NEW n \in 0..Len(q),
         NEW r \in Reserve, Placed(p, q, n, r)
  PROVE  Elements(p) = Elements(q) \cup {r}
<1>1. ASSUME NEW i \in 1..Len(p) PROVE p[i] \in Elements(q) \cup {r}
  <2>1. CASE i <= n
    BY <2>1 DEF Placed, Elements
  <2>2. CASE i = n + 1
    BY <2>2 DEF Placed
  <2>3. CASE i > n + 1
    <3>1. i - 1 \in 1..Len(q) /\ p[i] = q[i - 1]
      BY <2>3 DEF Placed
    <3>2. QED BY <3>1 DEF Elements
  <2>4. QED BY <2>1, <2>2, <2>3
<1>2. ASSUME NEW i \in 1..Len(q) PROVE q[i] \in Elements(p)
  <2>1. CASE i <= n
    <3>1. i \in 1..Len(p) /\ p[i] = q[i]
      BY <2>1 DEF Placed
    <3>2. QED BY <3>1 DEF Elements
  <2>2. CASE i > n
    <3>1. i + 1 \in 1..Len(p) /\ i + 1 > n /\ i + 1 # n + 1 /\ i + 1 - 1 = i
      BY <2>2 DEF Placed
    <3>2. p[i + 1] = q[i]
      BY <3>1, <2>2 DEF Placed
    <3>3. QED BY <3>1, <3>2 DEF Elements
  <2>3. QED BY <2>1, <2>2
<1>3. r \in Elements(p)
  <2>1. n + 1 \in 1..Len(p) /\ p[n + 1] = r
    BY DEF Placed
  <2>2. QED BY <2>1 DEF Elements
<1>4. Elements(p) \subseteq Elements(q) \cup {r}
  BY <1>1 DEF Elements
<1>5. Elements(q) \subseteq Elements(p)
  BY <1>2 DEF Elements
<1>6. QED BY <1>3, <1>4, <1>5

LEMMA PlacedOrdered ==
  ASSUME NEW q \in Seq(Reserve), NEW p \in Seq(Reserve), NEW n \in 0..Len(q),
         NEW r \in Reserve, Placed(p, q, n, r), Ordered(q), Splits(q, n, r.start)
  PROVE  Ordered(p)
<1>1. /\ \A i \in 1..Len(q) : q[i].start \in Nat
      /\ r.start \in Nat
  <2>1. \A x \in Reserve : x.start \in Nat
    BY DEF Reserve
  <2>2. QED BY <2>1
<1>2. ASSUME NEW i \in 1..Len(p), NEW j \in 1..Len(p), i <= j
      PROVE  p[i].start <= p[j].start
  <2>1. CASE j <= n
    <3>1. i \in 1..Len(q) /\ j \in 1..Len(q) /\ p[i] = q[i] /\ p[j] = q[j]
      BY <1>2, <2>1 DEF Placed
    <3>2. QED BY <3>1, <1>2 DEF Ordered
  <2>2. CASE i = n + 1 /\ j = n + 1
    BY <2>2, <1>1 DEF Placed
  <2>3. CASE i <= n /\ j = n + 1
    <3>1. i \in 1..Len(q) /\ p[i] = q[i] /\ p[j] = r
      BY <2>3 DEF Placed
    <3>2. QED BY <3>1, <2>3 DEF Splits
  <2>4. CASE i <= n /\ j > n + 1
    <3>1. j - 1 \in 1..Len(q) /\ i \in 1..Len(q) /\ i <= j - 1
          /\ p[j] = q[j - 1] /\ p[i] = q[i]
      BY <2>4 DEF Placed
    <3>2. QED BY <3>1 DEF Ordered
  <2>5. CASE i = n + 1 /\ j > n + 1
    <3>1. j - 1 \in 1..Len(q) /\ j - 1 > n /\ p[j] = q[j - 1] /\ p[i] = r
      BY <2>5 DEF Placed
    <3>2. ~(q[j - 1].start <= r.start)
      BY <3>1 DEF Splits
    <3>3. QED BY <3>1, <3>2, <1>1
  <2>6. CASE i > n + 1
    <3>1. /\ j - 1 \in 1..Len(q) /\ i - 1 \in 1..Len(q) /\ i - 1 <= j - 1
          /\ p[j] = q[j - 1] /\ p[i] = q[i - 1]
      BY <2>6, <1>2 DEF Placed
    <3>2. QED BY <3>1 DEF Ordered
  <2>7. QED BY <1>2, <2>1, <2>2, <2>3, <2>4, <2>5, <2>6
<1>3. QED BY <1>2 DEF Ordered

LEMMA PlacedDistinct ==
  ASSUME NEW q \in Seq(Reserve), NEW p \in Seq(Reserve), NEW n \in 0..Len(q),
         NEW r \in Reserve, Placed(p, q, n, r), Distinct(q), r \notin Elements(q)
  PROVE  Distinct(p)
<1> DEFINE at(i) == IF i <= n THEN i ELSE i - 1
<1>1. ASSUME NEW i \in 1..Len(p), i # n + 1
      PROVE  at(i) \in 1..Len(q) /\ p[i] = q[at(i)] /\ p[i] # r
  <2>1. at(i) \in 1..Len(q) /\ p[i] = q[at(i)]
    BY <1>1 DEF Placed
  <2>2. QED BY <2>1 DEF Elements
<1>2. ASSUME NEW i \in 1..Len(p), NEW j \in 1..Len(p), p[i] = p[j]
      PROVE  i = j
  <2>1. CASE i = n + 1 \/ j = n + 1
    BY <1>1, <1>2, <2>1 DEF Placed
  <2>2. CASE i # n + 1 /\ j # n + 1
    <3>1. at(i) = at(j)
      BY <1>1, <1>2, <2>2 DEF Distinct
    <3>2. QED BY <3>1, <2>2
  <2>3. QED BY <2>1, <2>2
<1>3. QED BY <1>2 DEF Distinct

LEMMA SortedJoins ==
  ASSUME NEW q \in Seq(Reserve), NEW r \in Reserve
  PROVE  Joined(Sorted(q, r), q, r)
<1>1. Sorted(q, r) \in Seq(Reserve)
  BY SortedPlaces
<1>2. PICK n \in 0..Len(q) :
        Placed(Sorted(q, r), q, n, r) /\ (Ordered(q) => Splits(q, n, r.start))
  BY SortedPlaces
<1> DEFINE p == Sorted(q, r)
<1> HIDE DEF p
<1>3. p \in Seq(Reserve) /\ Placed(p, q, n, r) /\ (Ordered(q) => Splits(q, n, r.start))
  BY <1>1, <1>2 DEF p
<1>4. Elements(p) = Elements(q) \cup {r}
  BY <1>3, PlacedElements
<1>5. Ordered(q) => Ordered(p)
  BY <1>3, PlacedOrdered
<1>6. Distinct(q) /\ r \notin Elements(q) => Distinct(p)
  BY <1>3, PlacedDistinct
<1>7. Joined(p, q, r)
  BY <1>3, <1>4, <1>5, <1>6 DEF Joined
<1>8. QED BY <1>7 DEF p

(* on_add_reserves and the others add no reserve that is there already.     *)
LEMMA AddedJoins ==
  ASSUME NEW q \in Seq(Reserve), NEW r \in Reserve
  PROVE  /\ Added(q, r) \in Seq(Reserve)
         /\ Elements(Added(q, r)) = Elements(q) \cup {r}
         /\ Ordered(q) => Ordered(Added(q, r))
         /\ Distinct(q) => Distinct(Added(q, r))
         /\ r \notin Elements(q) => Added(q, r) = Sorted(q, r)
<1>1. Listed(q, r) <=> r \in Elements(q)
  BY DEF Listed, Elements
<1>2. CASE r \in Elements(q)
  BY <1>1, <1>2 DEF Added
<1>3. CASE r \notin Elements(q)
  BY <1>1, <1>3, SortedJoins DEF Added, Joined
<1>4. QED BY <1>2, <1>3

-----------------------------------------------------------------------------
(* Adding the reserves rs of a series, one after the other.                 *)
IsAdds(add, q, rs, n) ==
  add = [i \in 0..n |-> IF i = 0 THEN q ELSE Added(add[i - 1], rs[i])]
Adds(q, rs) == CHOOSE add : IsAdds(add, q, rs, Len(rs))

LEMMA AddsExists ==
  ASSUME NEW q, NEW rs, NEW k \in Nat
  PROVE  \E add : IsAdds(add, q, rs, k)
<1> DEFINE Some(n) == \E add : IsAdds(add, q, rs, n)
           T == {n \in Nat : Some(n)}
<1>1. Some(0)
  <2> DEFINE a == [i \in 0..0 |-> q]
  <2>1. a = [i \in 0..0 |-> IF i = 0 THEN q ELSE Added(a[i - 1], rs[i])]
    OBVIOUS
  <2>2. QED BY <2>1 DEF IsAdds
<1>2. ASSUME NEW n \in T PROVE Some(n + 1)
  <2>1. PICK a : a = [i \in 0..n |-> IF i = 0 THEN q ELSE Added(a[i - 1], rs[i])]
    BY DEF T, IsAdds
  <2> DEFINE b == [i \in 0..(n + 1) |-> IF i = n + 1 THEN Added(a[n], rs[n + 1]) ELSE a[i]]
  <2>2. n \in Nat
    OBVIOUS
  <2>3. ASSUME NEW i \in 0..(n + 1)
        PROVE  b[i] = IF i = 0 THEN q ELSE Added(b[i - 1], rs[i])
    <3>1. CASE i = 0
      BY <3>1, <2>1, <2>2
    <3>2. CASE i # 0 /\ i <= n
      <4>1. b[i] = a[i] /\ b[i - 1] = a[i - 1]
        BY <3>2, <2>2
      <4>2. a[i] = Added(a[i - 1], rs[i])
        BY <3>2, <2>1, <2>2
      <4>3. QED BY <4>1, <4>2, <3>2
    <3>3. CASE i = n + 1
      <4>1. b[i - 1] = a[n] /\ b[i] = Added(a[n], rs[n + 1]) /\ i # 0
        BY <3>3, <2>2
      <4>2. QED BY <4>1, <3>3
    <3>4. QED BY <3>1, <3>2, <3>3, <2>2
  <2>4. b = [i \in 0..(n + 1) |-> b[i]]
    OBVIOUS
  <2> HIDE DEF b
  <2>5. b = [i \in 0..(n + 1) |-> IF i = 0 THEN q ELSE Added(b[i - 1], rs[i])]
    BY <2>3, <2>4
  <2>6. QED BY <2>5 DEF IsAdds
<1> HIDE DEF Some
<1>3. 0 \in T /\ \A n \in T : n + 1 \in T
  BY <1>1, <1>2
<1>4. T = Nat
  BY <1>3, Induct
<1>5. Some(k)
  BY <1>4
<1>6. QED BY <1>5 DEF Some

LEMMA AddsIs ==
  ASSUME NEW q, NEW rs, Len(rs) \in Nat
  PROVE  /\ AllAdded(q, rs) = Adds(q, rs)[Len(rs)]
         /\ Adds(q, rs)[0] = q
         /\ \A i \in 1..Len(rs) : Adds(q, rs)[i] = Added(Adds(q, rs)[i - 1], rs[i])
<1>1. AllAdded(q, rs) = Adds(q, rs)[Len(rs)]
  BY DEF AllAdded, Adds, IsAdds
<1>2. IsAdds(Adds(q, rs), q, rs, Len(rs))
  <2>1. \E add : IsAdds(add, q, rs, Len(rs))
    BY AddsExists
  <2>2. QED BY <2>1 DEF Adds
<1> DEFINE a == Adds(q, rs)
<1> HIDE DEF a
<1>3. a = [i \in 0..Len(rs) |-> IF i = 0 THEN q ELSE Added(a[i - 1], rs[i])]
  BY <1>2 DEF a, IsAdds
<1>4. a[0] = q /\ \A i \in 1..Len(rs) : a[i] = Added(a[i - 1], rs[i])
  BY <1>3
<1>5. QED BY <1>1, <1>4 DEF a

(* What has been added after k of them.                                     *)
UpToNow(rs, k) == {rs[i] : i \in 1..k}

LEMMA AddsJoin ==
  ASSUME NEW q \in Seq(Reserve), NEW rs \in Seq(Reserve)
  PROVE  \A k \in 0..Len(rs) :
           /\ Adds(q, rs)[k] \in Seq(Reserve)
           /\ Elements(Adds(q, rs)[k]) = Elements(q) \cup UpToNow(rs, k)
           /\ Ordered(q) => Ordered(Adds(q, rs)[k])
           /\ Distinct(q) => Distinct(Adds(q, rs)[k])
<1> DEFINE Good(k) ==
             /\ Adds(q, rs)[k] \in Seq(Reserve)
             /\ Elements(Adds(q, rs)[k]) = Elements(q) \cup UpToNow(rs, k)
             /\ Ordered(q) => Ordered(Adds(q, rs)[k])
             /\ Distinct(q) => Distinct(Adds(q, rs)[k])
           T == {k \in Nat : k <= Len(rs) => Good(k)}
<1>0. Len(rs) \in Nat
  OBVIOUS
<1>1. Good(0)
  <2>1. UpToNow(rs, 0) = {}
    BY DEF UpToNow
  <2>2. QED BY <1>0, <2>1, AddsIs
<1>2. ASSUME NEW k \in Nat, k + 1 <= Len(rs), Good(k) PROVE Good(k + 1)
  <2>1. k + 1 \in 1..Len(rs) /\ k + 1 - 1 = k
    BY <1>0, <1>2
  <2>2. Adds(q, rs)[k + 1] = Added(Adds(q, rs)[k], rs[k + 1])
    BY <1>0, <2>1, AddsIs
  <2>3. rs[k + 1] \in Reserve
    BY <2>1
  <2>4. UpToNow(rs, k + 1) = UpToNow(rs, k) \cup {rs[k + 1]}
    <3>1. 1..(k + 1) = 1..k \cup {k + 1}
      BY <1>2
    <3>2. QED BY <3>1 DEF UpToNow
  <2> DEFINE a == Adds(q, rs)[k]
             x == rs[k + 1]
  <2>5. /\ a \in Seq(Reserve) /\ x \in Reserve
        /\ Elements(a) = Elements(q) \cup UpToNow(rs, k)
        /\ Ordered(q) => Ordered(a)
        /\ Distinct(q) => Distinct(a)
    BY <1>2, <2>3
  <2>6. Adds(q, rs)[k + 1] = Added(a, x) /\ UpToNow(rs, k + 1) = UpToNow(rs, k) \cup {x}
    BY <2>2, <2>4
  <2> HIDE DEF a, x
  <2>7. QED BY <2>5, <2>6, AddedJoins
<1> HIDE DEF Good
<1>3. ASSUME NEW k \in T PROVE k + 1 \in T
  BY <1>0, <1>2
<1>4. 0 \in T
  BY <1>1
<1>5. T = Nat
  BY <1>3, <1>4, Induct
<1>6. \A k \in 0..Len(rs) : Good(k)
  BY <1>0, <1>5
<1>7. QED BY <1>6 DEF Good

LEMMA AllAddedJoins ==
  ASSUME NEW q \in Seq(Reserve), NEW rs \in Seq(Reserve)
  PROVE  /\ AllAdded(q, rs) \in Seq(Reserve)
         /\ Elements(AllAdded(q, rs)) = Elements(q) \cup Elements(rs)
         /\ Ordered(q) => Ordered(AllAdded(q, rs))
         /\ Distinct(q) => Distinct(AllAdded(q, rs))
<1>1. Len(rs) \in Nat /\ Len(rs) \in 0..Len(rs)
  OBVIOUS
<1>2. AllAdded(q, rs) = Adds(q, rs)[Len(rs)]
  BY <1>1, AddsIs
<1>3. UpToNow(rs, Len(rs)) = Elements(rs)
  BY DEF UpToNow, Elements
<1>4. QED BY <1>1, <1>2, <1>3, AddsJoin

-----------------------------------------------------------------------------
(* What a reserve that is added does to the brackets.                       *)
LEMMA StartsAreNat ==
  ASSUME NEW q \in Seq(Reserve)
  PROVE  \A i \in 1..Len(q) : q[i].start \in Nat
<1>1. \A x \in Reserve : x.start \in Nat
  BY DEF Reserve
<1>2. QED BY <1>1

(* Where the element at i of q went.                                        *)
LEMMA PlacedAt ==
  ASSUME NEW q \in Seq(Reserve), NEW p, NEW n \in 0..Len(q), NEW r, Placed(p, q, n, r),
         NEW i \in 1..Len(q)
  PROVE  LET k == IF i <= n THEN i ELSE i + 1 IN k \in 1..Len(p) /\ p[k] = q[i]
<1>1. CASE i <= n
  BY <1>1 DEF Placed
<1>2. CASE ~(i <= n)
  <2>1. i + 1 \in 1..Len(p) /\ ~(i + 1 <= n) /\ i + 1 # n + 1 /\ i + 1 - 1 = i
    BY <1>2 DEF Placed
  <2>2. QED BY <1>2, <2>1 DEF Placed
<1>3. QED BY <1>1, <1>2

LEMMA SortedStaysOpen ==
  ASSUME NEW q \in Seq(Reserve), NEW r \in Reserve, NEW A, NEW B, NEW t \in Int,
         Open(q, A, B, t), r \in A => r.start <= t
  PROVE  Open(Sorted(q, r), A, B, t)
<1>1. PICK n \in 0..Len(q) : Placed(Sorted(q, r), q, n, r)
  BY SortedPlaces
<1> DEFINE p == Sorted(q, r)
<1>2. p \in Seq(Reserve) /\ Placed(p, q, n, r)
  BY <1>1, SortedPlaces
<1> HIDE DEF p
<1> DEFINE to(i) == IF i <= n THEN i ELSE i + 1
<1>3. ASSUME NEW i \in 1..Len(q) PROVE to(i) \in 1..Len(p) /\ p[to(i)] = q[i]
  BY <1>2, PlacedAt
<1>4. ASSUME NEW i \in 1..Len(p), p[i] \in A, ~(p[i].start <= t)
      PROVE  \E j \in 1..Len(p) : i <= j /\ p[j] \in B
  <2>1. i # n + 1
    BY <1>2, <1>4 DEF Placed
  <2>2. PICK k \in 1..Len(q) : i = to(k)
    <3>1. CASE i <= n
      BY <3>1
    <3>2. CASE ~(i <= n)
      <4>1. i - 1 \in 1..Len(q) /\ ~(i - 1 <= n) /\ i - 1 + 1 = i
        BY <3>2, <2>1, <1>2 DEF Placed
      <4>2. QED BY <4>1
    <3>3. QED BY <3>1, <3>2
  <2>3. p[i] = q[k]
    BY <1>3, <2>2
  <2>4. PICK j \in 1..Len(q) : k <= j /\ q[j] \in B
    BY <1>4, <2>3 DEF Open
  <2>5. i <= to(j) /\ to(j) \in 1..Len(p) /\ p[to(j)] \in B
    <3>1. i <= to(j)
      BY <2>2, <2>4
    <3>2. QED BY <3>1, <2>4, <1>3
  <2>6. QED BY <2>5
<1>5. Open(p, A, B, t)
  BY <1>4 DEF Open
<1>6. QED BY <1>5 DEF p

LEMMA SortedCloses ==
  ASSUME NEW q \in Seq(Reserve), NEW r \in Reserve, NEW A, NEW B, NEW t \in Nat,
         Ordered(q), Open(q, A, B, t), r \in B, t <= r.start
  PROVE  Closed(Sorted(q, r), A, B)
<1>1. PICK n \in 0..Len(q) : Placed(Sorted(q, r), q, n, r) /\ Splits(q, n, r.start)
  BY SortedPlaces
<1> DEFINE p == Sorted(q, r)
<1>2. p \in Seq(Reserve) /\ Placed(p, q, n, r)
  BY <1>1, SortedPlaces
<1> HIDE DEF p
<1>3. ASSUME NEW i \in 1..Len(q)
      PROVE  LET k == IF i <= n THEN i ELSE i + 1 IN k \in 1..Len(p) /\ p[k] = q[i]
  BY <1>2, PlacedAt
<1>4. ASSUME NEW i \in 1..Len(p), p[i] \in A
      PROVE  \E j \in 1..Len(p) : i <= j /\ p[j] \in B
  <2>1. CASE i <= n + 1
    <3>1. n + 1 \in 1..Len(p) /\ p[n + 1] = r
      BY <1>2 DEF Placed
    <3>2. QED BY <2>1, <3>1
  <2>2. CASE ~(i <= n + 1)
    <3>1. i - 1 \in 1..Len(q) /\ ~(i - 1 <= n) /\ p[i] = q[i - 1]
      BY <2>2, <1>2 DEF Placed
    <3>2. ~(q[i - 1].start <= r.start)
      BY <1>1, <3>1 DEF Splits
    <3>3. q[i - 1].start \in Nat /\ r.start \in Nat
      BY <3>1, StartsAreNat DEF Reserve
    <3>4. ~(q[i - 1].start <= t)
      BY <3>2, <3>3
    <3>5. PICK j \in 1..Len(q) : i - 1 <= j /\ q[j] \in B
      BY <1>4, <3>1, <3>4 DEF Open
    <3>6. ~(j <= n) /\ i <= j + 1
      BY <2>2, <3>5
    <3>7. QED BY <1>3, <3>5, <3>6
  <2>3. QED BY <2>1, <2>2
<1>5. Closed(p, A, B)
  BY <1>4 DEF Closed
<1>6. QED BY <1>5 DEF p

(* A series in the order of its times keeps what is closed closed, when its *)
(* last reserve is new and of B.                                            *)
LEMMA AllAddedCloses ==
  ASSUME NEW q \in Seq(Reserve), NEW rs \in Seq(Reserve), NEW A, NEW B,
         Ordered(q), Closed(q, A, B), Ordered(rs), Len(rs) # 0, rs[Len(rs)] \in B,
         rs[Len(rs)] \notin Elements(q) \cup UpToNow(rs, Len(rs) - 1)
  PROVE  Closed(AllAdded(q, rs), A, B)
<1> DEFINE m == Len(rs) - 1
           l == rs[Len(rs)]
           t == l.start
           Good(k) == Open(Adds(q, rs)[k], A, B, t)
           T == {k \in Nat : k <= m => Good(k)}
<1>1. /\ m \in Nat /\ Len(rs) = m + 1 /\ Len(rs) \in 1..Len(rs)
      /\ l \in Reserve /\ t \in Nat
  BY StartsAreNat
<1>2. Good(0)
  <2>1. Adds(q, rs)[0] = q
    BY <1>1, AddsIs
  <2>2. QED BY <2>1 DEF Closed, Open
<1>3. ASSUME NEW k \in Nat, k + 1 <= m, Good(k) PROVE Good(k + 1)
  <2>1. k + 1 \in 1..Len(rs) /\ k + 1 - 1 = k /\ k \in 0..Len(rs)
    BY <1>1, <1>3
  <2> DEFINE a == Adds(q, rs)[k]
             x == rs[k + 1]
  <2>2. Adds(q, rs)[k + 1] = Added(a, x)
    BY <1>1, <2>1, AddsIs
  <2>3. a \in Seq(Reserve) /\ Open(a, A, B, t) /\ x \in Reserve
    BY <2>1, <1>3, AddsJoin
  <2>4. x.start <= t
    BY <1>1, <2>1 DEF Ordered
  <2> HIDE DEF a, x
  <2>5. Open(Added(a, x), A, B, t)
    BY <1>1, <2>3, <2>4, SortedStaysOpen DEF Added
  <2>6. QED BY <2>2, <2>5
<1> HIDE DEF Good
<1>4. \A k \in T : k + 1 \in T
  BY <1>1, <1>3
<1>5. 0 \in T
  BY <1>2
<1>6. T = Nat
  BY <1>4, <1>5, Induct
<1>7. Good(m)
  BY <1>1, <1>6
<1> DEFINE a == Adds(q, rs)[m]
<1>8. /\ a \in Seq(Reserve) /\ Ordered(a)
      /\ Elements(a) = Elements(q) \cup UpToNow(rs, m)
  BY <1>1, AddsJoin
<1>9. AllAdded(q, rs) = Added(a, l)
  <2>1. Len(rs) \in 1..Len(rs) /\ Len(rs) - 1 = m
    BY <1>1
  <2>2. QED BY <1>1, <2>1, AddsIs
<1>10. Open(a, A, B, t)
  BY <1>7 DEF Good
<1>11. l \notin Elements(a) /\ l \in B
  BY <1>8
<1> HIDE DEF a, l, Good, T
<1>12. Added(a, l) = Sorted(a, l)
  BY <1>1, <1>8, <1>11, AddedJoins
<1>13. t <= l.start /\ t \in Nat
  BY <1>1
<1>14. Closed(Sorted(a, l), A, B)
  BY <1>1, <1>8, <1>10, <1>11, <1>13, SortedCloses
<1>15. QED BY <1>9, <1>12, <1>14

LEMMA SortedStaysClosed ==
  ASSUME NEW q \in Seq(Reserve), NEW r \in Reserve, NEW A, NEW B,
         Closed(q, A, B), r \notin A
  PROVE  Closed(Sorted(q, r), A, B)
<1> DEFINE t == 0 - 1
<1>1. t \in Int /\ Open(q, A, B, t)
  BY DEF Closed, Open
<1>2. Open(Sorted(q, r), A, B, t)
  BY <1>1, SortedStaysOpen
<1>3. \A i \in 1..Len(Sorted(q, r)) : ~(Sorted(q, r)[i].start <= t)
  <2>1. Sorted(q, r) \in Seq(Reserve)
    BY SortedPlaces
  <2>2. QED BY <2>1, StartsAreNat
<1>4. QED BY <1>2, <1>3 DEF Closed, Open

-----------------------------------------------------------------------------
(* The reserve that is taken is the first one, for they are in order.       *)
Due(k) == k \in DOMAIN reserves /\ reserves[k].start <= now

LEMMA TakesFirst ==
  ASSUME reserves \in Seq(Reserve), now \in Nat, Ordered(reserves), NEW k, Due(k)
  PROVE  LET due == {i \in DOMAIN reserves : reserves[i].start <= now}
         IN  /\ (CHOOSE i \in due : \A j \in due : i <= j) = 1
             /\ Len(reserves) # 0
<1> DEFINE due == {i \in DOMAIN reserves : reserves[i].start <= now}
<1>1. DOMAIN reserves = 1..Len(reserves) /\ k \in 1..Len(reserves)
  BY DEF Due
<1>2. 1 \in due
  <2>1. 1 \in 1..Len(reserves) /\ reserves[1].start <= reserves[k].start
    BY <1>1 DEF Ordered
  <2>2. reserves[1].start \in Nat /\ reserves[k].start \in Nat
    BY <1>1, <2>1, StartsAreNat
  <2>3. QED BY <1>1, <2>1, <2>2 DEF Due
<1>3. \A j \in due : j \in Nat /\ 1 <= j
  BY <1>1
<1> HIDE DEF due
<1>4. ASSUME NEW i \in due, \A j \in due : i <= j PROVE i = 1
  BY <1>2, <1>3, <1>4
<1>5. (CHOOSE i \in due : \A j \in due : i <= j) = 1
  BY <1>2, <1>3, <1>4
<1>6. QED BY <1>1, <1>5 DEF due

LEMMA Behind ==
  ASSUME NEW S, NEW q \in Seq(S), NEW n \in 0..Len(q)
  PROVE  LET b == SubSeq(q, n + 1, Len(q))
         IN  b \in Seq(S) /\ Len(b) = Len(q) - n /\ \A i \in 1..Len(b) : b[i] = q[i + n]
OBVIOUS

LEMMA WithoutFirst ==
  ASSUME NEW q \in Seq(Reserve), Len(q) # 0
  PROVE  LET w == Without(q, 1)
         IN  /\ q[1] \in Reserve /\ w \in Seq(Reserve)
             /\ Len(w) = Len(q) - 1
             /\ \A i \in 1..Len(w) : w[i] = q[i + 1]
             /\ Elements(q) = Elements(w) \cup {q[1]}
             /\ Ordered(q) => Ordered(w)
             /\ Distinct(q) => Distinct(w) /\ q[1] \notin Elements(w)
<1> DEFINE w == Without(q, 1)
<1>1. /\ q[1] \in Reserve /\ w \in Seq(Reserve) /\ Len(w) = Len(q) - 1
      /\ \A i \in 1..Len(w) : w[i] = q[i + 1]
  <2> DEFINE b == SubSeq(q, 1 + 1, Len(q))
             a == SubSeq(q, 1, 1 - 1)
  <2>1. b \in Seq(Reserve) /\ Len(b) = Len(q) - 1 /\ \A i \in 1..Len(b) : b[i] = q[i + 1]
    <3>1. 1 \in 0..Len(q)
      OBVIOUS
    <3>2. QED BY <3>1, Behind
  <2>2. a \in Seq(Reserve) /\ Len(a) = 0
    OBVIOUS
  <2> HIDE DEF a, b
  <2>3. a \o b \in Seq(Reserve) /\ Len(a \o b) = Len(b) /\ \A i \in 1..Len(b) : (a \o b)[i] = b[i]
    BY <2>1, <2>2
  <2>4. w = a \o b
    BY DEF Without, a, b
  <2>5. q[1] \in Reserve
    OBVIOUS
  <2> HIDE DEF w
  <2>6. QED BY <2>1, <2>3, <2>4, <2>5
<1> HIDE DEF w
<1>2. Elements(q) = Elements(w) \cup {q[1]}
  <2>1. ASSUME NEW i \in 1..Len(q) PROVE q[i] \in Elements(w) \cup {q[1]}
    <3>1. CASE i # 1
      <4>1. i - 1 \in 1..Len(w) /\ i - 1 + 1 = i
        BY <1>1, <3>1
      <4>2. w[i - 1] = q[i]
        BY <1>1, <4>1
      <4>3. QED BY <4>1, <4>2 DEF Elements
    <3>2. QED BY <3>1
  <2>2. ASSUME NEW i \in 1..Len(w) PROVE w[i] \in Elements(q)
    <3>1. i + 1 \in 1..Len(q) /\ w[i] = q[i + 1]
      BY <1>1
    <3>2. QED BY <3>1 DEF Elements
  <2>3. q[1] \in Elements(q)
    <3>1. 1 \in 1..Len(q)
      OBVIOUS
    <3>2. QED BY <3>1 DEF Elements
  <2>4. Elements(q) \subseteq Elements(w) \cup {q[1]}
    BY <2>1 DEF Elements
  <2>5. Elements(w) \subseteq Elements(q)
    BY <2>2 DEF Elements
  <2>6. QED BY <2>3, <2>4, <2>5
<1>3. ASSUME Ordered(q) PROVE Ordered(w)
  <2>1. ASSUME NEW i \in 1..Len(w), NEW j \in 1..Len(w), i <= j
        PROVE  w[i].start <= w[j].start
    <3>1. /\ i + 1 \in 1..Len(q) /\ j + 1 \in 1..Len(q) /\ i + 1 <= j + 1
          /\ w[i] = q[i + 1] /\ w[j] = q[j + 1]
      BY <1>1, <2>1
    <3>2. QED BY <3>1, <1>3 DEF Ordered
  <2>2. QED BY <2>1 DEF Ordered
<1>4. ASSUME Distinct(q) PROVE Distinct(w) /\ q[1] \notin Elements(w)
  <2>1. ASSUME NEW i \in 1..Len(w), NEW j \in 1..Len(w), w[i] = w[j] PROVE i = j
    <3>1. /\ i + 1 \in 1..Len(q) /\ j + 1 \in 1..Len(q) /\ q[i + 1] = q[j + 1]
      BY <1>1, <2>1
    <3>2. i + 1 = j + 1
      BY <3>1, <1>4 DEF Distinct
    <3>3. QED BY <3>2
  <2>2. ASSUME NEW i \in 1..Len(w), w[i] = q[1] PROVE FALSE
    <3>1. i + 1 \in 1..Len(q) /\ 1 \in 1..Len(q) /\ q[i + 1] = q[1] /\ i + 1 # 1
      BY <1>1, <2>2
    <3>2. QED BY <3>1, <1>4 DEF Distinct
  <2>3. QED BY <2>1, <2>2 DEF Distinct, Elements
<1>5. QED BY <1>1, <1>2, <1>3, <1>4 DEF w

(* What follows the first stays closed, and has the end of the first.       *)
LEMMA WithoutFirstCloses ==
  ASSUME NEW q \in Seq(Reserve), Len(q) # 0, NEW A, NEW B, Closed(q, A, B)
  PROVE  /\ Closed(Without(q, 1), A, B)
         /\ q[1] \in A => \E r \in Elements(q) : r \in B
<1> DEFINE w == Without(q, 1)
<1>1. w \in Seq(Reserve) /\ Len(w) = Len(q) - 1 /\ \A i \in 1..Len(w) : w[i] = q[i + 1]
  BY WithoutFirst
<1> HIDE DEF w
<1>2. ASSUME NEW i \in 1..Len(w), w[i] \in A PROVE \E j \in 1..Len(w) : i <= j /\ w[j] \in B
  <2>1. i + 1 \in 1..Len(q) /\ q[i + 1] \in A
    BY <1>1, <1>2
  <2>2. PICK j \in 1..Len(q) : i + 1 <= j /\ q[j] \in B
    BY <2>1 DEF Closed
  <2>3. j - 1 \in 1..Len(w) /\ i <= j - 1 /\ j - 1 + 1 = j
    BY <1>1, <2>2
  <2>4. w[j - 1] = q[j]
    BY <1>1, <2>3
  <2>5. QED BY <2>2, <2>3, <2>4
<1>3. ASSUME q[1] \in A PROVE \E r \in Elements(q) : r \in B
  <2>1. 1 \in 1..Len(q)
    OBVIOUS
  <2>2. PICK j \in 1..Len(q) : q[j] \in B
    BY <1>3, <2>1 DEF Closed
  <2>3. QED BY <2>2 DEF Elements
<1>4. Closed(w, A, B)
  BY <1>2 DEF Closed
<1>5. QED BY <1>3, <1>4 DEF w

-----------------------------------------------------------------------------
(* The reserves that make the state busy and ready, and that also tell it.  *)
Begin  == {r \in Reserve : "S" \in r.flags}
End    == {r \in Reserve : "E" \in r.flags}
BeginN == {r \in Reserve : {"S", "N"} \subseteq r.flags}
EndN   == {r \in Reserve : {"E", "N"} \subseteq r.flags}

(* A reserve that is tried again if it fails, and the retry of one.         *)
First(r) == r.kind = "normal" /\ "R" \in r.flags
Again(r) == r.kind = "normal" /\ "R" \notin r.flags
Same(r, x) == r.ch = x.ch /\ r.of = x.of

Shape(r) ==
  /\ r.kind # "init"
  /\ r.kind = "force" => r.flags = {"S", "E"} /\ r.of[1] = "force"
  /\ "N" \in r.flags => "S" \in r.flags \/ "E" \in r.flags

(* The last of rs ends the series, and no other one does.                   *)
LastEnds(rs) ==
  /\ rs[Len(rs)] \in EndN
  /\ rs[Len(rs)] \notin UpToNow(rs, Len(rs) - 1)

LEMMA EndIsLast ==
  ASSUME NEW rs \in Seq(Reserve), Len(rs) # 0, "N" \in rs[Len(rs)].flags,
         \A i \in 1..Len(rs) : "E" \in rs[i].flags <=> i = Len(rs)
  PROVE  LastEnds(rs)
<1>1. Len(rs) \in 1..Len(rs)
  OBVIOUS
<1>2. rs[Len(rs)] \in EndN
  BY <1>1 DEF EndN
<1>3. ASSUME NEW i \in 1..(Len(rs) - 1) PROVE rs[i] # rs[Len(rs)]
  <2>1. i \in 1..Len(rs) /\ i # Len(rs)
    BY <1>1
  <2>2. "E" \notin rs[i].flags /\ "E" \in rs[Len(rs)].flags
    BY <1>1, <2>1
  <2>3. QED BY <2>2
<1>4. QED BY <1>2, <1>3 DEF LastEnds, UpToNow

LEMMA ListOf ==
  ASSUME NEW S, NEW n \in Nat, NEW f, f = [i \in 1..n |-> f[i]], \A i \in 1..n : f[i] \in S
  PROVE  f \in Seq(S) /\ Len(f) = n
OBVIOUS

LEMMA RetriesAre ==
  ASSUME NEW q \in Seq(Reserve), \A x \in Elements(q) : x.kind = "normal"
  PROVE  LET rs == RetrySeries(q)
         IN  /\ rs \in Seq(Reserve) /\ Len(rs) = Len(q)
             /\ \A y \in Elements(rs) :
                  Again(y) /\ Shape(y) /\ \E x \in Elements(q) : Same(y, x)
             /\ Ordered(q) => Ordered(rs)
             /\ Len(q) # 0 => LastEnds(rs)
<1> DEFINE n == Len(q)
           fl(i) == (IF i = 1 THEN {"S", "N"} ELSE {}) \cup (IF i = n THEN {"E", "N"} ELSE {})
           at(i) == [q[i] EXCEPT !.flags = fl(i)]
           rs == RetrySeries(q)
<1>1. n \in Nat /\ DOMAIN q = 1..n /\ \A i \in 1..n : q[i] \in Reserve
  OBVIOUS
<1>2. rs = [i \in 1..n |-> at(i)]
  BY <1>1 DEF RetrySeries
<1>3. ASSUME NEW i
      PROVE  /\ fl(i) \in SUBSET {"S", "E", "N", "R"} /\ "R" \notin fl(i)
             /\ "E" \in fl(i) <=> i = n
             /\ "N" \in fl(i) <=> i = 1 \/ i = n
             /\ "S" \in fl(i) <=> i = 1
  OBVIOUS
<1> HIDE DEF fl, n
<1>4. ASSUME NEW i \in 1..n
      PROVE  /\ at(i) \in Reserve /\ at(i).flags = fl(i) /\ at(i).start = q[i].start
             /\ at(i).kind = q[i].kind /\ Same(at(i), q[i])
  <2>1. q[i] \in Reserve /\ fl(i) \in SUBSET {"S", "E", "N", "R"}
    BY <1>1, <1>3
  <2>2. QED BY <2>1 DEF Reserve, Same
<1> HIDE DEF at, rs
<1>5. rs \in Seq(Reserve) /\ Len(rs) = n /\ \A i \in 1..n : rs[i] = at(i)
  <2>1. \A i \in 1..n : rs[i] = at(i)
    BY <1>2
  <2>2. rs = [i \in 1..n |-> rs[i]]
    BY <1>2
  <2>3. QED BY <1>1, <1>4, <2>1, <2>2, ListOf
<1>6. ASSUME NEW i \in 1..n
      PROVE  /\ rs[i] \in Reserve /\ rs[i].flags = fl(i) /\ rs[i].start = q[i].start
             /\ rs[i].kind = "normal" /\ Same(rs[i], q[i]) /\ q[i] \in Elements(q)
  <2>1. q[i] \in Elements(q)
    BY DEF Elements, n
  <2>2. QED BY <2>1, <1>4, <1>5
<1>7. ASSUME NEW i \in 1..n PROVE Again(rs[i]) /\ Shape(rs[i])
  BY <1>3, <1>6 DEF Again, Shape
<1>8. ASSUME Ordered(q) PROVE Ordered(rs)
  BY <1>5, <1>6, <1>8 DEF Ordered, n
<1>9. ASSUME n # 0 PROVE LastEnds(rs)
  <2>1. \A i \in 1..n : "E" \in rs[i].flags <=> i = n
    BY <1>3, <1>6
  <2>2. n \in 1..n
    BY <1>1, <1>9
  <2>3. "N" \in rs[n].flags
    BY <2>2, <1>3, <1>6
  <2>4. QED BY <1>5, <1>9, <2>1, <2>3, EndIsLast
<1>10. \A y \in Elements(rs) : Again(y) /\ Shape(y) /\ \E x \in Elements(q) : Same(y, x)
  BY <1>5, <1>6, <1>7 DEF Elements
<1>11. QED BY <1>5, <1>8, <1>9, <1>10 DEF rs, n

LEMMA SeriesIs ==
  ASSUME NEW s \in [base : Nat, of : Origins]
  PROVE  LET rs == Series(s)
         IN  /\ rs \in Seq(Reserve) /\ Len(rs) # 0
             /\ \A y \in Elements(rs) : First(y) /\ Shape(y) /\ y.of = s.of
             /\ \A y, z \in Elements(rs) : Same(y, z) => y = z
             /\ Ordered(rs)
             /\ LastEnds(rs)
<1> DEFINE n == Len(Channels)
           fl(i) == {"R"} \cup (IF i = 1 THEN {"S", "N"} ELSE {})
                          \cup (IF i = n THEN {"E", "N"} ELSE {})
           at(i) == [ch |-> Channels[i], start |-> s.base + i - 1, of |-> s.of,
                     kind |-> "normal", flags |-> fl(i)]
           rs == Series(s)
<1>1. /\ n \in Nat /\ n # 0 /\ DOMAIN Channels = 1..n
      /\ \A i \in 1..n : Channels[i] \in Nat
      /\ \A i, j \in 1..n : Channels[i] = Channels[j] => i = j
  BY ChannelsAre
<1>2. rs = [i \in 1..n |-> at(i)]
  BY <1>1 DEF Series
<1>3. ASSUME NEW i
      PROVE  /\ fl(i) \in SUBSET {"S", "E", "N", "R"} /\ "R" \in fl(i)
             /\ "E" \in fl(i) <=> i = n
             /\ "N" \in fl(i) <=> i = 1 \/ i = n
             /\ "S" \in fl(i) <=> i = 1
  OBVIOUS
<1>4. s.base \in Nat /\ s.of \in Origins
  OBVIOUS
<1> HIDE DEF fl, n
<1>5. ASSUME NEW i \in 1..n
      PROVE  /\ at(i) \in Reserve /\ at(i).flags = fl(i) /\ at(i).start = s.base + i - 1
             /\ at(i).kind = "normal" /\ at(i).ch = Channels[i] /\ at(i).of = s.of
  <2>1. s.base + i - 1 \in Nat
    BY <1>1, <1>4
  <2>2. at(i) \in Reserve
    BY <1>1, <1>3, <1>4, <2>1 DEF Reserve
  <2>3. QED BY <2>2
<1> HIDE DEF at, rs
<1>6. rs \in Seq(Reserve) /\ Len(rs) = n /\ \A i \in 1..n : rs[i] = at(i)
  <2>1. \A i \in 1..n : rs[i] = at(i)
    BY <1>2
  <2>2. rs = [i \in 1..n |-> rs[i]]
    BY <1>2
  <2>3. QED BY <1>1, <1>5, <2>1, <2>2, ListOf
<1>7. ASSUME NEW i \in 1..n
      PROVE  /\ rs[i] \in Reserve /\ rs[i].flags = fl(i) /\ rs[i].start = s.base + i - 1
             /\ rs[i].kind = "normal" /\ rs[i].ch = Channels[i] /\ rs[i].of = s.of
  BY <1>5, <1>6
<1>8. ASSUME NEW i \in 1..n PROVE First(rs[i]) /\ Shape(rs[i]) /\ rs[i].of = s.of
  BY <1>3, <1>7 DEF First, Shape
<1>9. Ordered(rs)
  <2>1. ASSUME NEW i \in 1..n, NEW j \in 1..n, i <= j PROVE rs[i].start <= rs[j].start
    <3>1. rs[i].start = s.base + i - 1 /\ rs[j].start = s.base + j - 1
      BY <1>7
    <3>2. s.base + i - 1 <= s.base + j - 1
      BY <1>1, <1>4, <2>1
    <3>3. QED BY <3>1, <3>2
  <2>2. QED BY <1>6, <2>1 DEF Ordered
<1>10. LastEnds(rs)
  <2>1. \A i \in 1..n : "E" \in rs[i].flags <=> i = n
    BY <1>3, <1>7
  <2>2. n \in 1..n
    BY <1>1
  <2>3. "N" \in rs[n].flags
    BY <2>2, <1>3, <1>7
  <2>4. QED BY <1>1, <1>6, <2>1, <2>3, EndIsLast
<1>11. \A y \in Elements(rs) : First(y) /\ Shape(y) /\ y.of = s.of
  BY <1>6, <1>8 DEF Elements
<1>12. ASSUME NEW y \in Elements(rs), NEW z \in Elements(rs), Same(y, z) PROVE y = z
  <2>1. PICK i \in 1..n : y = rs[i]
    BY <1>6 DEF Elements
  <2>2. PICK j \in 1..n : z = rs[j]
    BY <1>6 DEF Elements
  <2>3. Channels[i] = Channels[j]
    BY <1>7, <1>12, <2>1, <2>2 DEF Same
  <2>4. QED BY <1>1, <2>1, <2>2, <2>3
<1>13. QED BY <1>1, <1>6, <1>9, <1>10, <1>11, <1>12 DEF rs

-----------------------------------------------------------------------------
(* The inductive invariant.                                                 *)
InOrder == Ordered(reserves) /\ Distinct(reserves)

Shapes ==
  /\ \A r \in Elements(reserves) : Shape(r)
  /\ Executing => Shape(executing_reserve)
  /\ \A r \in Elements(retry_reserves) : r.kind = "normal"

(* The run's tuner and group.                                               *)
Working == {"infos", "enable", "look", "disable"}
RunShape ==
  /\ run.group # NoGroup => run.pc \in {"tune"} \cup Working
  /\ run.pc = "tune" => run.group \in Groups
  /\ run.pc \in Working => run.work \in Groups

StopShape == asked => is_need_stop /\ Executing

(* One force request at a time: its group stands, and a forced reserve has  *)
(* its requester waiting for it.                                            *)
Waits(r) == \E f \in Forcers : force[f].pc = "wait" /\ force[f].r = r
ForceShape ==
  "overlap" \notin odd =>
    /\ \A f, o \in Forcers : force[f].pc # "idle" /\ force[o].pc # "idle" => f = o
    /\ \A f \in Forcers : force[f].pc # "idle" => force_cache_group_id \in Groups
    /\ \A r \in Elements(reserves) \cup {executing_reserve} : r.kind = "force" => Waits(r)
    /\ run.pc # "lost"

(* No reserve is made twice: what a series or a retry adds is new.          *)
Used(o) == (o[1] = "day" /\ o[2] < next_day) \/ (o[1] = "ask" /\ o[2] <= asks)
Listings == Elements(reserves) \cup {executing_reserve} \cup Elements(retry_reserves)
Origin ==
  /\ \A s \in series : Used(s.of)
  /\ \A r \in Listings : r.kind = "normal" => Used(r.of) /\ \A s \in series : r.of # s.of
  /\ \A s, t \in series : s.of = t.of => s = t

Fresh ==
  /\ Ordered(retry_reserves)
  /\ \A r \in Elements(retry_reserves) : r.start <= now + RetryAfter
  /\ \A r \in Elements(reserves) \cup {executing_reserve},
        x \in Elements(reserves) \cup Elements(retry_reserves) :
       First(r) /\ Again(x) => ~Same(r, x)
  /\ \A r \in Elements(reserves) : First(executing_reserve) /\ First(r) => ~Same(executing_reserve, r)
  /\ \A r, x \in Elements(reserves) : First(r) /\ First(x) /\ Same(r, x) => r = x
  /\ \A x \in Elements(retry_reserves), y \in Elements(reserves) : Again(y) => ~Same(x, y)

(* What begins has its end behind it.                                       *)
Comes(B) == \E r \in Elements(reserves) \cup {executing_reserve} : r \in B
Brackets ==
  "late" \notin odd =>
    /\ Closed(reserves, Begin, End) /\ Closed(reserves, BeginN, EndN)
    /\ executing_reserve \in Begin => Comes(End)
    /\ executing_reserve \in BeginN => Comes(EndN)
    /\ state = "busy" => Comes(End)
    /\ told = "busy" => Comes(EndN)
    /\ run.pc \notin {"off", "sent"} /\ "N" \in executing_reserve.flags => told = state

IInv ==
  /\ TypeOK /\ InOrder /\ Shapes /\ RunShape /\ LeavesNothing /\ StopShape /\ ForceShape
  /\ Origin /\ Fresh /\ Brackets

-----------------------------------------------------------------------------
(* The steps of the fibers, by what they do to the reserves.                *)

(* check2execute_reserves deletes the first reserve or executes it.         *)
Taken ==
  /\ ~Executing /\ Len(reserves) # 0
  /\ reserves' = Without(reserves, 1)
  /\ \/ /\ odd' = odd \cup (IF "E" \in reserves[1].flags THEN {"late"} ELSE {})
        /\ UNCHANGED <<executing_reserve, run>>
     \/ /\ executing_reserve' = reserves[1]
        /\ run' = [Off EXCEPT !.pc = "sent"]
        /\ UNCHANGED odd

LEMMA TakesOrNot ==
  ASSUME TypeOK, InOrder, TakeDue
  PROVE  Taken \/ UNCHANGED <<reserves, executing_reserve, run, odd>>
<1> DEFINE due == {i \in DOMAIN reserves : reserves[i].start <= now}
           i == CHOOSE k \in due : \A j \in due : k <= j
<1>1. SUFFICES ASSUME ~(~CacheEnabled \/ Executing \/ due = {})
               PROVE  Taken
  BY DEF TakeDue
<1>2. PICK k : Due(k)
  BY <1>1 DEF Due
<1>3. now \in Nat /\ reserves \in Seq(Reserve) /\ Ordered(reserves)
  BY EventScheduleAssumption DEF TypeOK, InOrder
<1>4. i = 1 /\ Len(reserves) # 0
  BY <1>2, <1>3, TakesFirst
<1> DEFINE Rest ==
             IF now >= reserves[i].start + Late
             THEN /\ odd' = odd \cup (IF "E" \in reserves[i].flags THEN {"late"} ELSE {})
                  /\ UNCHANGED <<executing_reserve, run>>
             ELSE /\ executing_reserve' = reserves[i]
                  /\ run' = [Off EXCEPT !.pc = "sent"]
                  /\ UNCHANGED odd
<1>5. ~Executing /\ reserves' = Without(reserves, i) /\ Rest
  BY <1>1 DEF TakeDue
<1> HIDE DEF i
<1>6. QED BY <1>4, <1>5 DEF Taken

(* do_exit with what is to be retried.                                      *)
Left(q) ==
  \/ q = retry_reserves
  \/ Has("R") /\ q = Append(retry_reserves, Retry(executing_reserve))

Waiting == run.pc \notin {"off", "sent"}
Ending == RunRest /\ Waiting /\ \E q : Left(q) /\ Ends(q, TRUE)
Moves  == RunRest /\ Waiting /\ Settled /\ run'.pc \notin {"off", "sent"}

LEMMA FailsEnds ==
  ASSUME RunRest, Waiting, Fails \/ Exits
  PROVE  Ending
<1>1. Left(retry_reserves) /\ Left(ToRetry)
  BY DEF Left, ToRetry
<1>2. QED BY <1>1 DEF Fails, Exits, Ending

LEMMA GoesTo ==
  ASSUME TypeOK, NEW pc, Goes(pc)
  PROVE  run'.pc = pc /\ run'.group = run.group /\ run'.work = run.work
BY DEF TypeOK, Goes

LEMMA WorksOnIt ==
  ASSUME TypeOK, NEW g, WorksOn(g)
  PROVE  /\ run'.pc = (IF g = NoGroup THEN "lost" ELSE "infos")
         /\ run'.group = run.group /\ run'.work = g
BY DEF TypeOK, WorksOn

LEMMA ExecCases ==
  ASSUME TypeOK, Exec
  PROVE  ExecBegins \/ Moves \/ Ending
<1>1. CASE ExecBegins
  BY <1>1
<1>2. CASE NameAnswered
  <2>1. Waiting /\ RunRest
    BY <1>2 DEF NameAnswered, Waiting
  <2>2. CASE Forced
    <3>1. WorksOn(force_cache_group_id) /\ Settled
      BY <1>2, <2>2 DEF NameAnswered, WorksOn
    <3>2. QED BY <2>1, <3>1, WorksOnIt DEF Moves
  <2>3. CASE ~Forced
    <3>1. Goes("open") /\ Settled
      BY <1>2, <2>3 DEF NameAnswered
    <3>2. QED BY <2>1, <3>1, GoesTo DEF Moves
  <2>4. QED BY <2>2, <2>3
<1>3. CASE OpenAnswered
  <2>1. Waiting /\ RunRest
    BY <1>3 DEF OpenAnswered, Waiting
  <2>2. CASE Fails
    BY <2>1, <2>2, FailsEnds
  <2>3. CASE ~Fails
    <3>1. PICK g \in Groups : run' = [run EXCEPT !.pc = "tune", !.group = g] /\ Settled
      BY <1>3, <2>3 DEF OpenAnswered
    <3>2. run'.pc = "tune"
      BY <3>1 DEF TypeOK
    <3>3. QED BY <2>1, <3>1, <3>2 DEF Moves
  <2>4. QED BY <2>2, <2>3
<1>4. CASE TuneAnswered
  <2>1. Waiting /\ RunRest
    BY <1>4 DEF TuneAnswered, Waiting
  <2>2. CASE WorksOn(run.group)
    <3>1. Settled
      BY <2>2 DEF WorksOn
    <3>2. QED BY <2>1, <2>2, <3>1, WorksOnIt DEF Moves
  <2>3. CASE Fails
    BY <2>1, <2>3, FailsEnds
  <2>4. QED BY <1>4, <2>2, <2>3 DEF TuneAnswered
<1>5. CASE InfosAnswered
  <2>1. Waiting /\ RunRest
    BY <1>5 DEF InfosAnswered, Waiting
  <2>2. CASE Goes("enable") /\ Settled
    BY <2>1, <2>2, GoesTo DEF Moves
  <2>3. CASE Fails
    BY <2>1, <2>3, FailsEnds
  <2>4. QED BY <1>5, <2>2, <2>3 DEF InfosAnswered
<1>6. CASE EnableAnswered
  <2>1. Waiting /\ RunRest /\ Settled /\ Goes(IF is_need_stop THEN "disable" ELSE "look")
    BY <1>6 DEF EnableAnswered, Waiting
  <2>2. run'.pc \in {"disable", "look"}
    BY <2>1, GoesTo
  <2>3. QED BY <2>1, <2>2 DEF Moves
<1>7. CASE Look
  <2>1. Waiting /\ RunRest /\ Settled
    BY <1>7 DEF Look, Waiting
  <2>2. run'.pc \in {"disable", "look"}
    BY <1>7 DEF Look, Goes, TypeOK
  <2>3. QED BY <2>1, <2>2 DEF Moves
<1>8. CASE DisableAnswered
  <2>1. Waiting /\ RunRest /\ (Fails \/ Exits)
    BY <1>8 DEF DisableAnswered, Waiting
  <2>2. QED BY <2>1, FailsEnds
<1>9. QED BY <1>1, <1>2, <1>3, <1>4, <1>5, <1>6, <1>7, <1>8 DEF Exec

-----------------------------------------------------------------------------
(* What a run leaves to be retried, and what its end adds.                  *)
Retries == {r \in Reserve : r.flags = {}}

LEMMA Appended ==
  ASSUME NEW S, NEW q \in Seq(S), NEW x \in S
  PROVE  /\ Append(q, x) \in Seq(S)
         /\ Len(Append(q, x)) = Len(q) + 1
         /\ \A i \in 1..Len(q) : Append(q, x)[i] = q[i]
         /\ Append(q, x)[Len(q) + 1] = x
         /\ Elements(Append(q, x)) = Elements(q) \cup {x}
<1> DEFINE p == Append(q, x)
<1>1. /\ p \in Seq(S) /\ Len(p) = Len(q) + 1 /\ Len(q) \in Nat
      /\ \A i \in 1..Len(q) : p[i] = q[i]
      /\ p[Len(q) + 1] = x
  OBVIOUS
<1> HIDE DEF p
<1>2. 1..Len(p) = 1..Len(q) \cup {Len(q) + 1}
  BY <1>1
<1>3. Elements(p) = Elements(q) \cup {x}
  BY <1>1, <1>2 DEF Elements
<1>4. QED BY <1>1, <1>3 DEF p

LEMMA RetryIs ==
  ASSUME TypeOK, Shapes, Executing, Has("R")
  PROVE  LET r == Retry(executing_reserve)
         IN  /\ r \in Retries /\ r.kind = "normal" /\ r.start = now + RetryAfter
             /\ Same(r, executing_reserve) /\ First(executing_reserve)
<1>0. executing_reserve \in Reserve /\ Shape(executing_reserve)
  BY DEF TypeOK, Shapes
<1>1. /\ executing_reserve \in Reserve /\ Shape(executing_reserve)
      /\ now + RetryAfter \in Nat
  <2>1. now \in Nat
    BY DEF TypeOK
  <2>2. QED BY <1>0, <2>1, TimesAre
<1>2. executing_reserve.kind = "normal" /\ First(executing_reserve)
  BY <1>1 DEF Shape, Has, Reserve, First
<1>3. QED BY <1>1, <1>2 DEF Retry, Retries, Reserve, Same

LEMMA LeftIs ==
  ASSUME TypeOK, Shapes, Executing, NEW q, Left(q)
  PROVE  /\ q \in Seq(Retries) /\ q \in Seq(Reserve)
         /\ \A x \in Elements(q) : x.kind = "normal"
         /\ \A x \in Elements(q) :
              x \in Elements(retry_reserves)
              \/ (First(executing_reserve) /\ Same(x, executing_reserve))
<1>1. retry_reserves \in Seq(Retries)
  BY DEF TypeOK, Retries
<1>2. CASE q = retry_reserves
  <2>1. q \in Seq(Reserve)
    BY <1>1, <1>2 DEF Retries
  <2>2. QED BY <1>1, <1>2, <2>1 DEF Shapes
<1>3. CASE Has("R") /\ q = Append(retry_reserves, Retry(executing_reserve))
  <2> DEFINE r == Retry(executing_reserve)
  <2>1. /\ r \in Retries /\ r.kind = "normal"
        /\ Same(r, executing_reserve) /\ First(executing_reserve)
    BY <1>3, RetryIs
  <2> HIDE DEF r
  <2>2. q = Append(retry_reserves, r)
    BY <1>3 DEF r
  <2>3. q \in Seq(Retries) /\ Elements(q) = Elements(retry_reserves) \cup {r}
    BY <1>1, <2>1, <2>2, Appended
  <2>4. q \in Seq(Reserve)
    BY <2>3 DEF Retries
  <2>5. QED BY <2>1, <2>3, <2>4 DEF Shapes
<1>4. QED BY <1>2, <1>3 DEF Left

(* The first reserves stay, and what comes with them are retries of q.      *)
LEMMA EndedReserves ==
  ASSUME TypeOK, InOrder, Shapes, Executing, NEW q, Left(q), Ends(q, TRUE)
  PROVE  /\ reserves' \in Seq(Reserve) /\ InOrder'
         /\ Elements(reserves) \subseteq Elements(reserves)'
         /\ \A y \in Elements(reserves)' :
              \/ y \in Elements(reserves)
              \/ Has("E") /\ Again(y) /\ Shape(y) /\ \E x \in Elements(q) : Same(y, x)
<1>1. reserves \in Seq(Reserve) /\ Ordered(reserves) /\ Distinct(reserves)
  BY DEF TypeOK, InOrder
<1>2. CASE ~Has("E")
  <2>1. reserves' = reserves
    BY <1>2 DEF Ends
  <2>2. QED BY <1>1, <2>1 DEF InOrder, Elements
<1>3. CASE Has("E")
  <2> DEFINE rs == RetrySeries(q)
  <2>1. /\ rs \in Seq(Reserve)
        /\ \A y \in Elements(rs) : Again(y) /\ Shape(y) /\ \E x \in Elements(q) : Same(y, x)
    BY LeftIs, RetriesAre
  <2>2. reserves' = AllAdded(reserves, rs)
    BY <1>3 DEF Ends
  <2> HIDE DEF rs
  <2>3. /\ AllAdded(reserves, rs) \in Seq(Reserve)
        /\ Elements(AllAdded(reserves, rs)) = Elements(reserves) \cup Elements(rs)
        /\ Ordered(AllAdded(reserves, rs)) /\ Distinct(AllAdded(reserves, rs))
    BY <1>1, <2>1, AllAddedJoins
  <2>4. Elements(reserves)' = Elements(reserves')
    BY DEF Elements
  <2>5. InOrder' <=> Ordered(reserves') /\ Distinct(reserves')
    BY DEF InOrder, Ordered, Distinct
  <2>6. QED BY <1>3, <2>1, <2>2, <2>3, <2>4, <2>5
<1>4. QED BY <1>2, <1>3

LEMMA NoReserveIs ==
  /\ NoReserve \in Reserve /\ NoReserve.kind = "init" /\ NoReserve.flags = {}
  /\ NoReserve.start = 0
BY DEF NoReserve, Reserve, Origins

LEMMA EmptyList ==
  /\ <<>> \in Seq(Reserve) /\ <<>> \in Seq(Retries) /\ Elements(<<>>) = {}
  /\ Ordered(<<>>) /\ Distinct(<<>>)
  /\ \A A, B : Closed(<<>>, A, B)
<1>1. <<>> \in Seq(Reserve) /\ <<>> \in Seq(Retries) /\ 1..Len(<<>>) = {}
  OBVIOUS
<1>2. QED BY <1>1 DEF Elements, Ordered, Distinct, Closed

LEMMA ForceReserveIs ==
  ASSUME TypeOK, NEW f \in Forcers, NEW i \in DOMAIN Channels
  PROVE  LET r == ForceReserve(f, Channels[i])
         IN  /\ r \in Reserve /\ Shape(r) /\ r.kind = "force"
             /\ ~First(r) /\ ~Again(r)
             /\ "N" \notin r.flags /\ "E" \in r.flags
<1>1. Channels[i] \in Nat /\ now \in Nat /\ <<"force", f>> \in Origins
  <2>1. Channels[i] \in Nat
    BY ChannelsAre
  <2>2. now \in Nat
    BY DEF TypeOK
  <2>3. <<"force", f>> \in Origins
    BY DEF Origins
  <2>4. QED BY <2>1, <2>2, <2>3
<1>2. QED BY <1>1 DEF ForceReserve, Reserve, Shape, First, Again

(* Every step leaves the reserves in order, each there once.                *)
LEMMA ReservesStep ==
  ASSUME TypeOK, InOrder, Shapes, [Next]_vars
  PROVE  reserves' \in Seq(Reserve) /\ Ordered(reserves') /\ Distinct(reserves')
<1>0. reserves \in Seq(Reserve) /\ Ordered(reserves) /\ Distinct(reserves)
  BY DEF TypeOK, InOrder
<1>1. SUFFICES ASSUME reserves' # reserves
               PROVE  reserves' \in Seq(Reserve) /\ Ordered(reserves') /\ Distinct(reserves')
  BY <1>0
<1>2. CASE CheckLoop
  <2>1. Taken
    BY <1>1, <1>2, TakesOrNot DEF CheckLoop
  <2>2. QED BY <1>0, <2>1, WithoutFirst DEF Taken
<1>3. CASE \E s \in series : AddReserves(s)
  <2>1. PICK s \in series : AddReserves(s)
    BY <1>3
  <2>2. s \in [base : Nat, of : Origins]
    BY DEF TypeOK
  <2> DEFINE rs == Series(s)
  <2>3. rs \in Seq(Reserve)
    BY <2>2, SeriesIs
  <2>4. reserves' = AllAdded(reserves, rs)
    BY <1>1, <2>1 DEF AddReserves
  <2> HIDE DEF rs
  <2>5. QED BY <1>0, <2>3, <2>4, AllAddedJoins
<1>4. CASE Exec
  <2>1. Ending
    BY <1>1, <1>4, ExecCases DEF ExecBegins, Moves, Settled
  <2>2. Executing
    BY <2>1 DEF Ending, Waiting, TypeOK
  <2>3. PICK q : Left(q) /\ Ends(q, TRUE)
    BY <2>1 DEF Ending
  <2>4. reserves' \in Seq(Reserve) /\ InOrder'
    BY <2>2, <2>3, EndedReserves
  <2>5. QED BY <2>4 DEF InOrder, Ordered, Distinct
<1>5. CASE \E f \in Forcers : ForceInfos(f)
  <2>1. PICK f \in Forcers, i \in DOMAIN Channels :
          reserves' = Added(reserves, ForceReserve(f, Channels[i]))
    BY <1>1, <1>5 DEF ForceInfos
  <2> DEFINE r == ForceReserve(f, Channels[i])
  <2>2. r \in Reserve /\ reserves' = Added(reserves, r)
    BY <2>1, ForceReserveIs
  <2> HIDE DEF r
  <2>3. QED BY <1>0, <2>2, AddedJoins
<1>6. CASE Requests
  BY <1>1, <1>6 DEF Requests, OnCacheSchedule, OnForce, OnStop
<1>7. CASE \E f \in Forcers : ForceLook(f)
  BY <1>1, <1>7 DEF ForceLook
<1>8. CASE \E s \in Stoppers : StopLook(s)
  BY <1>1, <1>8 DEF StopLook
<1>9. CASE Restart
  <2>1. reserves' = <<>>
    BY <1>9 DEF Restart
  <2>2. QED BY <2>1, EmptyList
<1>10. CASE Tick \/ (\E g \in Groups : Closes(g) \/ Other(g)) \/ UNCHANGED vars
  BY <1>1, <1>10 DEF Tick, Closes, Other, WorldRest, tables, vars
<1>11. QED BY <1>2, <1>3, <1>4, <1>5, <1>6, <1>7, <1>8, <1>9, <1>10 DEF Next, Answers

-----------------------------------------------------------------------------
(* The types, in four groups.                                               *)
ClockTyped ==
  /\ now \in 0..MaxTime /\ next_day \in Nat /\ asks \in 0..MaxAsks
  /\ series \subseteq [base : Nat, of : Origins]
ListsTyped ==
  /\ reserves \in Seq(Reserve) /\ executing_reserve \in Reserve
  /\ retry_reserves \in Seq(Retries)
  /\ {state, told} \subseteq {"ready", "busy"}
  /\ odd \subseteq {"late", "overlap", "crash"}
CallersTyped ==
  /\ force_cache_group_id \in Groups \cup {NoGroup}
  /\ force \in [Forcers -> [pc : {"idle", "infos", "wait"}, group : Groups \cup {NoGroup}, r : Reserve]]
  /\ stop \in [Stoppers -> BOOLEAN]
  /\ {is_need_stop, asked} \subseteq BOOLEAN
Runs == [pc : Pcs, group : Groups \cup {NoGroup}, work : Groups \cup {NoGroup},
         looks : 0..Looks, timeouted : BOOLEAN]
RunTyped ==
  /\ run \in Runs
  /\ tuner \in [Groups -> {"free", "mine", "other"}] /\ closing \subseteq Groups
  /\ parsing \in [Groups -> BOOLEAN]
  /\ Executing <=> run.pc # "off"

LEMMA TypeParts == TypeOK <=> ClockTyped /\ ListsTyped /\ CallersTyped /\ RunTyped
BY DEF TypeOK, ClockTyped, ListsTyped, CallersTyped, RunTyped, Retries, Runs

LEMMA Product == ASSUME NEW a \in Nat, NEW b \in Nat PROVE a * b \in Nat
OBVIOUS

LEMMA Quotient == ASSUME NEW a \in Nat, NEW b \in Nat \ {0} PROVE a \div b \in Nat
<1>1. a \div b \in Int /\ a \div b >= 0
  OBVIOUS
<1>2. QED BY <1>1

LEMMA DayTyped ==
  ASSUME TypeOK, DayBegins
  PROVE  next_day' \in Nat /\ series' \subseteq [base : Nat, of : Origins]
<1>1. /\ next_day \in Nat /\ series \subseteq [base : Nat, of : Origins]
      /\ Day \in Nat /\ StartTime \in Nat /\ IntervalDay \in Nat
  BY EventScheduleAssumption DEF TypeOK
<1>2. next_day * Day \in Nat
  BY <1>1, Product
<1> DEFINE b == next_day * Day
<1> HIDE DEF b
<1>3. b + StartTime \in Nat /\ <<"day", next_day>> \in Origins
  BY <1>1, <1>2 DEF b, Origins
<1>4. CASE Today = next_day
  <2>1. series' = series \cup {[base |-> b + StartTime, of |-> <<"day", next_day>>]}
    BY <1>4 DEF DayBegins, b
  <2>2. next_day' \in Nat
    BY <1>1, <1>4 DEF DayBegins
  <2>3. QED BY <1>1, <1>3, <2>1, <2>2
<1>5. CASE Today # next_day
  BY <1>1, <1>5 DEF DayBegins
<1>6. QED BY <1>4, <1>5

LEMMA ClockStep ==
  ASSUME TypeOK, [Next]_vars
  PROVE  ClockTyped'
<1>0. ClockTyped /\ MaxTime \in Nat /\ MaxAsks \in Nat
  BY TypeParts, EventScheduleAssumption
<1>1. CASE CheckLoop
  BY <1>0, <1>1, DayTyped DEF CheckLoop, ClockTyped, callers
<1>2. CASE \E s \in series : AddReserves(s)
  BY <1>0, <1>2 DEF AddReserves, ClockTyped, callers
<1>3. CASE Exec
  BY <1>0, <1>3, ExecCases DEF ExecBegins, Moves, Ending, RunRest, ClockTyped, callers
<1>4. CASE OnCacheSchedule
  <2>1. now \in Nat /\ asks' \in 0..MaxAsks /\ <<"ask", asks'>> \in Origins
    BY <1>0, <1>4 DEF OnCacheSchedule, Asks, ClockTyped, Origins
  <2>2. [base |-> now, of |-> <<"ask", asks'>>] \in [base : Nat, of : Origins]
    BY <2>1
  <2>3. QED BY <1>0, <1>4, <2>1, <2>2 DEF OnCacheSchedule, RequestRest, ClockTyped
<1>5. CASE \E f \in Forcers : OnForce(f)
  BY <1>0, <1>5 DEF OnForce, Asks, RequestRest, ClockTyped
<1>6. CASE \E s \in Stoppers : OnStop(s)
  BY <1>0, <1>6 DEF OnStop, Asks, RequestRest, ClockTyped
<1>7. CASE Answers
  BY <1>0, <1>7 DEF Answers, ForceInfos, ForceLook, StopLook, RequestRest, ClockTyped
<1>8. CASE Restart
  <2>1. now \in Nat /\ Day \in Nat \ {0}
    BY <1>0, EventScheduleAssumption DEF ClockTyped
  <2>2. Today \in Nat
    BY <2>1, Quotient DEF Today
  <2>3. QED BY <1>0, <1>8, <2>2 DEF Restart, ClockTyped
<1>9. CASE Tick
  BY <1>0, <1>9 DEF Tick, WorldRest, ClockTyped, callers
<1>10. CASE (\E g \in Groups : Closes(g) \/ Other(g)) \/ UNCHANGED vars
  BY <1>0, <1>10 DEF Closes, Other, WorldRest, vars, ClockTyped, callers
<1>11. QED BY <1>1, <1>2, <1>3, <1>4, <1>5, <1>6, <1>7, <1>8, <1>9, <1>10 DEF Next, Requests

LEMMA ListsStep ==
  ASSUME TypeOK, InOrder, Shapes, [Next]_vars
  PROVE  ListsTyped'
<1>0. /\ ListsTyped /\ reserves' \in Seq(Reserve)
      /\ NoReserve \in Reserve /\ <<>> \in Seq(Retries)
  BY TypeParts, ReservesStep, NoReserveIs, EmptyList
<1>1. CASE CheckLoop
  <2>1. Taken \/ UNCHANGED <<reserves, executing_reserve, run, odd>>
    BY <1>1, TakesOrNot DEF CheckLoop
  <2>2. Len(reserves) # 0 => reserves[1] \in Reserve
    BY <1>0 DEF ListsTyped
  <2>3. QED BY <1>0, <1>1, <2>1, <2>2 DEF CheckLoop, Taken, ListsTyped
<1>2. CASE \E s \in series : AddReserves(s)
  BY <1>0, <1>2 DEF AddReserves, ListsTyped
<1>3. CASE ExecBegins
  <2>1. state' \in {"ready", "busy"} /\ told' \in {"ready", "busy"}
    BY <1>0, <1>3 DEF ExecBegins, ListsTyped
  <2>2. QED BY <1>0, <1>3, <2>1 DEF ExecBegins, ListsTyped
<1>4. CASE Ending
  <2>1. PICK q : Left(q) /\ Ends(q, TRUE)
    BY <1>4 DEF Ending
  <2>2. Executing
    BY <1>4 DEF Ending, Waiting, TypeOK
  <2>3. q \in Seq(Retries)
    BY <2>1, <2>2, LeftIs
  <2>4. state' \in {"ready", "busy"} /\ told' \in {"ready", "busy"}
    BY <1>0, <2>1 DEF Ends, ListsTyped
  <2>5. retry_reserves' \in Seq(Retries) /\ executing_reserve' \in Reserve
    BY <1>0, <2>1, <2>3 DEF Ends
  <2>6. odd' = odd
    BY <1>4 DEF Ending, RunRest
  <2>7. QED BY <1>0, <2>4, <2>5, <2>6 DEF ListsTyped
<1>5. CASE Moves
  BY <1>0, <1>5 DEF Moves, Settled, RunRest, ListsTyped
<1>6. CASE OnCacheSchedule
  BY <1>0, <1>6 DEF OnCacheSchedule, RequestRest, ListsTyped
<1>7. CASE \E f \in Forcers : OnForce(f)
  BY <1>0, <1>7 DEF OnForce, Overlap, RequestRest, ListsTyped
<1>8. CASE \E s \in Stoppers : OnStop(s)
  BY <1>0, <1>8 DEF OnStop, RequestRest, ListsTyped
<1>9. CASE Answers
  BY <1>0, <1>9 DEF Answers, ForceInfos, ForceLook, StopLook, RequestRest, ListsTyped
<1>10. CASE Restart
  BY <1>0, <1>10 DEF Restart, ListsTyped
<1>11. CASE Tick \/ (\E g \in Groups : Closes(g) \/ Other(g)) \/ UNCHANGED vars
  BY <1>0, <1>11 DEF Tick, Closes, Other, WorldRest, vars, tables, ListsTyped
<1>12. QED
  BY <1>1, <1>2, <1>3, <1>4, <1>5, <1>6, <1>7, <1>8, <1>9, <1>10, <1>11, ExecCases DEF Next, Requests

LEMMA CallersStep ==
  ASSUME TypeOK, [Next]_vars
  PROVE  CallersTyped'
<1>0. CallersTyped /\ NoReserve \in Reserve
  BY TypeParts, NoReserveIs
<1>1. CASE CheckLoop \/ (\E s \in series : AddReserves(s))
  BY <1>0, <1>1 DEF CheckLoop, AddReserves, callers, CallersTyped
<1>2. CASE ExecBegins \/ Moves \/ Ending
  BY <1>0, <1>2 DEF ExecBegins, Moves, Ending, Ends, Settled, RunRest, callers, CallersTyped
<1>3. CASE OnCacheSchedule
  BY <1>0, <1>3 DEF OnCacheSchedule, RequestRest, CallersTyped
<1>4. CASE \E f \in Forcers : OnForce(f)
  BY <1>0, <1>4 DEF OnForce, RequestRest, CallersTyped
<1>5. CASE \E s \in Stoppers : OnStop(s)
  <2>1. Executing \in BOOLEAN
    BY DEF Executing
  <2>2. QED BY <1>0, <1>5, <2>1 DEF OnStop, RequestRest, CallersTyped
<1>6. CASE \E f \in Forcers : ForceInfos(f)
  <2>1. PICK f \in Forcers : ForceInfos(f)
    BY <1>6
  <2>2. CASE \E i \in DOMAIN Channels :
               /\ force' = [force EXCEPT ![f].pc = "wait", ![f].r = ForceReserve(f, Channels[i])]
               /\ UNCHANGED force_cache_group_id
    <3>1. PICK i \in DOMAIN Channels :
               /\ force' = [force EXCEPT ![f].pc = "wait", ![f].r = ForceReserve(f, Channels[i])]
               /\ UNCHANGED force_cache_group_id
      BY <2>2
    <3>2. ForceReserve(f, Channels[i]) \in Reserve
      BY ForceReserveIs
    <3>3. \A r \in Reserve :
            [force EXCEPT ![f].pc = "wait", ![f].r = r]
              \in [Forcers -> [pc : {"idle", "infos", "wait"}, group : Groups \cup {NoGroup}, r : Reserve]]
      BY <1>0 DEF CallersTyped
    <3>4. QED BY <1>0, <2>1, <3>1, <3>2, <3>3 DEF ForceInfos, CallersTyped
  <2>3. CASE force' = [force EXCEPT ![f] = Idle] /\ force_cache_group_id' = NoGroup
    BY <1>0, <2>1, <2>3 DEF ForceInfos, Idle, CallersTyped
  <2>4. QED BY <2>1, <2>2, <2>3 DEF ForceInfos
<1>7. CASE \E f \in Forcers : ForceLook(f)
  BY <1>0, <1>7 DEF ForceLook, Idle, RequestRest, CallersTyped
<1>8. CASE \E s \in Stoppers : StopLook(s)
  BY <1>0, <1>8 DEF StopLook, RequestRest, CallersTyped
<1>9. CASE Restart
  BY <1>0, <1>9 DEF Restart, Idle, CallersTyped
<1>10. CASE Tick \/ (\E g \in Groups : Closes(g) \/ Other(g)) \/ UNCHANGED vars
  BY <1>0, <1>10 DEF Tick, Closes, Other, WorldRest, vars, callers, CallersTyped
<1>11. QED
  BY <1>1, <1>2, <1>3, <1>4, <1>5, <1>6, <1>7, <1>8, <1>9, <1>10, ExecCases DEF Next, Requests, Answers

-----------------------------------------------------------------------------
(* The run and its tuner.                                                   *)
RunParts == RunTyped /\ RunShape /\ LeavesNothing

LEMMA OffIs ==
  /\ Off \in Runs /\ Off.pc = "off" /\ Off.group = NoGroup /\ Off.work = NoGroup
  /\ [Off EXCEPT !.pc = "sent"] \in Runs
  /\ [Off EXCEPT !.pc = "sent"].pc = "sent"
  /\ [Off EXCEPT !.pc = "sent"].group = NoGroup
<1>1. 0 \in 0..Looks
  BY EventScheduleAssumption
<1>2. QED BY <1>1 DEF Off, Runs, Pcs

(* A run that is over gives its tuner back, when the parser is off.         *)
LEMMA EndsClean ==
  ASSUME TypeOK, RunShape, LeavesNothing, NEW q, Ends(q, TRUE), tuner' = tuner,
         parsing' \in [Groups -> BOOLEAN], \A g \in Groups : ~parsing'[g]
  PROVE  RunParts'
<1>1. /\ run' = Off /\ executing_reserve' = NoReserve
      /\ closing' = closing \cup (IF run.group # NoGroup THEN {run.group} ELSE {})
  BY DEF Ends
<1>2. /\ run \in Runs /\ run.group \in Groups \cup {NoGroup} /\ closing \subseteq Groups
      /\ tuner \in [Groups -> {"free", "mine", "other"}]
  BY TypeParts DEF RunTyped, Runs
<1>3. RunTyped'
  BY <1>1, <1>2, OffIs DEF RunTyped, Executing
<1>4. RunShape'
  BY <1>1, OffIs DEF RunShape, Working
<1>5. ASSUME NEW g \in Groups
      PROVE  /\ tuner'[g] = "mine" <=> g \in closing'
             /\ run'.group # g
  <2>1. g # NoGroup
    BY NoGroupAssumption
  <2>2. QED BY <1>1, <1>2, <2>1, OffIs DEF LeavesNothing
<1>6. LeavesNothing'
  BY <1>5 DEF LeavesNothing
<1>7. QED BY <1>3, <1>4, <1>6 DEF RunParts

(* Until its tuner is open the run has none, and only a run that looks has  *)
(* the parser on.                                                           *)
LEMMA ParserIsOff ==
  ASSUME TypeOK, LeavesNothing, run.pc \notin {"look", "disable"}
  PROVE  \A g \in Groups : ~parsing[g]
BY DEF LeavesNothing, TypeOK

(* A step of the run that keeps its tuner.                                  *)
LEMMA StepsClean ==
  ASSUME TypeOK, RunShape, LeavesNothing,
         run' \in Runs, run'.pc # "off", run.pc # "off", run'.group = run.group,
         run'.group # NoGroup => run'.pc \in {"tune"} \cup Working,
         run'.pc = "tune" => run'.group \in Groups,
         run'.pc \in Working => run'.work \in Groups,
         executing_reserve' = executing_reserve, tuner' = tuner, closing' = closing,
         parsing' \in [Groups -> BOOLEAN],
         \A g \in Groups : parsing'[g] => run'.work = g /\ run'.pc \in {"look", "disable"}
  PROVE  RunParts'
<1>1. RunTyped
  BY TypeParts
<1>2. RunTyped'
  BY <1>1 DEF RunTyped, Executing
<1>3. RunShape'
  BY DEF RunShape
<1>4. LeavesNothing'
  BY DEF LeavesNothing
<1>5. QED BY <1>2, <1>3, <1>4 DEF RunParts

LEMMA ExecClean ==
  ASSUME TypeOK, RunShape, LeavesNothing, Exec
  PROVE  RunParts'
<1>0. /\ run \in Runs /\ parsing \in [Groups -> BOOLEAN] /\ RunTyped
      /\ run.group \in Groups \cup {NoGroup}
  BY TypeParts DEF RunTyped, Runs
<1>1. CASE ExecBegins
  <2>1. run' \in Runs /\ run'.pc = "name" /\ run'.group = run.group /\ run.pc = "sent"
    BY <1>0, <1>1 DEF ExecBegins, Runs, Pcs
  <2>2. run.group = NoGroup
    BY <2>1 DEF RunShape, Working
  <2>3. parsing' = parsing /\ tuner' = tuner /\ closing' = closing
        /\ executing_reserve' = executing_reserve
    BY <1>1 DEF ExecBegins, outside
  <2>4. QED BY <1>0, <2>1, <2>2, <2>3, ParserIsOff, StepsClean DEF Working
<1>2. CASE NameAnswered
  <2>1. run.pc = "name" /\ tuner' = tuner /\ parsing' = parsing /\ Settled
    BY <1>2 DEF NameAnswered, WorksOn
  <2>2. run.group = NoGroup
    BY <2>1 DEF RunShape, Working
  <2>3. force_cache_group_id \in Groups \cup {NoGroup}
    BY DEF TypeOK
  <2>4. /\ run' \in Runs /\ run'.group = NoGroup
        /\ run'.pc \in {"open", "lost", "infos"}
        /\ run'.pc = "infos" => run'.work \in Groups
    <3>1. CASE Forced
      <4> DEFINE g == force_cache_group_id
      <4>1. run' = [run EXCEPT !.pc = IF g = NoGroup THEN "lost" ELSE "infos", !.work = g]
        BY <1>2, <3>1 DEF NameAnswered, WorksOn
      <4>2. g \in Groups \cup {NoGroup}
        BY <2>3
      <4> HIDE DEF g
      <4>3. CASE g = NoGroup
        BY <1>0, <2>2, <4>1, <4>2, <4>3 DEF Runs, Pcs
      <4>4. CASE g # NoGroup
        BY <1>0, <2>2, <4>1, <4>2, <4>4 DEF Runs, Pcs
      <4>5. QED BY <4>3, <4>4
    <3>2. CASE ~Forced
      <4>1. run' = [run EXCEPT !.pc = "open"]
        BY <1>2, <3>2 DEF NameAnswered, Goes
      <4>2. QED BY <1>0, <2>2, <4>1 DEF Runs, Pcs
    <3>3. QED BY <3>1, <3>2
  <2>5. QED
    BY <1>0, <2>1, <2>2, <2>4, NoGroupAssumption, ParserIsOff, StepsClean DEF Settled, Working
<1>3. CASE OpenAnswered
  <2>1. run.pc = "open" /\ parsing' = parsing
    BY <1>3 DEF OpenAnswered
  <2>2. \A g \in Groups : ~parsing[g]
    BY <2>1, ParserIsOff
  <2>3. CASE Fails /\ UNCHANGED tuner
    BY <1>0, <2>1, <2>2, <2>3, EndsClean DEF Fails
  <2>4. CASE \E g \in Groups : /\ tuner[g] = "free"
                               /\ tuner' = [tuner EXCEPT ![g] = "mine"]
                               /\ run' = [run EXCEPT !.pc = "tune", !.group = g]
                               /\ Settled
    <3>1. PICK g \in Groups : /\ tuner[g] = "free"
                              /\ tuner' = [tuner EXCEPT ![g] = "mine"]
                              /\ run' = [run EXCEPT !.pc = "tune", !.group = g]
                              /\ Settled
      BY <2>4
    <3>2. run' \in Runs /\ run'.pc = "tune" /\ run'.group = g
      BY <1>0, <3>1 DEF Runs, Pcs
    <3>3. run.group = NoGroup
      BY <2>1 DEF RunShape, Working
    <3>4. tuner \in [Groups -> {"free", "mine", "other"}]
      BY <1>0 DEF RunTyped
    <3>5. RunTyped'
      BY <1>0, <2>1, <3>1, <3>2, <3>4 DEF RunTyped, Settled, Executing
    <3>6. RunShape'
      BY <3>2 DEF RunShape, Working
    <3>7. LeavesNothing'
      <4>1. ASSUME NEW h \in Groups
            PROVE  /\ tuner'[h] = "mine" <=> h = g \/ h \in closing
                   /\ g \notin closing
        <5>1. h # NoGroup /\ g # NoGroup
          BY NoGroupAssumption
        <5>2. QED BY <3>1, <3>3, <3>4, <5>1 DEF LeavesNothing
      <4>2. closing' = closing
        BY <3>1 DEF Settled
      <4>3. QED BY <2>1, <2>2, <3>2, <4>1, <4>2 DEF LeavesNothing
    <3>8. QED BY <3>5, <3>6, <3>7 DEF RunParts
  <2>5. QED BY <1>3, <2>3, <2>4 DEF OpenAnswered
<1>4. CASE TuneAnswered
  <2>1. run.pc = "tune" /\ tuner' = tuner /\ parsing' = parsing /\ run.group \in Groups
    BY <1>4 DEF TuneAnswered, RunShape
  <2>2. \A g \in Groups : ~parsing[g]
    BY <2>1, ParserIsOff
  <2>3. CASE Fails
    BY <1>0, <2>1, <2>2, <2>3, EndsClean DEF Fails
  <2>4. CASE WorksOn(run.group)
    <3>1. /\ run' \in Runs /\ run'.group = run.group /\ run'.work = run.group
          /\ run'.pc = "infos"
      BY <1>0, <2>1, <2>4, NoGroupAssumption DEF WorksOn, Runs, Pcs
    <3>2. QED BY <1>0, <2>1, <2>2, <2>4, <3>1, StepsClean DEF WorksOn, Settled, Working
  <2>5. QED BY <1>4, <2>3, <2>4 DEF TuneAnswered
<1>5. CASE InfosAnswered
  <2>1. run.pc = "infos" /\ tuner' = tuner /\ parsing' = parsing /\ run.work \in Groups
    BY <1>5 DEF InfosAnswered, RunShape, Working
  <2>2. \A g \in Groups : ~parsing[g]
    BY <2>1, ParserIsOff
  <2>3. CASE Fails
    BY <1>0, <2>1, <2>2, <2>3, EndsClean DEF Fails
  <2>4. CASE Goes("enable") /\ Settled
    <3>1. /\ run' \in Runs /\ run'.group = run.group /\ run'.work = run.work
          /\ run'.pc = "enable"
      BY <1>0, <2>4 DEF Goes, Runs, Pcs
    <3>2. QED BY <1>0, <2>1, <2>2, <2>4, <3>1, StepsClean DEF Settled, Working
  <2>5. QED BY <1>5, <2>3, <2>4 DEF InfosAnswered
<1>6. CASE EnableAnswered
  <2>1. /\ run.pc = "enable" /\ tuner' = tuner /\ run.work \in Groups /\ Settled
        /\ parsing' = [parsing EXCEPT ![run.work] = TRUE]
    BY <1>6 DEF EnableAnswered, RunShape, Working
  <2>2. \A g \in Groups : ~parsing[g]
    BY <2>1, ParserIsOff
  <2>3. /\ run' \in Runs /\ run'.group = run.group /\ run'.work = run.work
        /\ run'.pc \in {"look", "disable"}
    BY <1>0, <1>6 DEF EnableAnswered, Goes, Runs, Pcs
  <2>4. /\ parsing' \in [Groups -> BOOLEAN]
        /\ \A g \in Groups : parsing'[g] => g = run.work
    BY <1>0, <2>1, <2>2
  <2>5. QED BY <2>1, <2>3, <2>4, StepsClean DEF Settled, Working
<1>7. CASE Look
  <2>1. /\ run.pc = "look" /\ tuner' = tuner /\ parsing' = parsing /\ run.work \in Groups
        /\ Settled
    BY <1>7 DEF Look, RunShape, Working
  <2>2. /\ run' \in Runs /\ run'.group = run.group /\ run'.work = run.work
        /\ run'.pc \in {"look", "disable"}
    <3>1. Looks \in Nat
      BY EventScheduleAssumption
    <3>2. CASE Goes("disable")
      BY <1>0, <3>2 DEF Goes, Runs, Pcs
    <3>3. CASE run' = [run EXCEPT !.pc = "disable", !.timeouted = TRUE]
      BY <1>0, <3>3 DEF Runs, Pcs
    <3>4. CASE /\ run.looks < Looks
               /\ run' = [run EXCEPT !.pc = IF is_need_stop THEN "disable" ELSE "look",
                                     !.looks = @ + 1]
      <4>1. run.looks + 1 \in 0..Looks
        BY <1>0, <3>1, <3>4 DEF Runs
      <4>2. QED BY <1>0, <3>4, <4>1 DEF Runs, Pcs
    <3>5. QED BY <1>7, <3>2, <3>3, <3>4 DEF Look
  <2>3. \A g \in Groups : parsing[g] => run.work = g
    BY DEF LeavesNothing
  <2>4. QED BY <1>0, <2>1, <2>2, <2>3, StepsClean DEF Settled, Working
<1>8. CASE DisableAnswered
  <2>1. /\ run.pc = "disable" /\ tuner' = tuner /\ run.work \in Groups
        /\ parsing' = [parsing EXCEPT ![run.work] = FALSE]
        /\ Fails \/ Exits
    BY <1>8 DEF DisableAnswered, RunShape, Working
  <2>2. \A g \in Groups : parsing[g] => run.work = g
    BY DEF LeavesNothing
  <2>3. /\ parsing' \in [Groups -> BOOLEAN]
        /\ \A g \in Groups : ~parsing'[g]
    BY <1>0, <2>1, <2>2
  <2>4. \E q : Ends(q, TRUE)
    BY <2>1 DEF Fails, Exits
  <2>5. QED BY <2>1, <2>3, <2>4, EndsClean
<1>9. QED BY <1>1, <1>2, <1>3, <1>4, <1>5, <1>6, <1>7, <1>8 DEF Exec

LEMMA RunStep ==
  ASSUME TypeOK, InOrder, Shapes, RunShape, LeavesNothing, [Next]_vars
  PROVE  RunParts'
<1>0. /\ RunTyped /\ run \in Runs
      /\ tuner \in [Groups -> {"free", "mine", "other"}] /\ closing \subseteq Groups
  BY TypeParts DEF RunTyped
<1>1. CASE CheckLoop
  <2>1. outside' = outside
    BY <1>1 DEF CheckLoop
  <2>2. CASE UNCHANGED <<executing_reserve, run>>
    BY <1>0, <2>1, <2>2 DEF outside, RunParts, RunTyped, RunShape, LeavesNothing, Executing
  <2>3. CASE ~UNCHANGED <<executing_reserve, run>>
    <3>1. /\ ~Executing /\ Len(reserves) # 0 /\ executing_reserve' = reserves[1]
          /\ run' = [Off EXCEPT !.pc = "sent"]
      BY <1>1, <2>3, TakesOrNot DEF CheckLoop, Taken
    <3>2. reserves[1] # NoReserve
      <4>1. 1 \in 1..Len(reserves) /\ reserves[1] \in Elements(reserves)
        BY <3>1 DEF TypeOK, Elements
      <4>2. Shape(reserves[1])
        BY <4>1 DEF Shapes
      <4>3. QED BY <4>2, NoReserveIs DEF Shape
    <3>3. RunTyped'
      BY <1>0, <2>1, <3>1, <3>2, OffIs DEF outside, RunTyped, Executing
    <3>4. RunShape'
      BY <3>1, OffIs DEF RunShape, Working
    <3>5. run.pc = "off" /\ run.group = NoGroup
      BY <1>0, <3>1 DEF RunTyped, RunShape, Working
    <3>6. \A g \in Groups : g # NoGroup /\ ~parsing[g]
      BY <3>5, NoGroupAssumption, ParserIsOff
    <3>7. LeavesNothing'
      BY <2>1, <3>1, <3>5, <3>6, OffIs DEF outside, LeavesNothing
    <3>8. QED BY <3>3, <3>4, <3>7 DEF RunParts
  <2>4. QED BY <2>2, <2>3
<1>2. CASE Exec
  BY <1>2, ExecClean
<1>3. CASE \/ \E s \in series : AddReserves(s)
           \/ Requests \/ Answers \/ Tick \/ UNCHANGED vars
  <2>1. UNCHANGED <<executing_reserve, run, outside>>
    BY <1>3 DEF AddReserves, Requests, OnCacheSchedule, OnForce, OnStop, Answers, ForceInfos,
         ForceLook, StopLook, RequestRest, Tick, WorldRest, vars, outside
  <2>2. QED BY <1>0, <2>1 DEF outside, RunParts, RunTyped, RunShape, LeavesNothing, Executing
<1>4. CASE \E g \in Groups : Closes(g)
  <2>1. PICK g \in Groups : Closes(g)
    BY <1>4
  <2>2. /\ UNCHANGED <<executing_reserve, run, parsing>>
        /\ closing' = closing \ {g} /\ tuner' = [tuner EXCEPT ![g] = "free"] /\ g \in closing
    BY <2>1 DEF Closes, WorldRest
  <2>3. RunTyped' /\ RunShape'
    BY <1>0, <2>2 DEF RunTyped, RunShape, Executing
  <2>4. LeavesNothing'
    BY <1>0, <2>2 DEF LeavesNothing
  <2>5. QED BY <2>3, <2>4 DEF RunParts
<1>5. CASE \E g \in Groups : Other(g)
  <2>1. PICK g \in Groups : Other(g)
    BY <1>5
  <2>2. /\ UNCHANGED <<executing_reserve, run, parsing, closing>>
        /\ \/ tuner[g] = "free" /\ tuner' = [tuner EXCEPT ![g] = "other"]
           \/ tuner[g] = "other" /\ tuner' = [tuner EXCEPT ![g] = "free"]
    BY <2>1 DEF Other, WorldRest
  <2>3. RunTyped' /\ RunShape'
    BY <1>0, <2>2 DEF RunTyped, RunShape, Executing
  <2>4. LeavesNothing'
    BY <1>0, <2>2 DEF LeavesNothing
  <2>5. QED BY <2>3, <2>4 DEF RunParts
<1>6. CASE Restart
  <2>1. /\ executing_reserve' = NoReserve /\ run' = Off /\ closing' = {}
        /\ tuner' = [g \in Groups |-> "free"] /\ parsing' = [g \in Groups |-> FALSE]
    BY <1>6 DEF Restart
  <2>2. RunTyped' /\ RunShape'
    BY <2>1, OffIs DEF RunTyped, RunShape, Executing, Working
  <2>3. LeavesNothing'
    BY <2>1, OffIs, NoGroupAssumption DEF LeavesNothing
  <2>4. QED BY <2>2, <2>3 DEF RunParts
<1>7. QED BY <1>1, <1>2, <1>3, <1>4, <1>5, <1>6 DEF Next

(* A stop is in force until the run is over.                                *)
LEMMA StopStep ==
  ASSUME TypeOK, InOrder, StopShape, [Next]_vars
  PROVE  StopShape'
<1>1. CASE CheckLoop
  <2>1. UNCHANGED <<asked, is_need_stop>>
    BY <1>1 DEF CheckLoop, vars
  <2>2. CASE Executing
    <3>1. executing_reserve' = executing_reserve
      BY <1>1, <2>2, TakesOrNot DEF CheckLoop, Taken
    <3>2. QED BY <2>1, <3>1 DEF StopShape, Executing
  <2>3. CASE ~Executing
    BY <2>1, <2>3 DEF StopShape
  <2>4. QED BY <2>2, <2>3
<1>2. CASE Ending \/ Restart
  BY <1>2 DEF Ending, Ends, Restart, StopShape
<1>3. CASE \/ \E s \in series : AddReserves(s)
           \/ ExecBegins \/ Moves \/ OnCacheSchedule
           \/ \E f \in Forcers : OnForce(f) \/ ForceInfos(f) \/ ForceLook(f)
           \/ Tick \/ (\E g \in Groups : Closes(g) \/ Other(g)) \/ UNCHANGED vars
  <2>1. UNCHANGED <<asked, is_need_stop, executing_reserve>>
    BY <1>3 DEF AddReserves, ExecBegins, Moves, Settled, RunRest, OnCacheSchedule, OnForce,
         ForceInfos, ForceLook, RequestRest, Tick, Closes, Other, WorldRest, vars
  <2>2. QED BY <2>1 DEF StopShape, Executing
<1>4. CASE \E s \in Stoppers : OnStop(s)
  BY <1>4 DEF OnStop, RequestRest, StopShape, Executing
<1>5. CASE \E s \in Stoppers : StopLook(s)
  BY <1>5 DEF StopLook, RequestRest, StopShape, Executing
<1>6. QED BY <1>1, <1>2, <1>3, <1>4, <1>5, ExecCases DEF Next, Requests, Answers

-----------------------------------------------------------------------------
(* The steps by what they do to the reserves, and what each one does.       *)
Quiet ==
  /\ UNCHANGED <<reserves, retry_reserves, executing_reserve, state, told>>
  /\ Waiting' <=> Waiting
  /\ "late" \in odd' <=> "late" \in odd
  /\ now <= now'
ForceAdds ==
  /\ \E f \in Forcers, i \in DOMAIN Channels :
       reserves' = Added(reserves, ForceReserve(f, Channels[i]))
  /\ UNCHANGED <<retry_reserves, executing_reserve, state, told, run, odd, now>>
SeriesAdds ==
  /\ \E s \in series : reserves' = AllAdded(reserves, Series(s)) /\ series' = series \ {s}
  /\ UNCHANGED <<retry_reserves, executing_reserve, state, told, run, odd, now, next_day, asks>>

LEMMA Kinds ==
  ASSUME TypeOK, [Next]_vars
  PROVE  CheckLoop \/ SeriesAdds \/ ExecBegins \/ Ending \/ ForceAdds \/ Restart \/ Quiet
<1>0. now \in Nat /\ (now' = now => now <= now')
  BY EventScheduleAssumption DEF TypeOK
<1>1. CASE \E s \in series : AddReserves(s)
  <2>1. PICK s \in series : AddReserves(s)
    BY <1>1
  <2>2. /\ UNCHANGED <<retry_reserves, executing_reserve, state, told, run, odd, now, next_day, asks>>
        /\ series' = series \ {s}
    BY <2>1 DEF AddReserves, callers
  <2>3. reserves' = AllAdded(reserves, Series(s)) \/ reserves' = reserves
    BY <2>1 DEF AddReserves
  <2>4. QED BY <1>0, <2>2, <2>3 DEF SeriesAdds, Quiet, Waiting
<1>2. CASE Moves
  BY <1>0, <1>2 DEF Moves, Settled, RunRest, Waiting, Quiet
<1>3. CASE OnCacheSchedule \/ \E s \in Stoppers : OnStop(s) \/ StopLook(s)
  BY <1>0, <1>3 DEF OnCacheSchedule, OnStop, StopLook, RequestRest, Waiting, Quiet
<1>4. CASE \E f \in Forcers : OnForce(f)
  BY <1>0, <1>4 DEF OnForce, Overlap, RequestRest, Waiting, Quiet
<1>5. CASE \E f \in Forcers : ForceInfos(f)
  <2>1. PICK f \in Forcers : ForceInfos(f)
    BY <1>5
  <2>2. UNCHANGED <<retry_reserves, executing_reserve, state, told, run, odd, now>>
    BY <2>1 DEF ForceInfos, RequestRest
  <2>3. \/ reserves' = reserves
        \/ \E i \in DOMAIN Channels : reserves' = Added(reserves, ForceReserve(f, Channels[i]))
    BY <2>1 DEF ForceInfos
  <2>4. QED BY <1>0, <2>2, <2>3 DEF ForceAdds, Quiet, Waiting
<1>6. CASE \E f \in Forcers : ForceLook(f)
  BY <1>0, <1>6 DEF ForceLook, RequestRest, Waiting, Quiet
<1>7. CASE Tick
  <2>1. now <= now'
    BY <1>0, <1>7 DEF Tick
  <2>2. QED BY <1>7, <2>1 DEF Tick, WorldRest, tables, Waiting, Quiet
<1>8. CASE (\E g \in Groups : Closes(g) \/ Other(g)) \/ UNCHANGED vars
  BY <1>0, <1>8 DEF Closes, Other, WorldRest, tables, vars, Waiting, Quiet
<1>9. QED
  BY <1>1, <1>2, <1>3, <1>4, <1>5, <1>6, <1>7, <1>8, ExecCases DEF Next, Requests, Answers

LEMMA TakenIs ==
  ASSUME TypeOK, InOrder, Taken
  PROVE  /\ reserves[1] \in Reserve
         /\ Elements(reserves) = Elements(reserves') \cup {reserves[1]}
         /\ reserves[1] \notin Elements(reserves')
<1>1. reserves \in Seq(Reserve) /\ Distinct(reserves)
  BY DEF TypeOK, InOrder
<1>2. QED BY <1>1, WithoutFirst DEF Taken

LEMMA SeriesAddsIs ==
  ASSUME TypeOK, InOrder, NEW s \in series, reserves' = AllAdded(reserves, Series(s))
  PROVE  /\ Elements(reserves') = Elements(reserves) \cup Elements(Series(s))
         /\ \A y \in Elements(Series(s)) : First(y) /\ Shape(y) /\ y.of = s.of
         /\ \A y, z \in Elements(Series(s)) : Same(y, z) => y = z
<1>1. s \in [base : Nat, of : Origins] /\ reserves \in Seq(Reserve)
  BY DEF TypeOK
<1> DEFINE rs == Series(s)
<1>2. /\ rs \in Seq(Reserve)
      /\ \A y \in Elements(rs) : First(y) /\ Shape(y) /\ y.of = s.of
      /\ \A y, z \in Elements(rs) : Same(y, z) => y = z
  BY <1>1, SeriesIs
<1> HIDE DEF rs
<1>3. Elements(AllAdded(reserves, rs)) = Elements(reserves) \cup Elements(rs)
  BY <1>1, <1>2, AllAddedJoins
<1>4. QED BY <1>2, <1>3 DEF rs

LEMMA ForceAddsIs ==
  ASSUME TypeOK, NEW f \in Forcers, NEW i \in DOMAIN Channels,
         reserves' = Added(reserves, ForceReserve(f, Channels[i]))
  PROVE  Elements(reserves') = Elements(reserves) \cup {ForceReserve(f, Channels[i])}
<1>1. reserves \in Seq(Reserve) /\ ForceReserve(f, Channels[i]) \in Reserve
  BY ForceReserveIs DEF TypeOK
<1>2. QED BY <1>1, AddedJoins

(* The retries after the end of a run.                                      *)
LEMMA EndedRetries ==
  ASSUME TypeOK, Shapes, Executing, NEW q, Left(q), Ends(q, TRUE)
  PROVE  \A x \in Elements(retry_reserves') : ~Has("E") /\ x \in Elements(q)
<1>1. CASE Has("E")
  BY <1>1, EmptyList DEF Ends
<1>2. CASE ~Has("E")
  BY <1>2 DEF Ends
<1>3. QED BY <1>1, <1>2

LEMMA ShapesStep ==
  ASSUME TypeOK, InOrder, Shapes, [Next]_vars
  PROVE  Shapes'
<1>1. CASE CheckLoop
  <2>1. retry_reserves' = retry_reserves
    BY <1>1 DEF CheckLoop
  <2>2. CASE Taken
    BY <2>1, <2>2, TakenIs DEF Taken, Shapes, Executing
  <2>3. CASE UNCHANGED <<reserves, executing_reserve, run, odd>>
    BY <2>1, <2>3 DEF Shapes, Executing
  <2>4. QED BY <1>1, <2>2, <2>3, TakesOrNot DEF CheckLoop
<1>2. CASE SeriesAdds
  BY <1>2, SeriesAddsIs DEF SeriesAdds, Shapes, Executing
<1>3. CASE ExecBegins
  BY <1>3, EmptyList DEF ExecBegins, Shapes, Executing
<1>4. CASE Ending
  <2>1. PICK q : Left(q) /\ Ends(q, TRUE)
    BY <1>4 DEF Ending
  <2>2. Executing /\ executing_reserve' = NoReserve
    BY <1>4, <2>1 DEF Ending, Waiting, TypeOK, Ends
  <2>3. \A r \in Elements(reserves') : Shape(r)
    BY <2>1, <2>2, EndedReserves DEF Shapes
  <2>4. \A r \in Elements(retry_reserves') : r.kind = "normal"
    BY <2>1, <2>2, EndedRetries, LeftIs
  <2>5. QED BY <2>2, <2>3, <2>4 DEF Shapes, Executing
<1>5. CASE ForceAdds
  BY <1>5, ForceAddsIs, ForceReserveIs DEF ForceAdds, Shapes, Executing
<1>6. CASE Restart
  BY <1>6, EmptyList DEF Restart, Shapes, Executing
<1>7. CASE Quiet
  BY <1>7 DEF Quiet, Shapes, Executing
<1>8. QED BY <1>1, <1>2, <1>3, <1>4, <1>5, <1>6, <1>7, Kinds

-----------------------------------------------------------------------------
(* The force requests.  While none of them overlaps, the steps of all the   *)
(* others leave the requester of a forced reserve waiting for it.           *)
LEMMA ForceStays ==
  ASSUME TypeOK, ForceShape, UNCHANGED <<force, force_cache_group_id>>,
         "overlap" \in odd' <=> "overlap" \in odd,
         "overlap" \notin odd /\ run.pc # "lost" => run'.pc # "lost",
         \A r \in Elements(reserves') \cup {executing_reserve'} :
           r.kind = "force" => r \in Elements(reserves) \cup {executing_reserve}
  PROVE  ForceShape'
<1>1. \A r : Waits(r)' <=> Waits(r)
  BY DEF Waits
<1>2. QED BY <1>1 DEF ForceShape

(* A forced run finds the group of its request.                             *)
LEMMA NotLost ==
  ASSUME TypeOK, RunShape, ForceShape, "overlap" \notin odd, Exec
  PROVE  run'.pc # "lost"
<1>0. run.pc # "lost"
  BY DEF ForceShape
<1>1. CASE ExecBegins
  BY <1>1 DEF ExecBegins, TypeOK
<1>2. CASE Ending
  BY <1>2, OffIs DEF Ending, Ends
<1>3. CASE NameAnswered
  <2>1. CASE Forced
    <3>1. Waits(executing_reserve)
      BY <2>1 DEF Forced, ForceShape
    <3>2. force_cache_group_id \in Groups
      BY <3>1 DEF Waits, ForceShape
    <3>3. QED
      BY <1>3, <2>1, <3>2, NoGroupAssumption, WorksOnIt DEF NameAnswered
  <2>2. CASE ~Forced
    BY <1>3, <2>2, GoesTo DEF NameAnswered
  <2>3. QED BY <2>1, <2>2
<1>4. CASE OpenAnswered /\ ~Fails
  <2>1. PICK g \in Groups : run' = [run EXCEPT !.pc = "tune", !.group = g]
    BY <1>4 DEF OpenAnswered
  <2>2. QED BY <2>1 DEF TypeOK
<1>5. CASE TuneAnswered /\ ~Fails
  BY <1>5, NoGroupAssumption, WorksOnIt DEF TuneAnswered, RunShape
<1>6. CASE InfosAnswered /\ ~Fails
  BY <1>6, GoesTo DEF InfosAnswered
<1>7. CASE EnableAnswered
  BY <1>7, GoesTo DEF EnableAnswered
<1>8. CASE Look
  BY <1>8 DEF Look, Goes, TypeOK
<1>9. CASE Fails \/ Exits
  BY <1>9, OffIs DEF Fails, Exits, Ends
<1>10. QED
  BY <1>1, <1>3, <1>4, <1>5, <1>6, <1>7, <1>8, <1>9 DEF Exec, DisableAnswered

LEMMA ForceStep ==
  ASSUME TypeOK, InOrder, Shapes, RunShape, ForceShape, [Next]_vars
  PROVE  ForceShape'
<1>1. CASE CheckLoop
  <2>1. UNCHANGED <<force, force_cache_group_id>>
    BY <1>1 DEF CheckLoop, callers
  <2>2. CASE Taken
    <3>1. "overlap" \in odd' <=> "overlap" \in odd
      BY <2>2 DEF Taken
    <3>2. run'.pc = "sent" \/ run' = run
      BY <2>2, OffIs DEF Taken
    <3>3. \A r \in Elements(reserves') \cup {executing_reserve'} :
            r \in Elements(reserves) \cup {executing_reserve}
      BY <2>2, TakenIs DEF Taken
    <3>4. QED BY <2>1, <3>1, <3>2, <3>3, ForceStays
  <2>3. CASE UNCHANGED <<reserves, executing_reserve, run, odd>>
    BY <2>1, <2>3, ForceStays
  <2>4. QED BY <1>1, <2>2, <2>3, TakesOrNot DEF CheckLoop
<1>2. CASE \E s \in series : AddReserves(s)
  <2>1. PICK s \in series : AddReserves(s)
    BY <1>2
  <2>2. UNCHANGED <<force, force_cache_group_id, odd, run, executing_reserve>>
    BY <2>1 DEF AddReserves, callers
  <2>3. \A r \in Elements(reserves') : r.kind = "force" => r \in Elements(reserves)
    BY <2>1, SeriesAddsIs DEF AddReserves, First
  <2>4. QED BY <2>2, <2>3, ForceStays
<1>3. CASE Exec
  <2>1. UNCHANGED <<force, force_cache_group_id, odd>>
    BY <1>3, ExecCases DEF ExecBegins, Moves, Ending, RunRest, callers
  <2>2. \A r \in Elements(reserves') \cup {executing_reserve'} :
          r.kind = "force" => r \in Elements(reserves) \cup {executing_reserve}
    <3>1. CASE Ending
      <4>1. PICK q : Left(q) /\ Ends(q, TRUE)
        BY <3>1 DEF Ending
      <4>2. Executing /\ executing_reserve'.kind = "init"
        BY <3>1, <4>1, NoReserveIs DEF Ending, Waiting, TypeOK, Ends
      <4>3. QED BY <4>1, <4>2, EndedReserves DEF Again
    <3>2. CASE ExecBegins \/ Moves
      BY <3>2 DEF ExecBegins, Moves, Settled
    <3>3. QED BY <1>3, <3>1, <3>2, ExecCases
  <2>3. "overlap" \notin odd => run'.pc # "lost"
    BY <1>3, NotLost
  <2>4. QED BY <2>1, <2>2, <2>3, ForceStays
<1>4. CASE OnCacheSchedule \/ \E s \in Stoppers : OnStop(s) \/ StopLook(s)
  <2>1. UNCHANGED <<force, force_cache_group_id, odd, run, executing_reserve, reserves>>
    BY <1>4 DEF OnCacheSchedule, OnStop, StopLook, RequestRest
  <2>2. QED BY <2>1, ForceStays
<1>5. CASE \E f \in Forcers : OnForce(f)
  <2>1. PICK f \in Forcers : OnForce(f)
    BY <1>5
  <2>2. UNCHANGED <<run, executing_reserve, reserves>> /\ force[f].pc = "idle"
    BY <2>1 DEF OnForce, RequestRest
  <2>3. SUFFICES ASSUME "overlap" \notin odd' PROVE ForceShape'
    BY DEF ForceShape
  <2>4. "overlap" \notin odd /\ \A o \in Forcers : force[o].pc = "idle"
    BY <2>1, <2>2, <2>3 DEF OnForce, Overlap
  <2>5. \A r \in Elements(reserves) \cup {executing_reserve} : r.kind # "force"
    BY <2>4 DEF ForceShape, Waits
  <2>6. \A o \in Forcers : o # f => force'[o].pc = "idle"
    BY <2>1, <2>4 DEF OnForce, TypeOK
  <2>7. force'[f].pc # "idle" => force_cache_group_id' \in Groups
    BY <2>1, <2>2 DEF OnForce
  <2>8. run.pc # "lost"
    BY <2>4 DEF ForceShape
  <2>9. QED BY <2>2, <2>5, <2>6, <2>7, <2>8 DEF ForceShape
<1>6. CASE \E f \in Forcers : ForceInfos(f)
  <2>1. PICK f \in Forcers : ForceInfos(f)
    BY <1>6
  <2>2. UNCHANGED <<run, executing_reserve, odd>> /\ force[f].pc = "infos"
    BY <2>1 DEF ForceInfos, RequestRest
  <2>3. SUFFICES ASSUME "overlap" \notin odd PROVE ForceShape'
    BY <2>2 DEF ForceShape
  <2>4. /\ \A o \in Forcers : o # f => force[o].pc = "idle"
        /\ run.pc # "lost" /\ force_cache_group_id \in Groups
    BY <2>2, <2>3 DEF ForceShape
  <2>5. \A r \in Elements(reserves) \cup {executing_reserve} : r.kind # "force"
    BY <2>2, <2>3, <2>4 DEF ForceShape, Waits
  <2>6. CASE force' = [force EXCEPT ![f] = Idle] /\ UNCHANGED reserves
    BY <2>2, <2>4, <2>5, <2>6 DEF ForceShape, TypeOK, Idle
  <2>7. CASE \E i \in DOMAIN Channels :
               /\ reserves' = Added(reserves, ForceReserve(f, Channels[i]))
               /\ force' = [force EXCEPT ![f].pc = "wait", ![f].r = ForceReserve(f, Channels[i])]
               /\ UNCHANGED force_cache_group_id
    <3>1. PICK i \in DOMAIN Channels :
               /\ reserves' = Added(reserves, ForceReserve(f, Channels[i]))
               /\ force' = [force EXCEPT ![f].pc = "wait", ![f].r = ForceReserve(f, Channels[i])]
               /\ UNCHANGED force_cache_group_id
      BY <2>7
    <3>2. Elements(reserves') = Elements(reserves) \cup {ForceReserve(f, Channels[i])}
      BY <3>1, ForceAddsIs
    <3>3. force'[f].pc = "wait" /\ force'[f].r = ForceReserve(f, Channels[i])
      BY <3>1 DEF TypeOK
    <3>4. \A o \in Forcers : o # f => force'[o].pc = "idle"
      BY <2>4, <3>1 DEF TypeOK
    <3>5. \A r \in Elements(reserves') \cup {executing_reserve'} : r.kind = "force" => Waits(r)'
      BY <2>2, <2>5, <3>2, <3>3 DEF Waits
    <3>6. QED BY <2>2, <2>4, <3>1, <3>4, <3>5 DEF ForceShape
  <2>8. QED BY <2>1, <2>6, <2>7 DEF ForceInfos
<1>7. CASE \E f \in Forcers : ForceLook(f)
  <2>1. PICK f \in Forcers : ForceLook(f)
    BY <1>7
  <2>2. /\ UNCHANGED <<run, executing_reserve, reserves, odd>> /\ force[f].pc = "wait"
        /\ ~Listed(reserves, force[f].r) /\ executing_reserve # force[f].r
        /\ force' = [force EXCEPT ![f] = Idle]
    BY <2>1 DEF ForceLook, RequestRest
  <2>3. SUFFICES ASSUME "overlap" \notin odd PROVE ForceShape'
    BY <2>2 DEF ForceShape
  <2>4. (\A o \in Forcers : o # f => force[o].pc = "idle") /\ run.pc # "lost"
    BY <2>2, <2>3 DEF ForceShape
  <2>5. force[f].r \notin Elements(reserves)
    BY <2>2 DEF Listed, Elements, TypeOK
  <2>6. \A r \in Elements(reserves) \cup {executing_reserve} : r.kind # "force"
    BY <2>2, <2>3, <2>4, <2>5 DEF ForceShape, Waits
  <2>7. \A o \in Forcers : force'[o].pc = "idle"
    BY <2>2, <2>4 DEF TypeOK, Idle
  <2>8. QED BY <2>2, <2>4, <2>6, <2>7 DEF ForceShape
<1>8. CASE Restart
  <2>1. /\ reserves' = <<>> /\ executing_reserve' = NoReserve /\ run' = Off
        /\ force' = [f \in Forcers |-> Idle]
    BY <1>8 DEF Restart
  <2>2. QED BY <2>1, EmptyList, NoReserveIs, OffIs DEF ForceShape, Idle
<1>9. CASE Tick \/ (\E g \in Groups : Closes(g) \/ Other(g)) \/ UNCHANGED vars
  <2>1. UNCHANGED <<force, force_cache_group_id, odd, run, executing_reserve, reserves>>
    BY <1>9 DEF Tick, Closes, Other, WorldRest, tables, callers, vars
  <2>2. QED BY <2>1, ForceStays
<1>10. QED
  BY <1>1, <1>2, <1>3, <1>4, <1>5, <1>6, <1>7, <1>8, <1>9 DEF Next, Requests, Answers

-----------------------------------------------------------------------------
(* Where the reserves stem from.                                            *)
LEMMA ListingsTyped == TypeOK => Listings \subseteq Reserve
BY DEF TypeOK, Listings, Elements

Later == next_day <= next_day' /\ asks <= asks'

LEMMA UsedStays ==
  ASSUME TypeOK, TypeOK', Later, NEW o \in Origins, Used(o)
  PROVE  Used(o)'
<1>1. next_day \in Nat /\ next_day' \in Nat /\ asks \in Nat /\ asks' \in Nat
  BY EventScheduleAssumption DEF TypeOK
<1>2. CASE o[1] = "day"
  <2>1. o[2] \in Nat /\ o[2] < next_day
    BY <1>2 DEF Used, Origins
  <2>2. QED BY <1>1, <1>2, <2>1 DEF Used, Later
<1>3. CASE o[1] = "ask"
  <2>1. o[2] \in Nat /\ o[2] <= asks
    BY <1>3 DEF Used, Origins
  <2>2. QED BY <1>1, <1>3, <2>1 DEF Used, Later
<1>4. QED BY <1>2, <1>3 DEF Used

(* All there is now stems from what there was.                              *)
Stems ==
  \A r \in Listings' : r.kind = "normal" => \E x \in Listings : x.kind = "normal" /\ x.of = r.of

LEMMA OriginStays ==
  ASSUME TypeOK, TypeOK', Origin, Later, Stems, series' \subseteq series
  PROVE  Origin'
<1>1. \A s \in series : s.of \in Origins
  BY DEF TypeOK
<1>2. \A s \in series' : Used(s.of)'
  BY <1>1, UsedStays DEF Origin
<1>3. ASSUME NEW r \in Listings', r.kind = "normal"
      PROVE  Used(r.of)' /\ \A s \in series' : r.of # s.of
  <2>1. PICK x \in Listings : x.kind = "normal" /\ x.of = r.of
    BY <1>3 DEF Stems
  <2>2. x.of \in Origins
    BY ListingsTyped DEF Reserve
  <2>3. QED BY <2>1, <2>2, UsedStays DEF Origin
<1>4. QED BY <1>2, <1>3 DEF Origin

LEMMA OriginBegins ==
  ASSUME TypeOK, TypeOK', Origin, Later, Stems, NEW s, series' = series \cup {s},
         ~Used(s.of), Used(s.of)'
  PROVE  Origin'
<1>1. \A t \in series : t.of \in Origins
  BY DEF TypeOK
<1>2. \A t \in series' : Used(t.of)'
  BY <1>1, UsedStays DEF Origin
<1>3. ASSUME NEW r \in Listings', r.kind = "normal"
      PROVE  Used(r.of)' /\ \A t \in series' : r.of # t.of
  <2>1. PICK x \in Listings : x.kind = "normal" /\ x.of = r.of
    BY <1>3 DEF Stems
  <2>2. x.of \in Origins
    BY ListingsTyped DEF Reserve
  <2>3. QED BY <2>1, <2>2, UsedStays DEF Origin
<1>4. \A t, u \in series' : t.of = u.of => t = u
  BY DEF Origin
<1>5. QED BY <1>2, <1>3, <1>4 DEF Origin

LEMMA OriginStep ==
  ASSUME TypeOK, TypeOK', InOrder, Shapes, Origin, [Next]_vars
  PROVE  Origin'
<1>0. /\ next_day \in Nat /\ asks \in Nat
      /\ IntervalDay \in Nat
  BY EventScheduleAssumption DEF TypeOK
<1>1. CASE CheckLoop
  <2>1. retry_reserves' = retry_reserves /\ asks' = asks
    BY <1>1 DEF CheckLoop, callers
  <2>2. Listings' \subseteq Listings
    <3>1. CASE Taken
      BY <2>1, <3>1, TakenIs DEF Taken, Listings
    <3>2. CASE UNCHANGED <<reserves, executing_reserve, run, odd>>
      BY <2>1, <3>2 DEF Listings
    <3>3. QED BY <1>1, <3>1, <3>2, TakesOrNot DEF CheckLoop
  <2>3. Stems
    BY <2>2 DEF Stems
  <2>4. CASE Today = next_day
    <3>1. PICK d, t : d = next_day /\ t = [base |-> next_day * Day + StartTime, of |-> <<"day", d>>]
      OBVIOUS
    <3>2. /\ series' = series \cup {t} /\ t.of = <<"day", d>>
          /\ next_day' = next_day + IF IntervalDay <= 1 THEN 1 ELSE IntervalDay
      BY <1>1, <2>4, <3>1 DEF CheckLoop, DayBegins
    <3>3. Later /\ d < next_day'
      BY <1>0, <2>1, <3>1, <3>2 DEF Later
    <3>4. ~Used(t.of)
      BY <1>0, <3>1, <3>2 DEF Used
    <3>5. Used(t.of)'
      BY <3>2, <3>3 DEF Used
    <3>6. QED BY <2>3, <3>2, <3>3, <3>4, <3>5, OriginBegins
  <2>5. CASE Today # next_day
    <3>1. UNCHANGED <<series, next_day>>
      BY <1>1, <2>5 DEF CheckLoop, DayBegins
    <3>2. QED BY <1>0, <2>1, <2>3, <3>1, OriginStays DEF Later
  <2>6. QED BY <2>4, <2>5
<1>2. CASE SeriesAdds
  <2>1. PICK s \in series : reserves' = AllAdded(reserves, Series(s)) /\ series' = series \ {s}
    BY <1>2 DEF SeriesAdds
  <2>2. Later
    BY <1>0, <1>2 DEF SeriesAdds, Later
  <2>3. /\ Listings' = Listings \cup Elements(Series(s))
        /\ \A y \in Elements(Series(s)) : y.of = s.of
    BY <1>2, <2>1, SeriesAddsIs DEF SeriesAdds, Listings
  <2>4. \A t \in series : t.of \in Origins
    BY DEF TypeOK
  <2>5. \A t \in series' : Used(t.of)'
    BY <2>1, <2>2, <2>4, UsedStays DEF Origin
  <2>6. ASSUME NEW r \in Listings', r.kind = "normal"
        PROVE  Used(r.of)' /\ \A t \in series' : r.of # t.of
    <3>1. CASE r \in Listings
      <4>1. r.of \in Origins
        BY <3>1, ListingsTyped DEF Reserve
      <4>2. QED BY <2>1, <2>2, <2>6, <3>1, <4>1, UsedStays DEF Origin
    <3>2. CASE r \in Elements(Series(s))
      BY <2>1, <2>2, <2>3, <2>4, <3>2, UsedStays DEF Origin
    <3>3. QED BY <2>3, <3>1, <3>2
  <2>7. QED BY <2>1, <2>5, <2>6 DEF Origin
<1>3. CASE ExecBegins \/ Moves
  <2>1. Later /\ series' = series
    BY <1>0, <1>3 DEF ExecBegins, Moves, RunRest, callers, Later
  <2>2. Listings' \subseteq Listings
    BY <1>3, EmptyList DEF ExecBegins, Moves, Settled, Listings
  <2>3. QED BY <2>1, <2>2, OriginStays DEF Stems
<1>4. CASE Ending
  <2>1. PICK q : Left(q) /\ Ends(q, TRUE)
    BY <1>4 DEF Ending
  <2>2. Executing /\ executing_reserve'.kind = "init"
    BY <1>4, <2>1, NoReserveIs DEF Ending, Waiting, TypeOK, Ends
  <2>3. Later /\ series' = series
    BY <1>0, <1>4 DEF Ending, RunRest, callers, Later
  <2>4. ASSUME NEW x \in Elements(q)
        PROVE  \E z \in Listings : z.kind = "normal" /\ z.of = x.of
    <3>1. x.kind = "normal"
      BY <2>1, <2>2, LeftIs
    <3>2. x \in Elements(retry_reserves) \/ (First(executing_reserve) /\ Same(x, executing_reserve))
      BY <2>1, <2>2, LeftIs
    <3>3. QED BY <3>1, <3>2 DEF First, Same, Listings
  <2>5. ASSUME NEW r \in Listings', r.kind = "normal"
        PROVE  \E z \in Listings : z.kind = "normal" /\ z.of = r.of
    <3>1. CASE r \in Elements(reserves')
      <4>1. CASE r \in Elements(reserves)
        BY <2>5, <4>1 DEF Listings
      <4>2. CASE r \notin Elements(reserves)
        <5>1. PICK x \in Elements(q) : Same(r, x)
          BY <2>1, <2>2, <3>1, <4>2, EndedReserves
        <5>2. QED BY <2>4, <5>1 DEF Same
      <4>3. QED BY <4>1, <4>2
    <3>2. CASE r \in Elements(retry_reserves')
      BY <2>1, <2>2, <2>4, <3>2, EndedRetries
    <3>3. QED BY <2>2, <2>5, <3>1, <3>2 DEF Listings
  <2>6. QED BY <2>3, <2>5, OriginStays DEF Stems
<1>5. CASE OnCacheSchedule
  <2>1. PICK n : n = asks + 1
    OBVIOUS
  <2>2. /\ asks' = n /\ next_day' = next_day
        /\ series' = series \cup {[base |-> now, of |-> <<"ask", n>>]}
        /\ UNCHANGED <<reserves, retry_reserves, executing_reserve>>
    BY <1>5, <2>1 DEF OnCacheSchedule, Asks, RequestRest
  <2>3. Later
    BY <1>0, <2>1, <2>2 DEF Later
  <2>4. Stems
    BY <2>2 DEF Stems, Listings
  <2>5. PICK s : s = [base |-> now, of |-> <<"ask", n>>]
    OBVIOUS
  <2>6. s.of = <<"ask", n>>
    BY <2>5
  <2>7. ~Used(s.of)
    BY <1>0, <2>1, <2>6 DEF Used
  <2>8. Used(s.of)'
    BY <1>0, <2>1, <2>2, <2>6 DEF Used
  <2>9. QED BY <2>2, <2>3, <2>4, <2>5, <2>7, <2>8, OriginBegins
<1>6. CASE Answers
  <2>1. UNCHANGED <<series, retry_reserves, executing_reserve, next_day, asks>>
    BY <1>6 DEF Answers, ForceInfos, ForceLook, StopLook, RequestRest
  <2>2. \/ reserves' = reserves
        \/ \E f \in Forcers, i \in DOMAIN Channels :
             reserves' = Added(reserves, ForceReserve(f, Channels[i]))
    BY <1>6 DEF Answers, ForceInfos, ForceLook, StopLook
  <2>3. \A r \in Elements(reserves') : r.kind = "normal" => r \in Elements(reserves)
    BY <2>2, ForceAddsIs, ForceReserveIs
  <2>4. Stems
    BY <2>1, <2>3 DEF Stems, Listings
  <2>5. Later
    BY <1>0, <2>1 DEF Later
  <2>6. QED BY <2>1, <2>4, <2>5, OriginStays
<1>7. CASE (\E f \in Forcers : OnForce(f)) \/ (\E s \in Stoppers : OnStop(s))
  <2>1. UNCHANGED <<reserves, retry_reserves, executing_reserve, series>>
    BY <1>7 DEF OnForce, OnStop, RequestRest
  <2>2. next_day' = next_day /\ asks' = asks + 1
    BY <1>7 DEF OnForce, OnStop, RequestRest, Asks
  <2>3. Later
    BY <1>0, <2>2 DEF Later
  <2>4. QED BY <2>1, <2>3, OriginStays DEF Stems, Listings
<1>8. CASE Restart
  <2>1. /\ reserves' = <<>> /\ retry_reserves' = <<>> /\ executing_reserve' = NoReserve
        /\ series' = {}
    BY <1>8 DEF Restart
  <2>2. \A r \in Listings' : r.kind = "init"
    BY <2>1, EmptyList, NoReserveIs DEF Listings
  <2>3. QED BY <2>1, <2>2 DEF Origin
<1>9. CASE Tick \/ (\E g \in Groups : Closes(g) \/ Other(g)) \/ UNCHANGED vars
  <2>1. UNCHANGED <<reserves, retry_reserves, executing_reserve, series, next_day, asks>>
    BY <1>9 DEF Tick, Closes, Other, WorldRest, tables, callers, vars
  <2>2. QED BY <1>0, <2>1, OriginStays DEF Stems, Listings, Later
<1>10. CASE \E s \in series : AddReserves(s)
  <2>1. PICK s \in series : AddReserves(s)
    BY <1>10
  <2>2. CASE reserves' = reserves
    <3>1. UNCHANGED <<reserves, retry_reserves, executing_reserve, next_day, asks>>
          /\ series' = series \ {s}
      BY <2>1, <2>2 DEF AddReserves, callers
    <3>2. QED BY <1>0, <3>1, OriginStays DEF Stems, Listings, Later
  <2>3. CASE reserves' # reserves
    <3>1. SeriesAdds
      BY <2>1, <2>3 DEF AddReserves, SeriesAdds, callers
    <3>2. QED BY <1>2, <3>1
  <2>4. QED BY <2>2, <2>3
<1>11. QED
  BY <1>1, <1>3, <1>4, <1>5, <1>6, <1>7, <1>8, <1>9, <1>10, ExecCases DEF Next, Requests

-----------------------------------------------------------------------------
(* No retry is there while what it retries may still come.                  *)
LEMMA OneOf ==
  ASSUME NEW r PROVE ~(First(r) /\ Again(r))
BY DEF First, Again

LEMMA RetriesTyped ==
  ASSUME TypeOK
  PROVE  /\ retry_reserves \in Seq(Retries) /\ Len(retry_reserves) \in Nat
         /\ Elements(retry_reserves) \subseteq Retries /\ Retries \subseteq Reserve
<1>1. retry_reserves \in Seq(Retries)
  BY DEF TypeOK, Retries
<1>2. Len(retry_reserves) \in Nat /\ \A i \in 1..Len(retry_reserves) : retry_reserves[i] \in Retries
  BY <1>1
<1>3. QED BY <1>1, <1>2 DEF Elements, Retries

LEMMA FreshStays ==
  ASSUME TypeOK, TypeOK', Fresh, now <= now', UNCHANGED executing_reserve,
         retry_reserves' = retry_reserves \/ retry_reserves' = <<>>,
         \A r \in Elements(reserves') : First(r) \/ Again(r) => r \in Elements(reserves)
  PROVE  Fresh'
<1>1. /\ now \in Nat /\ now' \in Nat /\ RetryAfter \in Nat
      /\ Elements(retry_reserves) \subseteq Reserve
  <2>1. now \in Nat /\ now' \in Nat /\ RetryAfter \in Nat
    BY EventScheduleAssumption DEF TypeOK
  <2>2. QED BY <2>1, RetriesTyped
<1>2. Elements(retry_reserves') \subseteq Elements(retry_reserves) /\ Ordered(retry_reserves')
  BY EmptyList DEF Fresh
<1>3. ASSUME NEW r \in Elements(retry_reserves') PROVE r.start <= now' + RetryAfter
  <2>1. r.start \in Nat /\ r.start <= now + RetryAfter
    BY <1>1, <1>2 DEF Fresh, Reserve
  <2>2. QED BY <1>1, <2>1
<1>4. QED BY <1>2, <1>3 DEF Fresh

LEMMA LeftOrdered ==
  ASSUME TypeOK, Shapes, Fresh, Executing, NEW q, Left(q)
  PROVE  Ordered(q) /\ \A r \in Elements(q) : r.start <= now + RetryAfter
<1>1. CASE q = retry_reserves
  BY <1>1 DEF Fresh
<1>2. CASE Has("R") /\ q = Append(retry_reserves, Retry(executing_reserve))
  <2>1. PICK r, p : r = Retry(executing_reserve) /\ p = retry_reserves
    OBVIOUS
  <2>2. r \in Retries /\ r.start = now + RetryAfter
    BY <1>2, <2>1, RetryIs
  <2>3. p \in Seq(Retries) /\ Len(p) \in Nat /\ now + RetryAfter <= now + RetryAfter
    <3>1. now \in Nat /\ RetryAfter \in Nat
      BY EventScheduleAssumption DEF TypeOK
    <3>2. QED BY <2>1, <3>1, RetriesTyped
  <2>4. /\ q \in Seq(Retries) /\ Len(q) = Len(p) + 1
        /\ \A i \in 1..Len(p) : q[i] = p[i]
        /\ q[Len(p) + 1] = r
        /\ Elements(q) = Elements(p) \cup {r}
    BY <1>2, <2>1, <2>2, <2>3, Appended
  <2>5. \A x \in Elements(q) : x.start <= now + RetryAfter
    BY <2>1, <2>2, <2>3, <2>4 DEF Fresh
  <2>6. ASSUME NEW i \in 1..Len(q), NEW j \in 1..Len(q), i <= j
        PROVE  q[i].start <= q[j].start
    <3>1. CASE j <= Len(p)
      BY <2>1, <2>3, <2>4, <2>6, <3>1 DEF Fresh, Ordered
    <3>2. CASE j = Len(p) + 1
      BY <2>2, <2>4, <2>5, <3>2 DEF Elements
    <3>3. QED BY <2>3, <2>4, <3>1, <3>2
  <2>7. Ordered(q)
    BY <2>6 DEF Ordered
  <2>8. QED BY <2>5, <2>7
<1>3. QED BY <1>1, <1>2 DEF Left

LEMMA FreshStep ==
  ASSUME TypeOK, TypeOK', InOrder, Shapes, Origin, Fresh, [Next]_vars
  PROVE  Fresh'
<1>0. now \in Nat /\ now <= now
  BY EventScheduleAssumption DEF TypeOK
<1>1. CASE CheckLoop
  <2>1. retry_reserves' = retry_reserves /\ now' = now
    BY <1>1 DEF CheckLoop
  <2>2. CASE UNCHANGED executing_reserve
    <3>1. Elements(reserves') \subseteq Elements(reserves)
      BY <1>1, TakesOrNot, TakenIs DEF CheckLoop
    <3>2. QED BY <1>0, <2>1, <2>2, <3>1, FreshStays
  <2>3. CASE ~UNCHANGED executing_reserve
    <3>1. Taken /\ executing_reserve' = reserves[1]
      BY <1>1, <2>3, TakesOrNot DEF CheckLoop, Taken
    <3>2. /\ Elements(reserves) = Elements(reserves') \cup {executing_reserve'}
          /\ executing_reserve' \notin Elements(reserves')
      BY <3>1, TakenIs
    <3>3. QED BY <2>1, <3>2 DEF Fresh
  <2>4. QED BY <2>2, <2>3
<1>2. CASE SeriesAdds
  <2>1. PICK s \in series : reserves' = AllAdded(reserves, Series(s))
    BY <1>2 DEF SeriesAdds
  <2>2. UNCHANGED <<retry_reserves, executing_reserve, now>>
    BY <1>2 DEF SeriesAdds
  <2> DEFINE N == Elements(Series(s))
  <2>3. /\ Elements(reserves') = Elements(reserves) \cup N
        /\ \A y \in N : First(y) /\ ~Again(y) /\ y.of = s.of
        /\ \A y, z \in N : Same(y, z) => y = z
    BY <2>1, SeriesAddsIs, OneOf
  <2> HIDE DEF N
  <2>4. \A r \in Listings, y \in N : First(r) \/ Again(r) => ~Same(r, y) /\ ~Same(y, r)
    BY <2>3 DEF Origin, First, Again, Same
  <2>5. Ordered(retry_reserves') /\ \A r \in Elements(retry_reserves') : r.start <= now' + RetryAfter
    BY <2>2 DEF Fresh
  <2>6. ASSUME NEW r \in Elements(reserves') \cup {executing_reserve'},
               NEW x \in Elements(reserves') \cup Elements(retry_reserves'),
               First(r), Again(x)
        PROVE  ~Same(r, x)
    <3>1. x \in Listings /\ x \in Elements(reserves) \cup Elements(retry_reserves)
      BY <2>2, <2>3, <2>6 DEF Listings
    <3>2. CASE r \in N
      BY <2>4, <2>6, <3>1, <3>2
    <3>3. CASE r \notin N
      BY <2>2, <2>3, <2>6, <3>1, <3>3 DEF Fresh
    <3>4. QED BY <3>2, <3>3
  <2>7. ASSUME NEW r \in Elements(reserves'), First(executing_reserve'), First(r)
        PROVE  ~Same(executing_reserve', r)
    BY <2>2, <2>3, <2>4, <2>7 DEF Fresh, Listings
  <2>8. ASSUME NEW r \in Elements(reserves'), NEW x \in Elements(reserves'),
               First(r), First(x), Same(r, x)
        PROVE  r = x
    <3>1. r \in N <=> x \in N
      BY <2>3, <2>4, <2>8 DEF Listings
    <3>2. QED BY <2>3, <2>8, <3>1 DEF Fresh
  <2>9. ASSUME NEW x \in Elements(retry_reserves'), NEW y \in Elements(reserves'), Again(y)
        PROVE  ~Same(x, y)
    BY <2>2, <2>3, <2>9 DEF Fresh
  <2>10. QED BY <2>5, <2>6, <2>7, <2>8, <2>9 DEF Fresh
<1>3. CASE ExecBegins
  <2>1. /\ UNCHANGED <<reserves, executing_reserve, now>>
        /\ retry_reserves' = retry_reserves \/ retry_reserves' = <<>>
    BY <1>3 DEF ExecBegins
  <2>2. QED BY <1>0, <2>1, FreshStays
<1>4. CASE Ending
  <2>1. PICK q : Left(q) /\ Ends(q, TRUE)
    BY <1>4 DEF Ending
  <2>2. Executing /\ ~First(executing_reserve') /\ now' = now
    BY <1>4, <2>1, NoReserveIs DEF Ending, Waiting, TypeOK, Ends, First, RunRest
  <2>3. /\ Elements(reserves) \subseteq Elements(reserves')
        /\ \A y \in Elements(reserves') :
             y \in Elements(reserves) \/ (Has("E") /\ Again(y) /\ \E x \in Elements(q) : Same(y, x))
    BY <2>1, <2>2, EndedReserves
  <2>4. \A x \in Elements(retry_reserves') : ~Has("E") /\ x \in Elements(q)
    BY <2>1, <2>2, EndedRetries
  <2>5. \A x \in Elements(q) :
          x \in Elements(retry_reserves)
          \/ (First(executing_reserve) /\ Same(x, executing_reserve))
    BY <2>1, <2>2, LeftIs
  <2>6. ASSUME NEW r \in Elements(reserves'), First(r) PROVE r \in Elements(reserves)
    BY <2>3, <2>6, OneOf
  <2>7. ASSUME NEW r \in Elements(reserves), First(r), NEW x \in Elements(q)
        PROVE  ~Same(r, x)
    <3>1. x.kind = "normal" /\ (x \in Elements(retry_reserves) => Again(x))
      <4>1. x.kind = "normal"
        BY <2>1, <2>2, LeftIs
      <4>2. x \in Elements(retry_reserves) => x \in Retries
        BY RetriesTyped
      <4>3. QED BY <4>1, <4>2 DEF Again, Retries
    <3>2. CASE x \in Elements(retry_reserves)
      BY <2>7, <3>1, <3>2 DEF Fresh
    <3>3. CASE First(executing_reserve) /\ Same(x, executing_reserve)
      BY <2>7, <3>3 DEF Fresh, Same
    <3>4. QED BY <2>5, <3>2, <3>3
  <2>8. ASSUME NEW x \in Elements(q), NEW y \in Elements(reserves), Again(y)
        PROVE  ~Same(x, y)
    <3>1. CASE x \in Elements(retry_reserves)
      BY <2>8, <3>1 DEF Fresh
    <3>2. CASE First(executing_reserve) /\ Same(x, executing_reserve)
      BY <2>8, <3>2 DEF Fresh, Same
    <3>3. QED BY <2>5, <3>1, <3>2
  <2>9. Ordered(retry_reserves') /\ \A r \in Elements(retry_reserves') : r.start <= now' + RetryAfter
    BY <2>1, <2>2, LeftOrdered, EmptyList DEF Ends
  <2>10. ASSUME NEW r \in Elements(reserves'),
                NEW x \in Elements(reserves') \cup Elements(retry_reserves'),
                First(r), Again(x)
         PROVE  ~Same(r, x)
    <3>1. r \in Elements(reserves)
      BY <2>6, <2>10
    <3>2. CASE x \in Elements(reserves)
      BY <2>10, <3>1, <3>2 DEF Fresh
    <3>3. CASE x \in Elements(reserves') /\ x \notin Elements(reserves)
      BY <2>3, <2>7, <2>10, <3>1, <3>3 DEF Same
    <3>4. CASE x \in Elements(retry_reserves')
      BY <2>4, <2>7, <2>10, <3>1, <3>4
    <3>5. QED BY <3>2, <3>3, <3>4
  <2>11. ASSUME NEW r \in Elements(reserves'), NEW x \in Elements(reserves'),
                First(r), First(x), Same(r, x)
         PROVE  r = x
    BY <2>6, <2>11 DEF Fresh
  <2>12. ASSUME NEW x \in Elements(retry_reserves'), NEW y \in Elements(reserves'), Again(y)
         PROVE  ~Same(x, y)
    BY <2>3, <2>4, <2>8, <2>12
  <2>13. QED BY <2>2, <2>9, <2>10, <2>11, <2>12 DEF Fresh
<1>5. CASE ForceAdds
  <2>1. \A r \in Elements(reserves') : First(r) \/ Again(r) => r \in Elements(reserves)
    BY <1>5, ForceAddsIs, ForceReserveIs DEF ForceAdds
  <2>2. QED BY <1>0, <1>5, <2>1, FreshStays DEF ForceAdds
<1>6. CASE Restart
  <2>1. /\ reserves' = <<>> /\ retry_reserves' = <<>> /\ executing_reserve' = NoReserve
    BY <1>6 DEF Restart
  <2>2. QED BY <2>1, EmptyList, NoReserveIs DEF Fresh, First
<1>7. CASE Quiet
  BY <1>7, FreshStays DEF Quiet
<1>8. QED BY <1>1, <1>2, <1>3, <1>4, <1>5, <1>6, <1>7, Kinds

-----------------------------------------------------------------------------
(* The ends.                                                                *)
BothClosed(q) == Closed(q, Begin, End) /\ Closed(q, BeginN, EndN)

LEMMA SeriesCloses ==
  ASSUME NEW q \in Seq(Reserve), NEW rs \in Seq(Reserve), Ordered(q), BothClosed(q),
         Ordered(rs), Len(rs) # 0, LastEnds(rs), rs[Len(rs)] \notin Elements(q)
  PROVE  BothClosed(AllAdded(q, rs))
<1>1. rs[Len(rs)] \in EndN /\ rs[Len(rs)] \in End
  BY DEF LastEnds, EndN, End
<1>2. rs[Len(rs)] \notin Elements(q) \cup UpToNow(rs, Len(rs) - 1)
  BY DEF LastEnds
<1>3. Closed(q, Begin, End) /\ Closed(q, BeginN, EndN)
  BY DEF BothClosed
<1>4. Closed(AllAdded(q, rs), Begin, End)
  BY <1>1, <1>2, <1>3, AllAddedCloses
<1>5. Closed(AllAdded(q, rs), BeginN, EndN)
  BY <1>1, <1>2, <1>3, AllAddedCloses
<1>6. QED BY <1>4, <1>5 DEF BothClosed

LEMMA SeriesAddsCloses ==
  ASSUME TypeOK, InOrder, Origin, BothClosed(reserves), NEW s \in series
  PROVE  BothClosed(AllAdded(reserves, Series(s)))
<1>1. s \in [base : Nat, of : Origins] /\ reserves \in Seq(Reserve) /\ Ordered(reserves)
  BY DEF TypeOK, InOrder
<1> DEFINE rs == Series(s)
<1>2. /\ rs \in Seq(Reserve) /\ Len(rs) # 0 /\ Ordered(rs) /\ LastEnds(rs)
      /\ \A y \in Elements(rs) : First(y) /\ y.of = s.of
  BY <1>1, SeriesIs
<1> HIDE DEF rs
<1>3. rs[Len(rs)] \in Elements(rs)
  <2>1. Len(rs) \in 1..Len(rs)
    BY <1>2
  <2>2. QED BY <2>1 DEF Elements
<1>4. rs[Len(rs)] \notin Elements(reserves)
  BY <1>2, <1>3 DEF Origin, Listings, First
<1>5. BothClosed(AllAdded(reserves, rs))
  BY <1>1, <1>2, <1>4, SeriesCloses
<1>6. QED BY <1>5 DEF rs

LEMMA RetriesClose ==
  ASSUME TypeOK, InOrder, Shapes, Fresh, BothClosed(reserves), Executing, NEW q, Left(q)
  PROVE  BothClosed(AllAdded(reserves, RetrySeries(q)))
<1>1. reserves \in Seq(Reserve) /\ Ordered(reserves)
  BY DEF TypeOK, InOrder
<1> DEFINE rs == RetrySeries(q)
<1>2. /\ q \in Seq(Reserve) /\ rs \in Seq(Reserve) /\ Len(rs) = Len(q)
      /\ \A y \in Elements(rs) : Again(y) /\ \E x \in Elements(q) : Same(y, x)
      /\ Ordered(q) => Ordered(rs)
      /\ Len(q) # 0 => LastEnds(rs)
  BY LeftIs, RetriesAre
<1>3. \A x \in Elements(q) :
        x \in Elements(retry_reserves)
        \/ (First(executing_reserve) /\ Same(x, executing_reserve))
  BY LeftIs
<1>4. Ordered(q)
  BY LeftOrdered
<1> HIDE DEF rs
<1>5. CASE Len(q) = 0
  <2>1. Len(rs) = 0 /\ Len(rs) \in Nat
    BY <1>2, <1>5
  <2>2. AllAdded(reserves, rs) = reserves
    BY <2>1, AddsIs
  <2>3. QED BY <2>2 DEF rs
<1>6. CASE Len(q) # 0
  <2>1. rs[Len(rs)] \in Elements(rs)
    <3>1. Len(rs) \in 1..Len(rs)
      BY <1>2, <1>6
    <3>2. QED BY <3>1 DEF Elements
  <2>2. ASSUME rs[Len(rs)] \in Elements(reserves) PROVE FALSE
    <3>1. PICK y, x : /\ y = rs[Len(rs)] /\ y \in Elements(reserves) /\ Again(y)
                      /\ x \in Elements(q) /\ Same(y, x)
      BY <1>2, <2>1, <2>2
    <3>2. CASE x \in Elements(retry_reserves)
      BY <3>1, <3>2 DEF Fresh, Same
    <3>3. CASE First(executing_reserve) /\ Same(x, executing_reserve)
      BY <3>1, <3>3 DEF Fresh, Same
    <3>4. QED BY <1>3, <3>1, <3>2, <3>3
  <2>3. BothClosed(AllAdded(reserves, rs))
    BY <1>1, <1>2, <1>4, <1>6, <2>2, SeriesCloses
  <2>4. QED BY <2>3 DEF rs
<1>7. QED BY <1>5, <1>6

LEMMA ForceCloses ==
  ASSUME TypeOK, InOrder, BothClosed(reserves), NEW f \in Forcers, NEW i \in DOMAIN Channels
  PROVE  BothClosed(Added(reserves, ForceReserve(f, Channels[i])))
<1> DEFINE r == ForceReserve(f, Channels[i])
<1>1. reserves \in Seq(Reserve) /\ Ordered(reserves)
  BY DEF TypeOK, InOrder
<1>2. r \in Reserve /\ "N" \notin r.flags /\ "E" \in r.flags
  BY ForceReserveIs
<1> HIDE DEF r
<1>3. r \in End /\ r \notin BeginN /\ r.start \in Nat /\ r.start <= r.start
  <2>1. r.start \in Nat
    BY <1>2 DEF Reserve
  <2>2. r \in End /\ r \notin BeginN
    BY <1>2 DEF End, BeginN
  <2>3. QED BY <2>1, <2>2
<1>4. Closed(Sorted(reserves, r), BeginN, EndN)
  BY <1>1, <1>2, <1>3, SortedStaysClosed DEF BothClosed
<1>5. Closed(Sorted(reserves, r), Begin, End)
  <2>1. Open(reserves, Begin, End, r.start)
    BY DEF BothClosed, Closed, Open
  <2>2. QED BY <1>1, <1>2, <1>3, <2>1, SortedCloses
<1>6. BothClosed(Added(reserves, r))
  BY <1>4, <1>5 DEF Added, BothClosed
<1>7. QED BY <1>6 DEF r

(* All that may come stays to come, or more comes.                          *)
LEMMA BracketsStay ==
  ASSUME Brackets, "late" \in odd' <=> "late" \in odd,
         BothClosed(reserves) => BothClosed(reserves'),
         Elements(reserves) \subseteq Elements(reserves'),
         UNCHANGED <<executing_reserve, state, told>>,
         Waiting' <=> Waiting
  PROVE  Brackets'
<1>1. \A B : Comes(B) => \E r \in Elements(reserves') \cup {executing_reserve'} : r \in B
  BY DEF Comes
<1>2. QED BY <1>1 DEF Brackets, BothClosed, Comes, Begin, End, BeginN, EndN, Waiting

LEMMA BracketsStep ==
  ASSUME TypeOK, InOrder, Shapes, Origin, Fresh, Brackets, [Next]_vars
  PROVE  Brackets'
<1>0. reserves \in Seq(Reserve)
  BY DEF TypeOK
<1>1. CASE CheckLoop
  <2>1. UNCHANGED <<state, told>>
    BY <1>1 DEF CheckLoop
  <2>2. CASE UNCHANGED <<reserves, executing_reserve, run, odd>>
    BY <2>1, <2>2, BracketsStay DEF Waiting
  <2>3. CASE Taken
    <3>1. /\ ~Executing /\ Len(reserves) # 0 /\ reserves' = Without(reserves, 1)
          /\ Elements(reserves) = Elements(reserves') \cup {reserves[1]}
          /\ reserves[1] \in Reserve
      BY <2>3, TakenIs DEF Taken
    <3>2. BothClosed(reserves) => BothClosed(reserves')
      BY <1>0, <3>1, WithoutFirstCloses DEF BothClosed
    <3>3. executing_reserve \notin End /\ executing_reserve \notin EndN
      BY <3>1, NoReserveIs DEF Executing, End, EndN
    <3>4. CASE /\ odd' = odd \cup (IF "E" \in reserves[1].flags THEN {"late"} ELSE {})
               /\ UNCHANGED <<executing_reserve, run>>
      <4>1. SUFFICES ASSUME "late" \notin odd' PROVE Brackets'
        BY DEF Brackets
      <4>2. "late" \notin odd /\ reserves[1] \notin End /\ reserves[1] \notin EndN
        BY <3>4, <4>1 DEF End, EndN
      <4>3. BothClosed(reserves')
        BY <3>2, <4>2 DEF Brackets, BothClosed
      <4>4. \A B \in {End, EndN} :
              Comes(B) => \E r \in Elements(reserves') \cup {executing_reserve'} : r \in B
        BY <3>1, <3>4, <4>2 DEF Comes
      <4>5. QED
        BY <2>1, <3>4, <4>2, <4>3, <4>4 DEF Brackets, BothClosed, Comes, Begin, End, BeginN, EndN
    <3>5. CASE /\ executing_reserve' = reserves[1] /\ run' = [Off EXCEPT !.pc = "sent"]
               /\ UNCHANGED odd
      <4>1. SUFFICES ASSUME "late" \notin odd PROVE Brackets'
        BY <3>5 DEF Brackets
      <4>2. BothClosed(reserves) /\ BothClosed(reserves')
        BY <3>2, <4>1 DEF Brackets, BothClosed
      <4>3. \A B \in {End, EndN} :
              Comes(B) => \E r \in Elements(reserves') \cup {executing_reserve'} : r \in B
        BY <3>1, <3>3, <3>5 DEF Comes
      <4>4. /\ reserves[1] \in Begin => \E r \in Elements(reserves) : r \in End
            /\ reserves[1] \in BeginN => \E r \in Elements(reserves) : r \in EndN
        BY <1>0, <3>1, <4>2, WithoutFirstCloses DEF BothClosed
      <4>5. run'.pc = "sent"
        BY <3>5, OffIs
      <4>6. QED
        BY <2>1, <3>1, <3>5, <4>1, <4>2, <4>3, <4>4, <4>5
        DEF Brackets, BothClosed, Comes, Begin, End, BeginN, EndN
    <3>6. QED BY <2>3, <3>4, <3>5 DEF Taken
  <2>4. QED BY <1>1, <2>2, <2>3, TakesOrNot DEF CheckLoop
<1>2. CASE SeriesAdds
  <2>1. PICK s \in series : reserves' = AllAdded(reserves, Series(s))
    BY <1>2 DEF SeriesAdds
  <2>2. Elements(reserves) \subseteq Elements(reserves')
    BY <2>1, SeriesAddsIs
  <2>3. BothClosed(reserves) => BothClosed(reserves')
    BY <2>1, SeriesAddsCloses
  <2>4. QED BY <1>2, <2>2, <2>3, BracketsStay DEF SeriesAdds, Waiting
<1>3. CASE ExecBegins
  <2>1. /\ UNCHANGED <<reserves, executing_reserve, odd>>
        /\ state' = (IF Has("S") THEN "busy" ELSE state)
        /\ told' = (IF Has("N") THEN state' ELSE told)
        /\ run.pc = "sent"
    BY <1>3 DEF ExecBegins
  <2>2. SUFFICES ASSUME "late" \notin odd PROVE Brackets'
    BY <2>1 DEF Brackets
  <2>3. Shape(executing_reserve) /\ executing_reserve \in Reserve
    BY <2>1 DEF Shapes, TypeOK
  <2>4. /\ Has("S") => executing_reserve \in Begin
        /\ Has("S") /\ Has("N") => executing_reserve \in BeginN
        /\ ~Has("S") /\ Has("N") => executing_reserve \in EndN
    BY <2>3 DEF Has, Begin, BeginN, EndN, Shape
  <2>5. state' = "busy" => Comes(End)
    BY <2>1, <2>2, <2>4 DEF Brackets
  <2>6. executing_reserve \in EndN => Comes(EndN)
    BY DEF Comes
  <2>7. told' = "busy" => Comes(EndN)
    <3>1. CASE Has("N") /\ Has("S")
      BY <2>2, <2>4, <3>1 DEF Brackets
    <3>2. CASE Has("N") /\ ~Has("S")
      BY <2>4, <2>6, <3>2
    <3>3. CASE ~Has("N")
      BY <2>1, <2>2, <3>3 DEF Brackets
    <3>4. QED BY <3>1, <3>2, <3>3
  <2>8. Has("N") => told' = state'
    BY <2>1
  <2>9. Comes(End)' = Comes(End) /\ Comes(EndN)' = Comes(EndN)
    BY <2>1 DEF Comes, End, EndN
  <2>10. QED
    BY <2>1, <2>2, <2>5, <2>7, <2>8, <2>9 DEF Brackets, Has, Begin, BeginN
<1>4. CASE Ending
  <2>1. PICK q : Left(q) /\ Ends(q, TRUE)
    BY <1>4 DEF Ending
  <2>2. /\ executing_reserve' = NoReserve /\ run' = Off /\ odd' = odd
        /\ state' = (IF Has("E") THEN "ready" ELSE state)
        /\ told' = (IF Has("N") THEN state' ELSE told)
    BY <1>4, <2>1 DEF Ends, Ending, RunRest
  <2>3. Executing
    BY <1>4 DEF Ending, Waiting, TypeOK
  <2>4. SUFFICES ASSUME "late" \notin odd PROVE Brackets'
    BY <2>2 DEF Brackets
  <2>5. BothClosed(reserves')
    <3>1. BothClosed(reserves)
      BY <2>4 DEF Brackets, BothClosed
    <3>2. QED BY <2>1, <2>3, <3>1, RetriesClose DEF Ends
  <2>6. Elements(reserves) \subseteq Elements(reserves')
    BY <2>1, <2>3, EndedReserves
  <2>7. ~Has("E") => executing_reserve \notin End /\ executing_reserve \notin EndN
    BY DEF Has, End, EndN
  <2>8. ~Has("N") => executing_reserve \notin EndN
    BY DEF Has, EndN
  <2>9. ASSUME state' = "busy" PROVE \E r \in Elements(reserves') : r \in End
    <3>1. ~Has("E") /\ state = "busy"
      BY <2>2, <2>9
    <3>2. Comes(End)
      BY <2>4, <3>1 DEF Brackets
    <3>3. QED BY <2>6, <2>7, <3>1, <3>2 DEF Comes
  <2>10. ASSUME told' = "busy" PROVE \E r \in Elements(reserves') : r \in EndN
    <3>1. CASE Has("N")
      <4>1. ~Has("E") /\ state = "busy"
        BY <2>2, <2>10, <3>1
      <4>2. told = state
        BY <1>4, <2>4, <3>1 DEF Brackets, Has, Ending, Waiting
      <4>3. Comes(EndN)
        BY <2>4, <4>1, <4>2 DEF Brackets
      <4>4. QED BY <2>6, <2>7, <4>1, <4>3 DEF Comes
    <3>2. CASE ~Has("N")
      <4>1. Comes(EndN)
        BY <2>2, <2>4, <2>10, <3>2 DEF Brackets
      <4>2. QED BY <2>6, <2>8, <3>2, <4>1 DEF Comes
    <3>3. QED BY <3>1, <3>2
  <2>11. executing_reserve'.flags = {} /\ run'.pc = "off"
    BY <2>2, NoReserveIs, OffIs
  <2>12. QED
    BY <2>5, <2>9, <2>10, <2>11 DEF Brackets, BothClosed, Comes, Begin, BeginN, End, EndN
<1>5. CASE ForceAdds
  <2>1. PICK f \in Forcers, i \in DOMAIN Channels :
          reserves' = Added(reserves, ForceReserve(f, Channels[i]))
    BY <1>5 DEF ForceAdds
  <2>2. Elements(reserves) \subseteq Elements(reserves')
    BY <2>1, ForceAddsIs
  <2>3. BothClosed(reserves) => BothClosed(reserves')
    BY <2>1, ForceCloses
  <2>4. QED BY <1>5, <2>2, <2>3, BracketsStay DEF ForceAdds, Waiting
<1>6. CASE Restart
  <2>1. /\ reserves' = <<>> /\ executing_reserve' = NoReserve /\ run' = Off
        /\ state' = "ready" /\ told' = "ready"
    BY <1>6 DEF Restart
  <2>2. executing_reserve'.flags = {} /\ run'.pc = "off"
    BY <2>1, NoReserveIs, OffIs
  <2>3. BothClosed(reserves')
    BY <2>1, EmptyList DEF BothClosed
  <2>4. QED BY <2>1, <2>2, <2>3 DEF Brackets, BothClosed, Begin, BeginN, End, EndN
<1>7. CASE Quiet
  BY <1>7, BracketsStay DEF Quiet
<1>8. QED BY <1>1, <1>2, <1>3, <1>4, <1>5, <1>6, <1>7, Kinds

-----------------------------------------------------------------------------
(* The theorems.                                                            *)
LEMMA InitInductive == Init => IInv
<1> SUFFICES ASSUME Init PROVE IInv
  OBVIOUS
<1>1. /\ reserves = <<>> /\ retry_reserves = <<>> /\ executing_reserve = NoReserve
      /\ run = Off /\ series = {} /\ odd = {} /\ asked = FALSE /\ closing = {}
      /\ state = "ready" /\ told = "ready" /\ is_need_stop = FALSE
      /\ now = 0 /\ asks = 0 /\ next_day = Today /\ force_cache_group_id = NoGroup
      /\ force = [f \in Forcers |-> Idle] /\ stop = [s \in Stoppers |-> FALSE]
      /\ tuner = [g \in Groups |-> "free"] /\ parsing = [g \in Groups |-> FALSE]
  BY DEF Init
<1>2. ClockTyped
  <2>1. now \in Nat /\ Day \in Nat \ {0} /\ MaxTime \in Nat /\ MaxAsks \in Nat
    BY <1>1, EventScheduleAssumption
  <2>2. Today \in Nat
    BY <2>1, Quotient DEF Today
  <2>3. QED BY <1>1, <2>1, <2>2 DEF ClockTyped
<1>3. ListsTyped /\ CallersTyped /\ RunTyped
  BY <1>1, NoReserveIs, EmptyList, OffIs DEF ListsTyped, CallersTyped, RunTyped, Idle, Executing
<1>4. TypeOK
  BY <1>2, <1>3, TypeParts
<1>5. InOrder /\ Shapes /\ StopShape
  BY <1>1, EmptyList DEF InOrder, Shapes, StopShape, Executing
<1>6. RunShape /\ LeavesNothing
  BY <1>1, OffIs, NoGroupAssumption DEF RunShape, LeavesNothing, Working
<1>7. ForceShape
  BY <1>1, EmptyList, NoReserveIs, OffIs DEF ForceShape, Idle
<1>8. Origin /\ Fresh
  BY <1>1, EmptyList, NoReserveIs DEF Origin, Fresh, Listings, First
<1>9. Brackets
  BY <1>1, EmptyList, NoReserveIs, OffIs DEF Brackets, Begin, BeginN
<1>10. QED BY <1>4, <1>5, <1>6, <1>7, <1>8, <1>9 DEF IInv

LEMMA StepInductive == IInv /\ [Next]_vars => IInv'
<1> SUFFICES ASSUME IInv, [Next]_vars PROVE IInv'
  OBVIOUS
<1>0. /\ TypeOK /\ InOrder /\ Shapes /\ RunShape /\ LeavesNothing /\ StopShape
      /\ ForceShape /\ Origin /\ Fresh /\ Brackets
  BY DEF IInv
<1>1. RunTyped' /\ RunShape' /\ LeavesNothing'
  BY <1>0, RunStep DEF RunParts
<1>2. TypeOK'
  <2>1. ClockTyped' /\ ListsTyped' /\ CallersTyped'
    BY <1>0, ClockStep, ListsStep, CallersStep
  <2>2. QED
    BY <1>1, <2>1 DEF TypeOK, ClockTyped, ListsTyped, CallersTyped, RunTyped, Retries, Runs
<1>3. InOrder'
  BY <1>0, ReservesStep DEF InOrder
<1>4. Shapes'
  BY <1>0, ShapesStep
<1>5. StopShape'
  BY <1>0, StopStep
<1>6. ForceShape'
  BY <1>0, ForceStep
<1>7. Origin'
  BY <1>0, <1>2, OriginStep
<1>8. Fresh'
  BY <1>0, <1>2, FreshStep
<1>9. Brackets'
  BY <1>0, BracketsStep
<1>10. QED BY <1>1, <1>2, <1>3, <1>4, <1>5, <1>6, <1>7, <1>8, <1>9 DEF IInv

(* What every state satisfies, however the requests, the day, the failures  *)
(* and a restart interleave.                                                *)
THEOREM Inductive == Spec => []IInv
BY InitInductive, StepInductive, PTL DEF Spec

(* The types; there is a run exactly while executing_reserve_ is valid.     *)
THEOREM TypeCorrect == Spec => []TypeOK
<1>1. IInv => TypeOK
  BY DEF IInv
<1>2. QED BY <1>1, Inductive, PTL

(* do_error and do_exit give the run's own tuner back once, whatever failed,*)
(* and leave no parser on.                                                  *)
THEOREM RunsLeaveNothing == Spec => []LeavesNothing
<1>1. IInv => LeavesNothing
  BY DEF IInv
<1>2. QED BY <1>1, Inductive, PTL

(* No other request takes back a stop that came during the run:             *)
(* is_need_stop_ is reset only when executing_reserve_ is not valid.        *)
THEOREM StopHolds == Spec => []StopNotLost
<1>1. IInv => StopNotLost
  BY DEF IInv, StopShape, StopNotLost
<1>2. QED BY <1>1, Inductive, PTL

(* Series and their retries are sorted by time and are never taken for one  *)
(* another, so a busy state has its end to come.                            *)
THEOREM BusyEnds == Spec => []BusyHasEnd
<1>1. IInv => BusyHasEnd
  <2>1. TypeOK => {reserves[i] : i \in DOMAIN reserves} = Elements(reserves)
    BY DEF TypeOK, Elements
  <2>2. QED BY <2>1 DEF IInv, Brackets, BusyHasEnd, Comes, End, EndN
<1>2. QED BY <1>1, Inductive, PTL

(* While no two force requests overlap, the group a forced run works with   *)
(* is that of the request that waits for it.                                *)
THEOREM CallersGetOn == Spec => []CallersNotStuck
<1>1. IInv => CallersNotStuck
  BY DEF IInv, TypeOK, ForceShape, CallersNotStuck
<1>2. QED BY <1>1, Inductive, PTL
=============================================================================
