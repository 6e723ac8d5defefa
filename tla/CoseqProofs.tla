---------------------------- MODULE CoseqProofs -----------------------------
(***************************************************************************)
(* What the scheduler does to the events in flight.  flight is the order   *)
(* in which deferred, batch and inbox would be handled if nothing was set  *)
(* aside any more: a turn of the loop and the setting aside of an event    *)
(* leave it as it is, a post appends to it, and handling an event removes  *)
(* that one occurrence.  So no event is lost, duplicated or made up.       *)
(***************************************************************************)
EXTENDS Coseq, Naturals, SequenceTheorems, TLAPS

QueuesIn(S) == inbox \in Seq(S) /\ batch \in Seq(S) /\ deferred \in Seq(S)

(* r is q without its k-th element.                                         *)
Removed(q, k, r) ==
  /\ k \in 1..Len(q)
  /\ Len(r) = Len(q) - 1
  /\ \A i \in 1..Len(r) : r[i] = IF i < k THEN q[i] ELSE q[i + 1]

(* Everything in flight is one of the events in the three queues.           *)
LEMMA FlightTyped ==
  ASSUME NEW S, QueuesIn(S)
  PROVE  /\ flight \in Seq(S)
         /\ Len(flight) = Len(deferred) + Len(batch) + Len(inbox)
<1>1. /\ deferred \o batch \in Seq(S)
      /\ Len(deferred \o batch) = Len(deferred) + Len(batch)
  BY ConcatProperties DEF QueuesIn
<1>2. QED BY <1>1, ConcatProperties DEF QueuesIn, flight

(* post(): what was in flight stays, in its order, and the event comes last.*)
LEMMA PostExtends ==
  ASSUME NEW S, QueuesIn(S), NEW e \in S,
         Post(<<e>>), batch' = batch, deferred' = deferred
  PROVE  /\ flight' = Append(flight, e)
         /\ QueuesIn(S)'
<1>1. <<e>> \in Seq(S)
  OBVIOUS
<1>2. deferred \o batch \in Seq(S)
  BY ConcatProperties DEF QueuesIn
<1>3. flight' = flight \o <<e>>
  BY <1>1, <1>2, ConcatAssociative DEF QueuesIn, Post, flight
<1>4. flight' = Append(flight, e)
  BY <1>3, FlightTyped, AppendIsConcat
<1>5. QED BY <1>1, <1>4, ConcatProperties DEF QueuesIn, Post

(* A turn of the loop only regroups the events, whether the lock is free    *)
(* (the deferred ones go first) or not.                                     *)
LEMMA TurnKeeps ==
  ASSUME NEW S, QueuesIn(S), NEW expired, BeginTurn(expired)
  PROVE  flight' = flight /\ QueuesIn(S)'
<1>1. batch = <<>> /\ inbox' = <<>>
  BY DEF BeginTurn
<1>2. flight = deferred \o inbox
  BY <1>1, ConcatEmptySeq DEF QueuesIn, flight
<1>3. deferred \o inbox \in Seq(S) /\ <<>> \in Seq(S)
  BY ConcatProperties, EmptySeq DEF QueuesIn
<1>4. CASE locked_by = NoFiber
  <2>1. deferred' = <<>> /\ batch' = deferred \o inbox
    BY <1>4 DEF BeginTurn
  <2>2. QED BY <1>1, <1>2, <1>3, <2>1, ConcatEmptySeq DEF QueuesIn, flight
<1>5. CASE locked_by # NoFiber
  <2>1. deferred' = deferred /\ batch' = inbox
    BY <1>5 DEF BeginTurn
  <2>2. QED BY <1>1, <1>2, <1>3, <2>1, ConcatEmptySeq DEF QueuesIn, flight
<1>6. QED BY <1>4, <1>5

LEMMA ConcatElements ==
  ASSUME NEW S, NEW s \in Seq(S), NEW t \in Seq(S), NEW w, w = s \o t
  PROVE  /\ w \in Seq(S) /\ Len(w) = Len(s) + Len(t)
         /\ \A i \in 1..(Len(s) + Len(t)) :
               w[i] = IF i <= Len(s) THEN s[i] ELSE t[i - Len(s)]
BY ConcatProperties

LEMMA HeadConcat ==
  ASSUME NEW S, NEW q \in Seq(S), q # <<>>
  PROVE  q = <<Head(q)>> \o Tail(q) /\ Head(q) \in S /\ Tail(q) \in Seq(S)
<1> DEFINE h == <<Head(q)>>
           t == Tail(q)
           w == h \o t
<1>1. /\ Head(q) \in S /\ t \in Seq(S) /\ Len(t) = Len(q) - 1
      /\ \A i \in 1..Len(t) : t[i] = q[i + 1]
  BY HeadTailProperties
<1>2. Len(q) \in Nat \ {0} /\ Head(q) = q[1]
  BY EmptySeq
<1>3. h \in Seq(S) /\ Len(h) = 1 /\ h[1] = q[1]
  BY <1>1, <1>2
<1> HIDE DEF h, t
<1>4. /\ w \in Seq(S) /\ Len(w) = Len(h) + Len(t)
      /\ \A i \in 1..(Len(h) + Len(t)) :
            w[i] = IF i <= Len(h) THEN h[i] ELSE t[i - Len(h)]
  <2>1. h \in Seq(S) /\ t \in Seq(S)
    BY <1>1, <1>3
  <2>2. QED BY <2>1, ConcatElements
<1> HIDE DEF w
<1>5. Len(w) = Len(q)
  BY <1>1, <1>2, <1>3, <1>4
<1>6. ASSUME NEW i \in 1..Len(q) PROVE q[i] = w[i]
  <2>1. CASE i = 1
    BY <1>2, <1>3, <1>4, <1>5, <2>1
  <2>2. CASE i > 1
    <3>1. w[i] = t[i - 1] /\ i - 1 \in 1..Len(t)
      BY <1>1, <1>2, <1>3, <1>4, <1>5, <2>2
    <3>2. QED BY <1>1, <1>2, <3>1
  <2>3. QED BY <1>2, <2>1, <2>2
<1>7. q = w
  BY <1>4, <1>5, <1>6, SeqEqual
<1>8. QED BY <1>1, <1>7 DEF h, t, w

(* Setting an event aside changes neither the events in flight nor their    *)
(* order.                                                                   *)
LEMMA DeferKeeps ==
  ASSUME NEW S, QueuesIn(S), NEW e, NEW o, Defer(e, o)
  PROVE  flight' = flight /\ QueuesIn(S)'
<1>1. /\ batch # <<>> /\ e = Head(batch)
      /\ batch' = Tail(batch) /\ deferred' = Append(deferred, e) /\ inbox' = inbox
  BY DEF Defer, EventIs
<1>2. batch = <<e>> \o Tail(batch) /\ e \in S /\ Tail(batch) \in Seq(S) /\ <<e>> \in Seq(S)
  BY <1>1, HeadConcat DEF QueuesIn
<1>3. deferred' = deferred \o <<e>> /\ deferred' \in Seq(S)
  BY <1>1, <1>2, AppendIsConcat, AppendProperties DEF QueuesIn
<1>4. deferred' \o batch' = deferred \o batch
  BY <1>1, <1>2, <1>3, ConcatAssociative DEF QueuesIn
<1>5. QED BY <1>1, <1>2, <1>3, <1>4 DEF QueuesIn, flight

(* Handling an event takes that one occurrence of it out of flight; the     *)
(* rest keep their order.  What the handler posts is not among them.        *)
Rest == (deferred' \o batch') \o inbox

LEMMA TakeRemoves ==
  ASSUME NEW S, QueuesIn(S), NEW e, NEW o, Take(e, o)
  PROVE  /\ e \in S /\ batch' \in Seq(S) /\ deferred' = deferred
         /\ Rest \in Seq(S)
         /\ \E k \in 1..Len(flight) : flight[k] = e /\ Removed(flight, k, Rest)
<1>1. batch # <<>> /\ e = Head(batch) /\ batch' = Tail(batch) /\ deferred' = deferred
  BY DEF Take, EventIs
<1>2. /\ e \in S /\ batch' \in Seq(S) /\ Len(batch') = Len(batch) - 1 /\ e = batch[1]
      /\ \A i \in 1..Len(batch') : batch'[i] = batch[i + 1]
  BY <1>1, HeadTailProperties DEF QueuesIn
<1>3. Len(deferred) \in Nat /\ Len(batch) \in Nat \ {0} /\ Len(inbox) \in Nat
  BY <1>1, EmptySeq, LenProperties DEF QueuesIn
<1> DEFINE p == deferred \o batch
           r == deferred \o batch'
<1>4. /\ p \in Seq(S) /\ Len(p) = Len(deferred) + Len(batch)
      /\ \A i \in 1..(Len(deferred) + Len(batch)) :
            p[i] = IF i <= Len(deferred) THEN deferred[i] ELSE batch[i - Len(deferred)]
  BY ConcatProperties DEF QueuesIn
<1>5. /\ r \in Seq(S) /\ Len(r) = Len(deferred) + Len(batch')
      /\ \A i \in 1..(Len(deferred) + Len(batch')) :
            r[i] = IF i <= Len(deferred) THEN deferred[i] ELSE batch'[i - Len(deferred)]
  BY <1>2, ConcatProperties DEF QueuesIn
<1>6. /\ flight = p \o inbox /\ Rest = r \o inbox
  BY <1>1 DEF flight, Rest
<1> HIDE DEF p, r
<1>7. /\ Len(flight) = Len(p) + Len(inbox)
      /\ \A i \in 1..(Len(p) + Len(inbox)) :
            flight[i] = IF i <= Len(p) THEN p[i] ELSE inbox[i - Len(p)]
  <2>1. p \in Seq(S) /\ inbox \in Seq(S)
    BY <1>4 DEF QueuesIn
  <2>2. QED BY <1>6, <2>1, ConcatElements
<1>8. /\ Len(Rest) = Len(r) + Len(inbox)
      /\ \A i \in 1..(Len(r) + Len(inbox)) :
            Rest[i] = IF i <= Len(r) THEN r[i] ELSE inbox[i - Len(r)]
  <2>1. r \in Seq(S) /\ inbox \in Seq(S)
    BY <1>5 DEF QueuesIn
  <2>2. QED BY <1>6, <2>1, ConcatElements
<1> DEFINE k == Len(deferred) + 1
<1>9. k \in 1..Len(flight) /\ flight[k] = e
  BY <1>2, <1>3, <1>4, <1>7
<1>10. Len(Rest) = Len(flight) - 1
  BY <1>2, <1>3, <1>4, <1>5, <1>7, <1>8
<1>11. ASSUME NEW i \in 1..Len(Rest)
       PROVE  Rest[i] = IF i < k THEN flight[i] ELSE flight[i + 1]
  <2>1. CASE i < k
    <3>1. i \in 1..Len(deferred)
      BY <1>3, <2>1
    <3>2. flight[i] = p[i] /\ p[i] = deferred[i]
      BY <1>3, <1>4, <1>7, <3>1
    <3>3. Rest[i] = r[i] /\ r[i] = deferred[i]
      BY <1>2, <1>3, <1>5, <1>8, <3>1
    <3>4. QED BY <3>2, <3>3, <2>1
  <2>2. CASE i >= k /\ i <= Len(r)
    <3>0. /\ Len(r) = Len(deferred) + Len(batch') /\ Len(batch') \in Nat
          /\ i \in 1..Len(r) /\ i > Len(deferred) /\ i - Len(deferred) \in 1..Len(batch')
      BY <1>2, <1>3, <1>5, <2>2
    <3>1. Rest[i] = batch'[i - Len(deferred)]
      <4>1. Rest[i] = r[i]
        BY <1>3, <1>8, <3>0
      <4>2. r[i] = batch'[i - Len(deferred)]
        BY <1>3, <1>5, <3>0
      <4>3. QED BY <4>1, <4>2
    <3>2. flight[i + 1] = batch[i + 1 - Len(deferred)]
      <4>1. i + 1 \in 1..Len(p) /\ i + 1 > Len(deferred)
        BY <1>2, <1>3, <1>4, <1>5, <2>2
      <4>2. flight[i + 1] = p[i + 1]
        BY <1>3, <1>4, <1>7, <4>1
      <4>3. p[i + 1] = batch[i + 1 - Len(deferred)]
        BY <1>3, <1>4, <4>1
      <4>4. QED BY <4>2, <4>3
    <3>3. batch'[i - Len(deferred)] = batch[i - Len(deferred) + 1]
      BY <1>2, <3>0
    <3>4. QED BY <3>1, <3>2, <3>3, <1>3, <2>2
  <2>3. CASE i > Len(r)
    <3>1. Rest[i] = inbox[i - Len(r)]
      BY <1>2, <1>3, <1>5, <1>8, <2>3
    <3>2. flight[i + 1] = inbox[i + 1 - Len(p)]
      BY <1>2, <1>3, <1>4, <1>5, <1>7, <1>8, <2>3
    <3>3. i - Len(r) = i + 1 - Len(p) /\ i >= k
      BY <1>2, <1>3, <1>4, <1>5, <2>3
    <3>4. QED BY <3>1, <3>2, <3>3
  <2>4. Len(r) \in Nat
    BY <1>2, <1>3, <1>5
  <2>5. QED BY <1>3, <2>1, <2>2, <2>3, <2>4
<1>12. Removed(flight, k, Rest)
  BY <1>9, <1>10, <1>11 DEF Removed
<1>13. Rest \in Seq(S)
  <2>1. r \in Seq(S) /\ inbox \in Seq(S)
    BY <1>5 DEF QueuesIn
  <2>2. QED BY <1>6, <2>1, ConcatElements
<1>14. QED BY <1>1, <1>2, <1>9, <1>12, <1>13

(* A handler that posts nothing, and one that posts one event.              *)
LEMMA TakeOnly ==
  ASSUME NEW S, QueuesIn(S), NEW e, NEW o, Take(e, o), inbox' = inbox
  PROVE  flight' = Rest /\ QueuesIn(S)'
BY TakeRemoves DEF QueuesIn, flight, Rest

LEMMA TakeAndPost ==
  ASSUME NEW S, QueuesIn(S), NEW e, NEW o, Take(e, o), NEW n \in S, Post(<<n>>)
  PROVE  flight' = Append(Rest, n) /\ QueuesIn(S)'
<1>1. <<n>> \in Seq(S) /\ inbox' = inbox \o <<n>>
  BY DEF Post
<1>2. Rest \in Seq(S) /\ batch' \in Seq(S) /\ deferred' \in Seq(S) /\ inbox \in Seq(S)
  BY TakeRemoves DEF QueuesIn
<1>3. deferred' \o batch' \in Seq(S) /\ inbox' \in Seq(S)
  BY <1>1, <1>2, ConcatProperties
<1>4. flight' = Rest \o <<n>>
  BY <1>1, <1>2, <1>3, ConcatAssociative DEF flight, Rest
<1>5. QED BY <1>2, <1>3, <1>4, AppendIsConcat DEF QueuesIn

-----------------------------------------------------------------------------
(* The same for a proof that does not look at the order: which events are   *)
(* in flight, and that of a kind M there is at most one.                    *)
InTransit == {flight[i] : i \in 1..Len(flight)}
AtMostOnce(q, M) == \A i, j \in 1..Len(q) : q[i] \in M /\ q[j] \in M => i = j

(* After an event e was taken and the events n (none or one) were posted.   *)
TransitAfter(e, n) ==
  /\ e \in InTransit
  /\ InTransit' \subseteq InTransit \cup n
  /\ \A M : AtMostOnce(flight, M) =>
       /\ e \in M => InTransit' \cap M \subseteq n
       /\ (n \cap M = {} \/ e \in M \/ InTransit \cap M = {}) => AtMostOnce(flight', M)

(* After the events n were posted.                                          *)
TransitWith(n) ==
  /\ InTransit' \subseteq InTransit \cup n
  /\ \A M : AtMostOnce(flight, M) /\ (n \cap M = {} \/ InTransit \cap M = {})
             => AtMostOnce(flight', M)

LEMMA RemovedOnce ==
  ASSUME NEW S, NEW q \in Seq(S), NEW r \in Seq(S), NEW k, Removed(q, k, r), NEW M
  PROVE  /\ \A i \in 1..Len(r) : \E j \in 1..Len(q) : r[i] = q[j]
         /\ AtMostOnce(q, M) => AtMostOnce(r, M)
         /\ AtMostOnce(q, M) /\ q[k] \in M => \A i \in 1..Len(r) : r[i] \notin M
<1>1. Len(q) \in Nat /\ Len(r) = Len(q) - 1 /\ k \in 1..Len(q)
  BY DEF Removed
<1> DEFINE at(i) == IF i < k THEN i ELSE i + 1
<1>2. \A i \in 1..Len(r) : at(i) \in 1..Len(q) /\ at(i) # k /\ r[i] = q[at(i)]
  BY <1>1 DEF Removed
<1>3. \A i, j \in 1..Len(r) : at(i) = at(j) => i = j
  BY <1>1
<1> HIDE DEF at
<1>4. QED BY <1>1, <1>2, <1>3 DEF AtMostOnce

LEMMA AppendedOnce ==
  ASSUME NEW S, NEW q \in Seq(S), NEW n \in S, NEW M
  PROVE  /\ \A i \in 1..Len(Append(q, n)) :
              Append(q, n)[i] = n \/ \E j \in 1..Len(q) : Append(q, n)[i] = q[j]
         /\ n \notin M /\ AtMostOnce(q, M) => AtMostOnce(Append(q, n), M)
         /\ (\A i \in 1..Len(q) : q[i] \notin M) => AtMostOnce(Append(q, n), M)
<1> DEFINE p == Append(q, n)
<1>1. Len(q) \in Nat /\ Len(p) = Len(q) + 1 /\ p[Len(q) + 1] = n
      /\ \A i \in 1..Len(q) : p[i] = q[i]
  BY AppendProperties
<1> HIDE DEF p
<1>2. \A i \in 1..Len(p) : i = Len(q) + 1 \/ (i \in 1..Len(q) /\ p[i] = q[i])
  BY <1>1
<1>3. \A i \in 1..Len(p) : p[i] = n \/ \E j \in 1..Len(q) : p[i] = q[j]
  BY <1>1, <1>2
<1>4. n \notin M /\ AtMostOnce(q, M) => AtMostOnce(p, M)
  BY <1>1, <1>2 DEF AtMostOnce
<1>5. (\A i \in 1..Len(q) : q[i] \notin M) => AtMostOnce(p, M)
  BY <1>1, <1>2 DEF AtMostOnce
<1>6. QED BY <1>3, <1>4, <1>5 DEF p

LEMMA PostTransits ==
  ASSUME NEW S, QueuesIn(S), NEW e \in S,
         Post(<<e>>), batch' = batch, deferred' = deferred
  PROVE  QueuesIn(S)' /\ TransitWith({e})
<1>1. flight' = Append(flight, e) /\ QueuesIn(S)' /\ flight \in Seq(S)
  BY PostExtends, FlightTyped
<1>2. InTransit' \subseteq InTransit \cup {e}
  BY <1>1, AppendedOnce DEF InTransit
<1>3. ASSUME NEW M, AtMostOnce(flight, M), {e} \cap M = {} \/ InTransit \cap M = {}
      PROVE  AtMostOnce(flight', M)
  <2>1. e \notin M \/ \A i \in 1..Len(flight) : flight[i] \notin M
    BY <1>3 DEF InTransit
  <2>2. QED BY <1>1, <1>3, <2>1, AppendedOnce
<1>4. QED BY <1>1, <1>2, <1>3 DEF TransitWith

LEMMA TakeTransits ==
  ASSUME NEW S, QueuesIn(S), NEW e, NEW o, Take(e, o), inbox' = inbox
  PROVE  QueuesIn(S)' /\ e \in S /\ due = {} /\ due' = {} /\ TransitAfter(e, {})
<1>1. /\ flight' = Rest /\ QueuesIn(S)' /\ e \in S /\ Rest \in Seq(S) /\ flight \in Seq(S)
      /\ due = {} /\ due' = {}
  BY TakeOnly, TakeRemoves, FlightTyped DEF Take, EventIs
<1>2. PICK k \in 1..Len(flight) : flight[k] = e /\ Removed(flight, k, Rest)
  BY TakeRemoves
<1>3. e \in InTransit /\ InTransit' \subseteq InTransit
  BY <1>1, <1>2, RemovedOnce DEF InTransit
<1>4. ASSUME NEW M, AtMostOnce(flight, M)
      PROVE  AtMostOnce(flight', M) /\ (e \in M => InTransit' \cap M = {})
  BY <1>1, <1>2, <1>4, RemovedOnce DEF InTransit
<1>5. QED BY <1>1, <1>3, <1>4 DEF TransitAfter

LEMMA TakePostTransits ==
  ASSUME NEW S, QueuesIn(S), NEW e, NEW o, Take(e, o), NEW n \in S, Post(<<n>>)
  PROVE  QueuesIn(S)' /\ e \in S /\ due = {} /\ due' = {} /\ TransitAfter(e, {n})
<1>1. /\ flight' = Append(Rest, n) /\ QueuesIn(S)' /\ e \in S /\ Rest \in Seq(S) /\ flight \in Seq(S)
      /\ due = {} /\ due' = {}
  BY TakeAndPost, TakeRemoves, FlightTyped DEF Take, EventIs
<1>2. PICK k \in 1..Len(flight) : flight[k] = e /\ Removed(flight, k, Rest)
  BY TakeRemoves
<1>3. \A i \in 1..Len(Rest) : Rest[i] \in InTransit
  <2>1. \A i \in 1..Len(Rest) : \E j \in 1..Len(flight) : Rest[i] = flight[j]
    BY <1>1, <1>2, RemovedOnce
  <2>2. QED BY <2>1 DEF InTransit
<1>4. e \in InTransit /\ InTransit' \subseteq InTransit \cup {n}
  <2>1. e \in InTransit
    BY <1>2 DEF InTransit
  <2>2. \A i \in 1..Len(flight') : flight'[i] = n \/ \E j \in 1..Len(Rest) : flight'[i] = Rest[j]
    BY <1>1, AppendedOnce
  <2>3. QED BY <1>3, <2>1, <2>2 DEF InTransit
<1>5. ASSUME NEW M, AtMostOnce(flight, M)
      PROVE  /\ AtMostOnce(Rest, M)
             /\ e \in M => \A i \in 1..Len(Rest) : Rest[i] \notin M
  BY <1>1, <1>2, <1>5, RemovedOnce
<1>6. ASSUME NEW M, AtMostOnce(flight, M), e \in M
      PROVE  InTransit' \cap M \subseteq {n}
  <2>1. \A i \in 1..Len(Rest) : Rest[i] \notin M
    BY <1>5, <1>6
  <2>2. \A i \in 1..Len(flight') : flight'[i] = n \/ \E j \in 1..Len(Rest) : flight'[i] = Rest[j]
    BY <1>1, AppendedOnce
  <2>3. QED BY <2>1, <2>2 DEF InTransit
<1>7. ASSUME NEW M, AtMostOnce(flight, M), {n} \cap M = {} \/ e \in M \/ InTransit \cap M = {}
      PROVE  AtMostOnce(flight', M)
  <2>1. n \notin M \/ \A i \in 1..Len(Rest) : Rest[i] \notin M
    BY <1>3, <1>5, <1>7
  <2>2. QED BY <1>1, <1>5, <1>7, <2>1, AppendedOnce
<1>8. QED BY <1>1, <1>4, <1>6, <1>7 DEF TransitAfter

-----------------------------------------------------------------------------
(* Events of A that come before all events of B.                            *)
Before(q, A, B) == \A i, j \in 1..Len(q) : q[i] \in A /\ q[j] \in B => i < j

LEMMA RemovedOrder ==
  ASSUME NEW S, NEW q \in Seq(S), NEW r \in Seq(S), NEW k, Removed(q, k, r),
         NEW A, NEW B, Before(q, A, B)
  PROVE  Before(r, A, B)
<1>1. Len(q) \in Nat /\ Len(r) = Len(q) - 1 /\ k \in 1..Len(q)
  BY DEF Removed
<1> DEFINE at(i) == IF i < k THEN i ELSE i + 1
<1>2. \A i \in 1..Len(r) : at(i) \in 1..Len(q) /\ r[i] = q[at(i)]
  BY <1>1 DEF Removed
<1>3. \A i, j \in 1..Len(r) : at(i) < at(j) => i < j
  BY <1>1
<1> HIDE DEF at
<1>4. QED BY <1>2, <1>3 DEF Before

LEMMA AppendedOrder ==
  ASSUME NEW S, NEW q \in Seq(S), NEW n \in S, NEW A, NEW B,
         Before(q, A, B), n \notin A \/ n \notin B,
         n \in A => \A i \in 1..Len(q) : q[i] \notin B
  PROVE  Before(Append(q, n), A, B)
<1> DEFINE p == Append(q, n)
<1>1. Len(q) \in Nat /\ Len(p) = Len(q) + 1 /\ p[Len(q) + 1] = n
      /\ \A i \in 1..Len(q) : p[i] = q[i]
  BY AppendProperties
<1> HIDE DEF p
<1>2. \A i \in 1..Len(p) : i = Len(q) + 1 \/ (i \in 1..Len(q) /\ p[i] = q[i])
  BY <1>1
<1>3. Before(p, A, B)
  BY <1>1, <1>2 DEF Before
<1>4. QED BY <1>3 DEF p

LEMMA TailOrder ==
  ASSUME NEW S, NEW q \in Seq(S), q # <<>>, NEW A, NEW B, Before(q, A, B)
  PROVE  /\ Before(Tail(q), A, B)
         /\ Head(q) \in B => \A i \in 1..Len(Tail(q)) : Tail(q)[i] \notin A
         /\ \A i \in 1..Len(Tail(q)) : \E j \in 1..Len(q) : Tail(q)[i] = q[j]
<1> DEFINE r == Tail(q)
<1>1. Len(q) \in Nat \ {0} /\ Len(r) = Len(q) - 1 /\ Head(q) = q[1]
      /\ \A i \in 1..Len(r) : r[i] = q[i + 1] /\ i + 1 \in 1..Len(q)
  BY HeadTailProperties, EmptySeq
<1> HIDE DEF r
<1>2. Before(r, A, B)
  <2>1. ASSUME NEW i \in 1..Len(r), NEW j \in 1..Len(r), r[i] \in A, r[j] \in B
        PROVE  i < j
    <3>1. /\ i + 1 \in 1..Len(q) /\ j + 1 \in 1..Len(q)
          /\ q[i + 1] \in A /\ q[j + 1] \in B
      BY <1>1, <2>1
    <3>2. i + 1 < j + 1
      BY <3>1 DEF Before
    <3>3. QED BY <3>2
  <2>2. QED BY <2>1 DEF Before
<1>3. Head(q) \in B => \A i \in 1..Len(r) : r[i] \notin A
  BY <1>1 DEF Before
<1>4. QED BY <1>1, <1>2, <1>3 DEF r

Includes(f, q) == \A i \in 1..Len(q) : \E j \in 1..Len(f) : f[j] = q[i]

LEMMA PartsOfConcat ==
  ASSUME NEW S, NEW d \in Seq(S), NEW b \in Seq(S), NEW x \in Seq(S),
         NEW f, f = (d \o b) \o x
  PROVE  Includes(f, b) /\ Includes(f, x)
<1>0. PICK w : w = d \o b
  OBVIOUS
<1>00. f = w \o x
  BY <1>0
<1>1. w \in Seq(S)
  BY <1>0, ConcatElements
<1>2. /\ Len(w) = Len(d) + Len(b)
      /\ \A i \in 1..(Len(d) + Len(b)) : w[i] = IF i <= Len(d) THEN d[i] ELSE b[i - Len(d)]
  BY <1>0, ConcatElements
<1>4. /\ Len(f) = Len(w) + Len(x)
      /\ \A i \in 1..(Len(w) + Len(x)) : f[i] = IF i <= Len(w) THEN w[i] ELSE x[i - Len(w)]
  BY <1>00, <1>1, ConcatElements
<1>5. Len(d) \in Nat /\ Len(b) \in Nat /\ Len(x) \in Nat
  OBVIOUS
<1>6. ASSUME NEW i \in 1..Len(b)
      PROVE  \E j \in 1..Len(f) : f[j] = b[i]
  <2>1. i + Len(d) \in 1..Len(f) /\ f[i + Len(d)] = b[i]
    BY <1>2, <1>4, <1>5
  <2>2. QED BY <2>1
<1>7. ASSUME NEW i \in 1..Len(x)
      PROVE  \E j \in 1..Len(f) : f[j] = x[i]
  <2>1. i + Len(w) \in 1..(Len(w) + Len(x)) /\ ~(i + Len(w) <= Len(w))
        /\ (i + Len(w)) - Len(w) = i
    BY <1>2, <1>5
  <2>2. i + Len(w) \in 1..Len(f) /\ f[i + Len(w)] = x[i]
    BY <1>4, <2>1
  <2>3. QED BY <2>2
<1>8. QED BY <1>6, <1>7 DEF Includes

LEMMA HeadOfConcat ==
  ASSUME NEW S, NEW d \in Seq(S), NEW b \in Seq(S), NEW x \in Seq(S), d = <<>>, b # <<>>
  PROVE  ((d \o b) \o x)[1] = Head(b) /\ 1 \in 1..Len((d \o b) \o x)
<1>0. PICK w : w = d \o b
  OBVIOUS
<1>00. PICK f : f = w \o x
  OBVIOUS
<1>1. w \in Seq(S)
  BY <1>0, ConcatElements
<1>2. /\ Len(w) = Len(d) + Len(b)
      /\ \A i \in 1..(Len(d) + Len(b)) : w[i] = IF i <= Len(d) THEN d[i] ELSE b[i - Len(d)]
  BY <1>0, ConcatElements
<1>4. /\ Len(f) = Len(w) + Len(x)
      /\ \A i \in 1..(Len(w) + Len(x)) : f[i] = IF i <= Len(w) THEN w[i] ELSE x[i - Len(w)]
  BY <1>00, <1>1, ConcatElements
<1>5. Len(d) \in Nat /\ Len(b) \in Nat /\ Len(x) \in Nat
  OBVIOUS
<1>6. Len(d) = 0 /\ Len(b) > 0 /\ Head(b) = b[1]
  BY <1>5, EmptySeq, HeadTailProperties
<1>7. f[1] = Head(b) /\ 1 \in 1..Len(f)
  BY <1>2, <1>4, <1>5, <1>6
<1>8. QED BY <1>0, <1>00, <1>7

(* What stays: all that was not taken, and what was posted.                 *)
Stays(gone, new) ==
  InTransit \ gone \subseteq InTransit' /\ new \subseteq InTransit' /\ InTransit' \subseteq InTransit \cup new

LEMMA RemovedStays ==
  ASSUME NEW S, NEW q \in Seq(S), NEW r \in Seq(S), NEW k, Removed(q, k, r)
  PROVE  \A i \in 1..Len(q) : i # k => \E j \in 1..Len(r) : r[j] = q[i]
<1>1. Len(q) \in Nat /\ Len(r) = Len(q) - 1 /\ k \in 1..Len(q)
  BY DEF Removed
<1>2. ASSUME NEW i \in 1..Len(q), i # k
      PROVE  \E j \in 1..Len(r) : r[j] = q[i]
  <2>1. CASE i < k
    <3>1. i \in 1..Len(r) /\ r[i] = q[i]
      BY <1>1, <2>1 DEF Removed
    <3>2. QED BY <3>1
  <2>2. CASE i > k
    <3>1. i - 1 \in 1..Len(r) /\ ~(i - 1 < k) /\ (i - 1) + 1 = i
      BY <1>1, <2>2
    <3>2. r[i - 1] = q[i]
      BY <1>1, <3>1 DEF Removed
    <3>3. QED BY <3>1, <3>2
  <2>3. QED BY <1>1, <1>2, <2>1, <2>2
<1>3. QED BY <1>2

LEMMA AppendedStays ==
  ASSUME NEW S, NEW q \in Seq(S), NEW n \in S, NEW p, p = Append(q, n)
  PROVE  Includes(p, q) /\ Includes(p, <<n>>)
<1>1. Len(q) \in Nat /\ Len(p) = Len(q) + 1 /\ p[Len(q) + 1] = n
      /\ \A i \in 1..Len(q) : p[i] = q[i]
  BY AppendProperties
<1>2. \A i \in 1..Len(q) : i \in 1..Len(p)
  BY <1>1
<1>3. Len(q) + 1 \in 1..Len(p)
  BY <1>1
<1>4. Includes(p, q)
  BY <1>1, <1>2 DEF Includes
<1>5. Includes(p, <<n>>)
  BY <1>1, <1>3 DEF Includes
<1>6. QED BY <1>4, <1>5

LEMMA PostStays ==
  ASSUME NEW S, QueuesIn(S), NEW n \in S, Post(<<n>>), batch' = batch, deferred' = deferred
  PROVE  Stays({}, {n})
<1>1. flight' = Append(flight, n) /\ flight \in Seq(S)
  BY PostExtends, FlightTyped
<1>2. Includes(flight', flight) /\ Includes(flight', <<n>>)
  BY <1>1, AppendedStays
<1>3. InTransit \subseteq InTransit' /\ n \in InTransit'
  BY <1>2 DEF InTransit, Includes
<1>4. InTransit' \subseteq InTransit \cup {n}
  BY PostTransits DEF TransitWith
<1>5. QED BY <1>3, <1>4 DEF Stays

LEMMA TakeStays ==
  ASSUME NEW S, QueuesIn(S), NEW e, NEW o, Take(e, o)
  PROVE  /\ inbox' = inbox => Stays({e}, {})
         /\ \A n \in S : Post(<<n>>) => Stays({e}, {n})
<1>1. PICK k \in 1..Len(flight) : flight[k] = e /\ Removed(flight, k, Rest)
  BY TakeRemoves
<1>2. Rest \in Seq(S) /\ flight \in Seq(S)
  BY TakeRemoves, FlightTyped
<1>3. \A i \in 1..Len(flight) : i # k => \E j \in 1..Len(Rest) : Rest[j] = flight[i]
  BY <1>1, <1>2, RemovedStays
<1>4. ASSUME inbox' = inbox
      PROVE  Stays({e}, {})
  <2>1. flight' = Rest
    BY <1>4, TakeOnly
  <2>2. InTransit \ {e} \subseteq InTransit'
    BY <1>1, <1>3, <2>1 DEF InTransit
  <2>3. InTransit' \subseteq InTransit
    BY <1>4, TakeTransits DEF TransitAfter
  <2>4. QED BY <2>2, <2>3 DEF Stays
<1>5. ASSUME NEW n \in S, Post(<<n>>)
      PROVE  Stays({e}, {n})
  <2>1. flight' = Append(Rest, n)
    BY <1>5, TakeAndPost
  <2>2. Includes(flight', Rest) /\ Includes(flight', <<n>>)
    BY <1>2, <2>1, AppendedStays
  <2>3. n \in InTransit' /\ \A j \in 1..Len(Rest) : Rest[j] \in InTransit'
    BY <2>2 DEF InTransit, Includes
  <2>5. ASSUME NEW x \in InTransit \ {e}
        PROVE  x \in InTransit'
    <3>1. PICK i \in 1..Len(flight) : flight[i] = x
      BY DEF InTransit
    <3>2. PICK j \in 1..Len(Rest) : Rest[j] = x
      BY <1>1, <1>3, <3>1
    <3>3. QED BY <2>3, <3>2
  <2>4. InTransit' \subseteq InTransit \cup {n}
    BY <1>5, TakePostTransits DEF TransitAfter
  <2>6. QED BY <2>3, <2>4, <2>5 DEF Stays
<1>6. QED BY <1>4, <1>5
=============================================================================
