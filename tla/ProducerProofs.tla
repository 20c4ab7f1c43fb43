----------------------------- MODULE ProducerProofs -----------------------------
(***************************************************************************)
(* Theorems about OrderProducer, for any number of partitions, orders,     *)
(* events and runs, and however the Kafka client delivers.                 *)
(***************************************************************************)
EXTENDS OrderProducer, SequenceTheorems, FiniteSetTheorems, TLAPS

\* The types; the limits of the memory and of the client's queue are in LimitsOK.
TypesOK ==
    /\ clock \in 0 .. MaxClock
    /\ phase \in {"running", "flushing", "exited"}
    /\ sent \in 0 .. Total
    /\ nextId \in 1 .. sent + 1
    /\ seen \in Seq(Events)
    /\ queue \in [Partitions -> Seq(Events)]
    /\ topic \in [Partitions -> Seq(Events)]
    /\ runs \in 0 .. MaxRuns

\* An order is in memory once, and new orders have numbers not used in this run.
SeenOK ==
    /\ \A i \in 1 .. Len(seen) : seen[i].order < nextId
    /\ \A i, j \in 1 .. Len(seen) : seen[i].order = seen[j].order => i = j

\* A partition has events of its keys only, in the order of their times.
Ordered(s, p) ==
    /\ \A i \in 1 .. Len(s) : PartitionOf[s[i].order] = p /\ s[i].ts <= clock
    /\ \A i, j \in 1 .. Len(s) : i <= j => s[i].ts <= s[j].ts

Sents == [p \in Partitions |-> Sent(p)]

SentOK ==
    \A p \in Partitions :
        /\ Ordered(Sents[p], p)
        /\ Len(Sents[p]) <= runs * Total + sent

\* Event e is the last of its order in s.
LastIn(s, e) ==
    \E k \in 1 .. Len(s) : s[k] = e /\ \A l \in 1 .. Len(s) : l > k => s[l].order # e.order

MemoryOK ==
    phase # "exited" =>
        \A i \in 1 .. Len(seen) :
            seen[i].order \notin dropped => LastIn(Sents[PartitionOf[seen[i].order]], seen[i])

\* The inductive invariant.
ProducerInv == TypesOK /\ SeenOK /\ SentOK /\ MemoryOK

-----------------------------------------------------------------------------
(* Sequences of events.                                                     *)

LEMMA EventTypes ==
    ASSUME NEW e \in Events
    PROVE  /\ e.order \in 1 .. Total /\ e.order \in Nat /\ e.ts \in Nat
           /\ PartitionOf[e.order] \in Partitions
BY ProducerAssumption DEF Events, Orders

LEMMA SentElements ==
    ASSUME TypesOK, NEW p \in Partitions
    PROVE  /\ topic[p] \in Seq(Events) /\ queue[p] \in Seq(Events)
           /\ Sents[p] = topic[p] \o queue[p]
           /\ Sents[p] \in Seq(Events) /\ Len(Sents[p]) \in Nat
           /\ Len(Sents[p]) = Len(topic[p]) + Len(queue[p])
<1>1. topic[p] \in Seq(Events) /\ queue[p] \in Seq(Events)
  BY DEF TypesOK
<1>2. Sents[p] = topic[p] \o queue[p]
  BY DEF Sents, Sent
<1>3. /\ topic[p] \o queue[p] \in Seq(Events)
      /\ Len(topic[p] \o queue[p]) = Len(topic[p]) + Len(queue[p])
  BY <1>1, ConcatProperties
<1> QED BY <1>1, <1>2, <1>3, LenProperties

LEMMA CountTypes ==
    ASSUME TypesOK
    PROVE  /\ runs \in Nat /\ sent \in Nat /\ runs * Total \in Nat
           /\ runs * Total + sent \in Nat
<1>1. runs \in Nat /\ sent \in Nat /\ Total \in Nat
  BY ProducerAssumption DEF TypesOK
<1>2. runs * Total \in Nat
  BY <1>1
<1> QED BY <1>1, <1>2

LEMMA AppendAfter ==
    ASSUME NEW s \in Seq(Events), NEW t \in Seq(Events), NEW e \in Events
    PROVE  s \o Append(t, e) = Append(s \o t, e)
<1>1. Append(t, e) = t \o <<e>> /\ Append(s \o t, e) = (s \o t) \o <<e>> /\ <<e>> \in Seq(Events)
  BY ConcatProperties, AppendIsConcat
<1> QED BY <1>1, ConcatAssociative

LEMMA HeadTailCons ==
    ASSUME NEW s \in Seq(Events), s # << >>
    PROVE  s = <<Head(s)>> \o Tail(s)
<1>1. Len(s) \in Nat /\ 1 \in 1 .. Len(s) /\ Len(s) \in 1 .. Len(s)
  BY EmptySeq, LenProperties
<1>2. s = SubSeq(s, 1, Len(s)) /\ Tail(s) = SubSeq(s, 2, Len(s)) /\ Head(s) = s[1]
  BY SubSeqFull, TailIsSubSeq
<1>3. SubSeq(s, 1, Len(s)) = <<s[1]>> \o SubSeq(s, 1 + 1, Len(s))
  BY <1>1, SubSeqRecursiveFirst
<1> QED BY <1>2, <1>3

\* A sequence without its element at n.
Without(s, t, n) ==
    /\ Len(t) = Len(s) - 1
    /\ \A i \in 1 .. Len(t) : t[i] = IF i < n THEN s[i] ELSE s[i + 1]

LEMMA ConcatElements ==
    ASSUME NEW s \in Seq(Events), NEW u \in Seq(Events)
    PROVE  /\ Len(s) \in Nat /\ Len(u) \in Nat /\ s \o u \in Seq(Events)
           /\ Len(s \o u) = Len(s) + Len(u)
           /\ \A i \in 1 .. Len(s) : (s \o u)[i] = s[i]
           /\ \A i \in 1 .. Len(u) : (s \o u)[Len(s) + i] = u[i]
<1>1. Len(s) \in Nat /\ Len(u) \in Nat
  BY LenProperties
<1>2. /\ s \o u \in Seq(Events) /\ Len(s \o u) = Len(s) + Len(u)
      /\ \A i \in 1 .. Len(s) + Len(u) : (s \o u)[i] = IF i <= Len(s) THEN s[i] ELSE u[i - Len(s)]
  BY ConcatProperties
<1> DEFINE t == s \o u
<1> HIDE DEF t
<1>3. \A i \in 1 .. Len(s) + Len(u) : t[i] = IF i <= Len(s) THEN s[i] ELSE u[i - Len(s)]
  BY <1>2 DEF t
<1>4. \A i \in 1 .. Len(s) : t[i] = s[i]
  BY <1>1, <1>3
<1>5. ASSUME NEW i \in 1 .. Len(u) PROVE t[Len(s) + i] = u[i]
  <2>1. Len(s) + i \in 1 .. Len(s) + Len(u) /\ ~ (Len(s) + i <= Len(s)) /\ (Len(s) + i) - Len(s) = i
    BY <1>1
  <2> QED BY <1>3, <2>1
<1> QED BY <1>1, <1>2, <1>4, <1>5 DEF t

LEMMA PrefixKeeps ==
    ASSUME NEW s \in Seq(Events), NEW u \in Seq(Events), NEW p \in Partitions, Ordered(s \o u, p)
    PROVE  Ordered(s, p) /\ Len(s) \in Nat /\ Len(s \o u) \in Nat /\ Len(s) <= Len(s \o u)
<1> DEFINE t == s \o u
<1>1. Len(s) \in Nat /\ Len(u) \in Nat /\ Len(t) = Len(s) + Len(u) /\ \A i \in 1 .. Len(s) : t[i] = s[i]
  BY ConcatElements
<1>2. Ordered(t, p)
  OBVIOUS
<1> HIDE DEF t
<1>3. Ordered(s, p)
  <2>1. \A i \in 1 .. Len(s) : i \in 1 .. Len(t) /\ t[i] = s[i]
    BY <1>1
  <2> QED BY <1>2, <2>1 DEF Ordered
<1>4. Len(t) \in Nat /\ Len(s) <= Len(t)
  BY <1>1
<1> QED BY <1>1, <1>3, <1>4 DEF t

\* Taking the first of u away from s \o u.
LEMMA ConcatTail ==
    ASSUME NEW s \in Seq(Events), NEW u \in Seq(Events), u # << >>
    PROVE  /\ Len(s) + 1 \in 1 .. Len(s \o u)
           /\ (s \o u)[Len(s) + 1] = Head(u)
           /\ Without(s \o u, s \o Tail(u), Len(s) + 1)
<1> DEFINE t == Tail(u)
           a == s \o u
           b == s \o t
           n == Len(s)
<1>1. /\ t \in Seq(Events) /\ Len(t) = Len(u) - 1 /\ Len(u) \in Nat /\ Len(u) > 0 /\ Head(u) = u[1]
      /\ \A i \in 1 .. Len(t) : t[i] = u[i + 1]
  BY HeadTailProperties, LenProperties, EmptySeq
<1> HIDE DEF t
<1>2. /\ n \in Nat /\ Len(a) = n + Len(u)
      /\ \A i \in 1 .. n : a[i] = s[i]
      /\ \A i \in 1 .. Len(u) : a[n + i] = u[i]
  BY ConcatElements
<1>3. /\ Len(b) = n + Len(t)
      /\ \A i \in 1 .. n : b[i] = s[i]
      /\ \A i \in 1 .. Len(t) : b[n + i] = t[i]
  BY <1>1, ConcatElements
<1> HIDE DEF a, b, n
<1>4. n + 1 \in 1 .. Len(a) /\ a[n + 1] = Head(u) /\ Len(b) = Len(a) - 1
  BY <1>1, <1>2, <1>3
<1>5. ASSUME NEW i \in 1 .. Len(b) PROVE b[i] = IF i < n + 1 THEN a[i] ELSE a[i + 1]
  <2>1. CASE i < n + 1
    BY <1>2, <1>3, <2>1
  <2>2. CASE ~ (i < n + 1)
    <3> DEFINE k == i - n
    <3>1. k \in 1 .. Len(t) /\ k + 1 \in 1 .. Len(u) /\ i = n + k /\ i + 1 = n + (k + 1)
      BY <1>1, <1>2, <1>3, <2>2
    <3> HIDE DEF k
    <3>2. b[n + k] = t[k] /\ t[k] = u[k + 1] /\ a[n + (k + 1)] = u[k + 1]
      BY <1>1, <1>2, <1>3, <3>1
    <3> QED BY <2>2, <3>1, <3>2
  <2> QED BY <2>1, <2>2
<1>6. Without(a, b, n + 1)
  BY <1>4, <1>5 DEF Without
<1> QED BY <1>4, <1>6 DEF a, b, n, t

LEMMA ConcatHead ==
    ASSUME NEW s \in Seq(Events), NEW u \in Seq(Events), u # << >>
    PROVE  Append(s, Head(u)) \o Tail(u) = s \o u
<1>1. Head(u) \in Events /\ Tail(u) \in Seq(Events) /\ <<Head(u)>> \in Seq(Events)
  BY HeadTailProperties
<1>2. Append(s, Head(u)) = s \o <<Head(u)>>
  BY <1>1, AppendIsConcat
<1>3. u = <<Head(u)>> \o Tail(u)
  BY HeadTailCons
<1>4. (s \o <<Head(u)>>) \o Tail(u) = s \o (<<Head(u)>> \o Tail(u))
  BY <1>1, ConcatAssociative
<1> QED BY <1>2, <1>3, <1>4

LEMMA WithoutKeeps ==
    ASSUME NEW s \in Seq(Events), NEW t \in Seq(Events), NEW n \in 1 .. Len(s), Without(s, t, n),
           NEW p \in Partitions, clock \in Nat
    PROVE  /\ Ordered(s, p) => Ordered(t, p)
           /\ \A e \in Events : e.order # s[n].order /\ LastIn(s, e) => LastIn(t, e)
<1>1. Len(s) \in Nat /\ Len(t) \in Nat
  BY LenProperties
<1>2. ASSUME Ordered(s, p) PROVE Ordered(t, p)
  <2> DEFINE at(i) == IF i < n THEN i ELSE i + 1
  <2>1. \A i \in 1 .. Len(t) : at(i) \in 1 .. Len(s) /\ t[i] = s[at(i)]
    BY <1>1 DEF Without
  <2>2. \A i, j \in 1 .. Len(t) : i <= j => at(i) <= at(j)
    BY <1>1
  <2> HIDE DEF at
  <2>3. \A i \in 1 .. Len(t) : PartitionOf[t[i].order] = p /\ t[i].ts <= clock
    BY <1>2, <2>1 DEF Ordered
  <2>4. \A i, j \in 1 .. Len(t) : i <= j => t[i].ts <= t[j].ts
    BY <1>2, <2>1, <2>2 DEF Ordered
  <2> QED BY <2>3, <2>4 DEF Ordered
<1>3. ASSUME NEW e \in Events, e.order # s[n].order, LastIn(s, e) PROVE LastIn(t, e)
  <2>1. PICK k \in 1 .. Len(s) : s[k] = e /\ \A l \in 1 .. Len(s) : l > k => s[l].order # e.order
    BY <1>3 DEF LastIn
  <2>2. k # n
    BY <1>3, <2>1
  <2> DEFINE m == IF k < n THEN k ELSE k - 1
  <2>3. m \in 1 .. Len(t) /\ t[m] = e
    BY <1>1, <2>1, <2>2 DEF Without
  <2>4. ASSUME NEW l \in 1 .. Len(t), l > m PROVE t[l].order # e.order
    <3> DEFINE j == IF l < n THEN l ELSE l + 1
    <3>1. j \in 1 .. Len(s) /\ t[l] = s[j]
      BY <1>1 DEF Without
    <3>2. j > k
      BY <1>1, <2>2, <2>4
    <3> HIDE DEF j
    <3> QED BY <2>1, <3>1, <3>2
  <2> QED BY <2>3, <2>4 DEF LastIn
<1> QED BY <1>2, <1>3

\* Adding an event at the end.
LEMMA AppendKeeps ==
    ASSUME NEW s \in Seq(Events), NEW e \in Events, NEW p \in Partitions, clock \in Nat
    PROVE  /\ Append(s, e) \in Seq(Events) /\ Len(Append(s, e)) = Len(s) + 1
           /\ Ordered(s, p) /\ PartitionOf[e.order] = p /\ e.ts = clock => Ordered(Append(s, e), p)
           /\ LastIn(Append(s, e), e)
           /\ \A d \in Events : d.order # e.order /\ LastIn(s, d) => LastIn(Append(s, e), d)
<1> DEFINE t == Append(s, e)
<1>1. /\ t \in Seq(Events) /\ Len(t) = Len(s) + 1 /\ Len(s) \in Nat
      /\ \A i \in 1 .. Len(s) : t[i] = s[i] /\ t[Len(s) + 1] = e
  BY LenProperties
<1>2. t[Len(t)] = e
  BY <1>1
<1> HIDE DEF t
<1>3. ASSUME Ordered(s, p), PartitionOf[e.order] = p, e.ts = clock PROVE Ordered(t, p)
  <2>1. \A i \in 1 .. Len(t) : PartitionOf[t[i].order] = p /\ t[i].ts <= clock
    BY <1>1, <1>2, <1>3 DEF Ordered
  <2>2. \A i, j \in 1 .. Len(t) : i <= j => t[i].ts <= t[j].ts
    BY <1>1, <1>2, <1>3, <2>1 DEF Ordered
  <2> QED BY <2>1, <2>2 DEF Ordered
<1>4. LastIn(t, e)
  BY <1>1, <1>2 DEF LastIn
<1>5. ASSUME NEW d \in Events, d.order # e.order, LastIn(s, d) PROVE LastIn(t, d)
  <2>1. PICK k \in 1 .. Len(s) : s[k] = d /\ \A l \in 1 .. Len(s) : l > k => s[l].order # d.order
    BY <1>5 DEF LastIn
  <2>2. k \in 1 .. Len(t) /\ t[k] = d
    BY <1>1, <2>1
  <2>3. \A l \in 1 .. Len(t) : l > k => t[l].order # d.order
    BY <1>1, <1>2, <1>5, <2>1
  <2> QED BY <2>2, <2>3 DEF LastIn
<1> QED BY <1>1, <1>3, <1>4, <1>5 DEF t

-----------------------------------------------------------------------------
(* Steps.                                                                   *)

LEMMA ProducerStarts == Init => ProducerInv
<1> SUFFICES ASSUME Init PROVE ProducerInv
  OBVIOUS
<1>1. TypesOK
  BY ProducerAssumption DEF Init, TypesOK
<1>2. SeenOK /\ MemoryOK
  BY DEF Init, SeenOK, MemoryOK
<1>3. \A p \in Partitions : Len(Sents[p]) = 0
  BY <1>1, SentElements DEF Init
<1>4. runs * Total + sent = 0
  BY ProducerAssumption DEF Init
<1>5. SentOK
  BY <1>3, <1>4 DEF SentOK, Ordered
<1> QED BY <1>1, <1>2, <1>5 DEF ProducerInv

\* What Produce does: one sequence grows by the event.
LEMMA Produced ==
    ASSUME ProducerInv, NEW e \in Events, e.ts = clock, Produce(e), sent < Total,
           UNCHANGED <<clock, topic, runs>>
    PROVE  /\ queue' \in [Partitions -> Seq(Events)] /\ sent' \in 0 .. Total /\ sent' = sent + 1
           /\ \A p \in Partitions :
                 Sents'[p] = IF p = PartitionOf[e.order] THEN Append(Sents[p], e) ELSE Sents[p]
           /\ SentOK'
           /\ \A d \in Events : LastIn(Sents[PartitionOf[d.order]], d) /\ d.order # e.order
                                => LastIn(Sents'[PartitionOf[d.order]], d)
           /\ LastIn(Sents'[PartitionOf[e.order]], e)
<1> DEFINE q == PartitionOf[e.order]
<1>1. q \in Partitions /\ clock \in Nat /\ sent \in Nat /\ runs * Total \in Nat
  BY EventTypes, ProducerAssumption DEF ProducerInv, TypesOK
<1>2. /\ queue' = [queue EXCEPT ![q] = Append(@, e)] /\ queue \in [Partitions -> Seq(Events)]
      /\ sent' = sent + 1
  BY DEF Produce, ProducerInv, TypesOK
<1> HIDE DEF q
<1>3. queue' \in [Partitions -> Seq(Events)] /\ sent' \in 0 .. Total
  BY <1>1, <1>2, ProducerAssumption
<1>4. ASSUME NEW p \in Partitions
      PROVE  Sents'[p] = IF p = q THEN Append(Sents[p], e) ELSE Sents[p]
  <2>1. topic[p] \in Seq(Events) /\ queue[p] \in Seq(Events)
    BY SentElements DEF ProducerInv
  <2>2. CASE p # q
    BY <1>2, <2>2 DEF Sents, Sent
  <2>3. CASE p = q
    <3>1. queue'[p] = Append(queue[p], e)
      BY <1>2, <2>3
    <3>2. topic[p] \o Append(queue[p], e) = Append(topic[p] \o queue[p], e)
      BY <2>1, AppendAfter
    <3> QED BY <2>3, <3>1, <3>2 DEF Sents, Sent
  <2> QED BY <2>2, <2>3
<1>5. ASSUME NEW p \in Partitions
      PROVE  Ordered(Sents[p], p)' /\ Len(Sents'[p]) <= runs * Total + sent'
  <2>1. Sents[p] \in Seq(Events) /\ Len(Sents[p]) \in Nat
    BY SentElements, LenProperties DEF ProducerInv
  <2>2. Ordered(Sents[p], p) /\ Len(Sents[p]) <= runs * Total + sent
    BY DEF ProducerInv, SentOK
  <2>3. /\ p = q => Ordered(Append(Sents[p], e), p)
        /\ Len(Append(Sents[p], e)) = Len(Sents[p]) + 1
    BY <1>1, <2>1, <2>2, AppendKeeps DEF q
  <2>4. Ordered(Sents'[p], p)
    BY <1>4, <2>2, <2>3
  <2>5. Ordered(Sents[p], p)'
    BY <2>4 DEF Ordered
  <2>6. Len(Sents'[p]) <= Len(Sents[p]) + 1 /\ Len(Sents'[p]) \in Nat
    <3>1. CASE p = q
      <4>1. Len(Sents'[p]) = Len(Sents[p]) + 1
        BY <1>4, <2>3, <3>1
      <4> QED BY <2>1, <4>1
    <3>2. CASE p # q
      <4>1. Sents'[p] = Sents[p]
        BY <1>4, <3>2
      <4> QED BY <2>1, <4>1
    <3> QED BY <3>1, <3>2
  <2>7. Len(Sents'[p]) <= runs * Total + sent'
    <3> DEFINE a == runs * Total
    <3>1. a \in Nat /\ sent \in Nat /\ Len(Sents[p]) <= a + sent /\ sent' = sent + 1
      BY <1>1, <1>2, <2>2
    <3> HIDE DEF a
    <3>2. Len(Sents'[p]) <= a + sent'
      BY <2>1, <2>6, <3>1
    <3> QED BY <3>2 DEF a
  <2> QED BY <2>5, <2>7
<1>6. SentOK'
  BY <1>5 DEF SentOK
<1>7. ASSUME NEW d \in Events, d.order # e.order, LastIn(Sents[PartitionOf[d.order]], d)
      PROVE  LastIn(Sents'[PartitionOf[d.order]], d)
  <2>1. PartitionOf[d.order] \in Partitions
    BY EventTypes
  <2>2. Sents[PartitionOf[d.order]] \in Seq(Events)
    BY <2>1, SentElements DEF ProducerInv
  <2>3. LastIn(Append(Sents[PartitionOf[d.order]], e), d)
    BY <1>1, <1>7, <2>1, <2>2, AppendKeeps
  <2> QED BY <1>4, <1>7, <2>1, <2>3
<1>8. LastIn(Sents'[q], e)
  <2>1. Sents[q] \in Seq(Events)
    BY <1>1, SentElements DEF ProducerInv
  <2> QED BY <1>1, <1>4, <2>1, AppendKeeps
<1> QED BY <1>2, <1>3, <1>4, <1>6, <1>7, <1>8 DEF q

\* make_new_order: the forgotten order is the oldest, the others keep their place.
LEMMA NewOrderStep == ASSUME ProducerInv, NewOrder PROVE ProducerInv'
<1> DEFINE e == [order |-> nextId, status |-> "PLACED", ts |-> clock, op |-> "i"]
           all == Append(seen, e)
<1>1. /\ phase = "running" /\ sent < Total /\ Produce(e)
      /\ nextId' = nextId + 1
      /\ seen' = IF Len(all) > MaxSeen THEN Tail(all) ELSE all
      /\ UNCHANGED <<clock, phase, topic, runs, dropped>>
  BY DEF NewOrder, Producing
<1>2. e \in Events /\ e.ts = clock /\ e.order = nextId
  BY <1>1, ProducerAssumption DEF ProducerInv, TypesOK, Events, Orders, Statuses
<1> HIDE DEF e
<1>3. /\ seen \in Seq(Events) /\ Len(seen) \in Nat /\ nextId \in Nat
      /\ all \in Seq(Events) /\ Len(all) = Len(seen) + 1 /\ all # << >>
      /\ \A i \in 1 .. Len(all) : all[i] = IF i <= Len(seen) THEN seen[i] ELSE e
  BY <1>2, ProducerAssumption, LenProperties, AppendProperties DEF ProducerInv, TypesOK
<1> HIDE DEF all
<1>4. PICK b \in {0, 1} :
         /\ seen' \in Seq(Events) /\ Len(seen') = Len(all) - b
         /\ \A i \in 1 .. Len(seen') : seen'[i] = all[i + b]
  <2>1. CASE Len(all) > MaxSeen
    BY <1>1, <1>3, <2>1, HeadTailProperties
  <2>2. CASE ~ (Len(all) > MaxSeen)
    BY <1>1, <1>3, <2>2
  <2> QED BY <2>1, <2>2
<1>5. \A i \in 1 .. Len(seen') : i + b \in 1 .. Len(all)
  BY <1>3, <1>4
<1>6. TypesOK'
  BY <1>1, <1>2, <1>3, <1>4, Produced DEF ProducerInv, TypesOK
<1>7. SeenOK'
  <2>1. /\ \A i \in 1 .. Len(all) : all[i].order < nextId + 1
        /\ \A i, j \in 1 .. Len(all) : all[i].order = all[j].order => i = j
    <3>1. \A i \in 1 .. Len(seen) : seen[i].order < nextId /\ seen[i].order \in Nat
      BY <1>3, EventTypes DEF ProducerInv, SeenOK
    <3>2. \A i, j \in 1 .. Len(seen) : seen[i].order = seen[j].order => i = j
      BY DEF ProducerInv, SeenOK
    <3>3. \A i \in 1 .. Len(all) : \/ i \in 1 .. Len(seen) /\ all[i] = seen[i]
                                   \/ i = Len(seen) + 1 /\ all[i].order = nextId
      BY <1>2, <1>3
    <3>4. \A i \in 1 .. Len(all) : all[i].order < nextId + 1
      BY <1>3, <3>1, <3>3
    <3>5. \A i, j \in 1 .. Len(all) : all[i].order = all[j].order => i = j
      BY <1>3, <3>1, <3>2, <3>3
    <3> QED BY <3>4, <3>5
  <2>2. \A i \in 1 .. Len(seen') : seen'[i].order < nextId'
    <3> SUFFICES ASSUME NEW i \in 1 .. Len(seen') PROVE seen'[i].order < nextId'
      OBVIOUS
    <3>1. seen'[i] = all[i + b] /\ i + b \in 1 .. Len(all)
      BY <1>4, <1>5
    <3> QED BY <1>1, <2>1, <3>1
  <2>3. ASSUME NEW i \in 1 .. Len(seen'), NEW j \in 1 .. Len(seen'), seen'[i].order = seen'[j].order
        PROVE  i = j
    <3>1. /\ seen'[i] = all[i + b] /\ i + b \in 1 .. Len(all)
          /\ seen'[j] = all[j + b] /\ j + b \in 1 .. Len(all)
      BY <1>4, <1>5
    <3>2. i + b = j + b
      BY <2>1, <2>3, <3>1
    <3>3. i \in Int /\ j \in Int /\ b \in Int
      OBVIOUS
    <3> QED BY <3>2, <3>3
  <2> QED BY <2>2, <2>3 DEF SeenOK
<1>8. MemoryOK'
  <2> SUFFICES ASSUME NEW i \in 1 .. Len(seen'), seen'[i].order \notin dropped'
               PROVE  LastIn(Sents'[PartitionOf[seen'[i].order]], seen'[i])
    BY <1>1 DEF MemoryOK
  <2>1. CASE i + b <= Len(seen)
    <3>1. i + b \in 1 .. Len(seen) /\ seen'[i] = seen[i + b]
      BY <1>3, <1>4, <1>5, <2>1
    <3>2. seen[i + b] \in Events /\ seen[i + b].order # e.order
      BY <1>2, <1>3, <3>1, EventTypes DEF ProducerInv, SeenOK
    <3>3. LastIn(Sents[PartitionOf[seen[i + b].order]], seen[i + b])
      BY <1>1, <3>1 DEF ProducerInv, MemoryOK
    <3> QED BY <1>1, <1>2, <3>1, <3>2, <3>3, Produced
  <2>2. CASE ~ (i + b <= Len(seen))
    <3>1. seen'[i] = e
      BY <1>3, <1>4, <1>5, <2>2
    <3> QED BY <1>1, <1>2, <3>1, Produced
  <2> QED BY <2>1, <2>2
<1> QED BY <1>1, <1>2, <1>6, <1>7, <1>8, Produced DEF ProducerInv

LEMMA StatusAdvances == \A s : NextStatus(s) \in Statuses
<1> SUFFICES ASSUME NEW s PROVE NextStatus(s) \in Statuses
  OBVIOUS
<1> DEFINE idx == IF \E i \in DOMAIN STATUSES : STATUSES[i] = s
                  THEN CHOOSE i \in DOMAIN STATUSES : STATUSES[i] = s
                  ELSE 1
<1>1. DOMAIN STATUSES = 1 .. 4 /\ Len(STATUSES) = 4
  BY DEF STATUSES
<1>2. idx \in 1 .. 4
  BY <1>1
<1>3. NextStatus(s) = STATUSES[Min({idx + 1, 4})]
  BY <1>1 DEF NextStatus
<1> HIDE DEF idx
<1>4. Min({idx + 1, 4}) \in 1 .. 4
  BY <1>2 DEF Min
<1>5. \A i \in 1 .. 4 : STATUSES[i] \in Statuses
  BY DEF STATUSES, Statuses
<1> QED BY <1>3, <1>4, <1>5

LEMMA UpdateTypes ==
    ASSUME TypesOK, NEW d \in Events, NEW e \in Updated(d)
    PROVE  e \in Events /\ e.order = d.order /\ e.ts = clock
<1>1. d = [order |-> d.order, status |-> d.status, ts |-> d.ts, op |-> d.op] /\ d.order \in Orders
  BY DEF Events
<1>2. /\ e.order = d.order /\ e.ts = clock /\ e.op \in {"u", "d"}
      /\ e.status = "CANCELLED" \/ e.status = NextStatus(d.status)
      /\ e = [order |-> e.order, status |-> e.status, ts |-> e.ts, op |-> e.op]
  BY <1>1 DEF Updated
<1>3. e.status \in Statuses
  BY <1>2, StatusAdvances DEF Statuses
<1> QED BY <1>1, <1>2, <1>3 DEF Events, TypesOK

\* update_existing and victim.update: the copy in memory is the event that was sent.
LEMMA UpdateOrderStep == ASSUME ProducerInv, UpdateOrder PROVE ProducerInv'
<1>0. PICK n \in DOMAIN seen : \E e \in Updated(seen[n]) : Produce(e) /\ seen' = [seen EXCEPT ![n] = e]
  BY DEF UpdateOrder
<1>1. PICK e \in Updated(seen[n]) : Produce(e) /\ seen' = [seen EXCEPT ![n] = e]
  BY <1>0
<1>2. phase = "running" /\ sent < Total /\ UNCHANGED <<clock, phase, nextId, topic, runs, dropped>>
  BY DEF UpdateOrder, Producing
<1>3. /\ seen \in Seq(Events) /\ n \in 1 .. Len(seen) /\ seen[n] \in Events
      /\ \A i \in 1 .. Len(seen) : seen[i] \in Events
  BY <1>1, LenProperties, ElementOfSeq DEF ProducerInv, TypesOK
<1>4. e \in Events /\ e.order = seen[n].order /\ e.ts = clock
  BY <1>1, <1>3, UpdateTypes DEF ProducerInv
<1>5. /\ seen' \in Seq(Events) /\ Len(seen') = Len(seen)
      /\ \A i \in 1 .. Len(seen) : seen'[i] = IF i = n THEN e ELSE seen[i]
  BY <1>1, <1>3, <1>4, ExceptSeq
<1>6. TypesOK'
  <2>1. queue' \in [Partitions -> Seq(Events)] /\ sent' \in 0 .. Total /\ sent' = sent + 1
    BY <1>2, <1>4, <1>1, Produced
  <2> QED BY <1>2, <1>5, <2>1 DEF ProducerInv, TypesOK
<1>7. SeenOK'
  BY <1>2, <1>4, <1>5 DEF ProducerInv, SeenOK
<1>8. MemoryOK'
  <2> SUFFICES ASSUME NEW i \in 1 .. Len(seen), seen'[i].order \notin dropped'
               PROVE  LastIn(Sents'[PartitionOf[seen'[i].order]], seen'[i])
    BY <1>2, <1>5 DEF MemoryOK
  <2>1. CASE i = n
    BY <1>1, <1>2, <1>4, <1>5, <2>1, Produced
  <2>2. CASE i # n
    <3>1. seen'[i] = seen[i] /\ seen[i] \in Events /\ seen[i].order # e.order
      BY <1>3, <1>4, <1>5, <2>2 DEF ProducerInv, SeenOK
    <3>2. LastIn(Sents[PartitionOf[seen[i].order]], seen[i])
      BY <1>2, <3>1 DEF ProducerInv, MemoryOK
    <3> QED BY <1>1, <1>2, <1>4, <3>1, <3>2, Produced
  <2> QED BY <2>1, <2>2
<1> QED BY <1>1, <1>2, <1>4, <1>6, <1>7, <1>8, Produced DEF ProducerInv

\* Steps that change none of what was sent.
LEMMA Untouched ==
    ASSUME ProducerInv, UNCHANGED <<sent, nextId, seen, queue, topic, runs, dropped>>,
           clock' \in 0 .. MaxClock, clock <= clock',
           phase' \in {"running", "flushing", "exited"}, phase' # "exited" => phase # "exited"
    PROVE  ProducerInv'
<1>1. TypesOK' /\ SeenOK' /\ Sents' = Sents
  BY DEF ProducerInv, TypesOK, SeenOK, Sents, Sent
<1>2. SentOK'
  <2> SUFFICES ASSUME NEW p \in Partitions
               PROVE  (Ordered(Sents[p], p) /\ Len(Sents[p]) <= runs * Total + sent)'
    BY DEF SentOK
  <2>1. Ordered(Sents[p], p) /\ Len(Sents[p]) <= runs * Total + sent
    BY DEF ProducerInv, SentOK
  <2>2. Sents[p] \in Seq(Events) /\ clock \in Nat /\ clock' \in Nat
    BY SentElements, ProducerAssumption DEF ProducerInv, TypesOK
  <2>3. \A i \in 1 .. Len(Sents[p]) : Sents[p][i].ts \in Nat
    BY <2>2, EventTypes, ElementOfSeq
  <2>4. \A i \in 1 .. Len(Sents[p]) : Sents[p][i].ts <= clock'
    BY <2>1, <2>2, <2>3 DEF Ordered
  <2> QED BY <1>1, <2>1, <2>4 DEF Ordered
<1>3. MemoryOK'
  BY <1>1 DEF ProducerInv, MemoryOK
<1> QED BY <1>1, <1>2, <1>3 DEF ProducerInv

\* The end of the process: the queue is lost, what was delivered stays.
LEMMA AbandonStep ==
    ASSUME ProducerInv, Abandon, UNCHANGED <<clock, sent, nextId, seen, topic, runs>>
    PROVE  ProducerInv'
<1>1. phase' = "exited" /\ queue' = [p \in Partitions |-> << >>]
  BY DEF Abandon
<1>2. TypesOK' /\ SeenOK' /\ MemoryOK'
  BY <1>1 DEF ProducerInv, TypesOK, SeenOK, MemoryOK
<1>3. SentOK'
  <2> SUFFICES ASSUME NEW p \in Partitions
               PROVE  (Ordered(Sents[p], p) /\ Len(Sents[p]) <= runs * Total + sent)'
    BY DEF SentOK
  <2>1. Ordered(Sents[p], p) /\ Len(Sents[p]) <= runs * Total + sent
    BY DEF ProducerInv, SentOK
  <2>2. /\ topic[p] \in Seq(Events) /\ Ordered(topic[p], p)
        /\ Len(topic[p]) \in Nat /\ Len(Sents[p]) \in Nat /\ Len(topic[p]) <= Len(Sents[p])
        /\ runs * Total + sent \in Nat
    <3>1. runs * Total + sent \in Nat
      BY CountTypes DEF ProducerInv
    <3>2. topic[p] \in Seq(Events) /\ queue[p] \in Seq(Events) /\ Sents[p] = topic[p] \o queue[p]
      BY SentElements DEF ProducerInv
    <3>3. Ordered(topic[p] \o queue[p], p)
      BY <2>1, <3>2
    <3> QED BY <3>1, <3>2, <3>3, PrefixKeeps
  <2>3. Sents'[p] = topic[p]
    <3>1. topic'[p] \o queue'[p] = topic[p]
      BY <1>1, <2>2, ConcatEmptySeq
    <3> QED BY <3>1 DEF Sents, Sent
  <2>4. Len(topic[p]) <= runs * Total + sent
    BY <2>1, <2>2
  <2> QED BY <2>2, <2>3, <2>4 DEF Ordered
<1> QED BY <1>2, <1>3 DEF ProducerInv

\* A new run has produced nothing yet; the events of the earlier runs stay in the topic.
LEMMA RunAgainStep == ASSUME ProducerInv, RunAgain PROVE ProducerInv'
<1>1. /\ runs < MaxRuns /\ runs' = runs + 1 /\ phase' = "running" /\ sent' = 0 /\ nextId' = 1
      /\ seen' = << >> /\ dropped' = {} /\ UNCHANGED <<clock, queue, topic>>
  BY DEF RunAgain
<1>2. TypesOK'
  BY <1>1, ProducerAssumption DEF ProducerInv, TypesOK
<1>3. SeenOK' /\ MemoryOK'
  BY <1>1 DEF SeenOK, MemoryOK
<1>4. SentOK'
  <2>1. Sents' = Sents
    BY <1>1 DEF Sents, Sent
  <2>2. runs \in Nat /\ Total \in Nat /\ sent \in 0 .. Total
    BY ProducerAssumption DEF ProducerInv, TypesOK
  <2>3. (runs + 1) * Total = runs * Total + Total /\ runs * Total \in Nat
    BY <2>2
  <2>4. \A p \in Partitions : Len(Sents[p]) \in Nat
    BY SentElements DEF ProducerInv
  <2>5. runs' * Total + sent' = runs * Total + Total
    BY <1>1, <2>2, <2>3
  <2>6. \A p \in Partitions : Len(Sents[p]) <= runs * Total + Total
    BY <2>2, <2>3, <2>4 DEF ProducerInv, SentOK
  <2> QED BY <1>1, <2>1, <2>5, <2>6 DEF ProducerInv, SentOK, Ordered
<1> QED BY <1>2, <1>3, <1>4 DEF ProducerInv

\* A delivery moves an event from the queue to the topic.
LEMMA DeliverStep == ASSUME ProducerInv, NEW q \in Partitions, Deliver(q) PROVE ProducerInv'
<1>1. /\ queue[q] # << >>
      /\ topic' = [topic EXCEPT ![q] = Append(@, Head(queue[q]))]
      /\ queue' = [queue EXCEPT ![q] = Tail(@)]
      /\ UNCHANGED <<clock, phase, sent, nextId, seen, runs, dropped>>
  BY DEF Deliver
<1>2. /\ topic \in [Partitions -> Seq(Events)] /\ topic[q] \in Seq(Events)
      /\ queue \in [Partitions -> Seq(Events)] /\ queue[q] \in Seq(Events)
  BY DEF ProducerInv, TypesOK
<1>3. Head(queue[q]) \in Events /\ Tail(queue[q]) \in Seq(Events)
  BY <1>1, <1>2, HeadTailProperties
<1>4. TypesOK' /\ SeenOK'
  <2>1. Append(topic[q], Head(queue[q])) \in Seq(Events)
    BY <1>2, <1>3, AppendProperties
  <2>2. topic' \in [Partitions -> Seq(Events)] /\ queue' \in [Partitions -> Seq(Events)]
    BY <1>1, <1>2, <1>3, <2>1
  <2> QED BY <1>1, <2>2 DEF ProducerInv, TypesOK, SeenOK
<1>5. Sents' = Sents
  <2>1. ASSUME NEW p \in Partitions PROVE Sent(p)' = Sent(p)
    <3>1. CASE p # q
      BY <1>1, <1>2, <3>1 DEF Sent
    <3>2. CASE p = q
      <4>1. Append(topic[q], Head(queue[q])) \o Tail(queue[q]) = topic[q] \o queue[q]
        BY <1>1, <1>2, ConcatHead
      <4>2. topic'[q] = Append(topic[q], Head(queue[q])) /\ queue'[q] = Tail(queue[q])
        BY <1>1, <1>2
      <4> QED BY <3>2, <4>1, <4>2 DEF Sent
    <3> QED BY <3>1, <3>2
  <2> QED BY <2>1 DEF Sents
<1>6. SentOK' /\ MemoryOK'
  BY <1>1, <1>5 DEF ProducerInv, SentOK, MemoryOK, Ordered
<1> QED BY <1>4, <1>6 DEF ProducerInv

\* An event that is given up on: the others keep their order.
LEMMA GiveUpStep == ASSUME ProducerInv, NEW q \in Partitions, GiveUp(q) PROVE ProducerInv'
<1>1. /\ queue[q] # << >> /\ queue' = [queue EXCEPT ![q] = Tail(@)]
      /\ dropped' = dropped \cup {Head(queue[q]).order}
      /\ UNCHANGED <<clock, phase, sent, nextId, seen, topic, runs>>
  BY DEF GiveUp
<1>2. /\ queue \in [Partitions -> Seq(Events)] /\ topic[q] \in Seq(Events) /\ queue[q] \in Seq(Events)
      /\ clock \in Nat
  BY ProducerAssumption DEF ProducerInv, TypesOK
<1>3. /\ Head(queue[q]) = queue[q][1] /\ Tail(queue[q]) \in Seq(Events)
      /\ Len(queue[q]) \in Nat /\ Len(queue[q]) > 0
      /\ Len(Tail(queue[q])) = Len(queue[q]) - 1
      /\ \A i \in 1 .. Len(Tail(queue[q])) : Tail(queue[q])[i] = queue[q][i + 1]
  BY <1>1, <1>2, HeadTailProperties, EmptySeq, LenProperties
<1>4. TypesOK' /\ SeenOK'
  <2>1. queue' \in [Partitions -> Seq(Events)]
    BY <1>1, <1>2, <1>3
  <2> QED BY <1>1, <2>1 DEF ProducerInv, TypesOK, SeenOK
<1> DEFINE n == Len(topic[q]) + 1
<1>5. /\ Sents[q] \in Seq(Events) /\ Sents'[q] \in Seq(Events) /\ n \in 1 .. Len(Sents[q])
      /\ Sents[q][n] = Head(queue[q])
      /\ Without(Sents[q], Sents'[q], n)
      /\ Len(Sents[q]) \in Nat /\ Len(Sents'[q]) = Len(Sents[q]) - 1
  <2>1. Sents[q] = topic[q] \o queue[q] /\ Sents'[q] = topic[q] \o Tail(queue[q])
    BY <1>1, <1>2 DEF Sents, Sent
  <2>2. topic[q] \o queue[q] \in Seq(Events) /\ topic[q] \o Tail(queue[q]) \in Seq(Events)
    BY <1>2, <1>3, ConcatProperties
  <2>3. /\ n \in 1 .. Len(Sents[q]) /\ Sents[q][n] = Head(queue[q])
        /\ Without(Sents[q], Sents'[q], n)
    BY <1>1, <1>2, <2>1, ConcatTail
  <2>4. Len(Sents[q]) \in Nat /\ Len(Sents'[q]) = Len(Sents[q]) - 1
    BY <2>1, <2>2, <2>3, LenProperties DEF Without
  <2> QED BY <2>1, <2>2, <2>3, <2>4
<1> HIDE DEF n
<1>6. \A p \in Partitions : p # q => Sents'[p] = Sents[p]
  BY <1>1, <1>2 DEF Sents, Sent
<1> DEFINE lost == Head(queue[q]).order
<1>7. /\ Ordered(Sents[q], q) => Ordered(Sents'[q], q)
      /\ \A e \in Events : e.order # lost /\ LastIn(Sents[q], e) => LastIn(Sents'[q], e)
  BY <1>2, <1>5, WithoutKeeps
<1> HIDE DEF lost
<1>8. SentOK'
  <2> SUFFICES ASSUME NEW p \in Partitions
               PROVE  (Ordered(Sents[p], p) /\ Len(Sents[p]) <= runs * Total + sent)'
    BY DEF SentOK
  <2>1. Ordered(Sents[p], p) /\ Len(Sents[p]) <= runs * Total + sent
    BY DEF ProducerInv, SentOK
  <2>2. CASE p # q
    BY <1>1, <1>6, <2>1, <2>2 DEF Ordered
  <2>3. CASE p = q
    <3>1. Ordered(Sents'[p], p)
      BY <1>7, <2>1, <2>3
    <3>2. runs * Total + sent \in Nat
      BY CountTypes DEF ProducerInv
    <3>3. Len(Sents'[p]) <= runs * Total + sent
      BY <1>5, <2>1, <2>3, <3>2
    <3> QED BY <1>1, <3>1, <3>3 DEF Ordered
  <2> QED BY <2>2, <2>3
<1>9. MemoryOK'
  <2> SUFFICES ASSUME phase # "exited", NEW i \in 1 .. Len(seen), seen[i].order \notin dropped'
               PROVE  LastIn(Sents'[PartitionOf[seen[i].order]], seen[i])
    BY <1>1 DEF MemoryOK
  <2>1. seen[i] \in Events /\ seen[i].order # lost /\ seen[i].order \notin dropped
    BY <1>1, ElementOfSeq DEF ProducerInv, TypesOK, lost
  <2>2. LastIn(Sents[PartitionOf[seen[i].order]], seen[i])
    BY <2>1 DEF ProducerInv, MemoryOK
  <2>3. PartitionOf[seen[i].order] \in Partitions
    BY <2>1, EventTypes
  <2>4. CASE PartitionOf[seen[i].order] # q
    BY <1>6, <2>2, <2>3, <2>4
  <2>5. CASE PartitionOf[seen[i].order] = q
    BY <1>7, <2>1, <2>2, <2>5
  <2> QED BY <2>4, <2>5
<1> QED BY <1>4, <1>8, <1>9 DEF ProducerInv

LEMMA ProducerStep == ProducerInv /\ [Next]_vars => ProducerInv'
<1> SUFFICES ASSUME ProducerInv, [Next]_vars PROVE ProducerInv'
  OBVIOUS
<1>1. clock \in 0 .. MaxClock /\ phase \in {"running", "flushing", "exited"} /\ MaxClock \in Nat
  BY ProducerAssumption DEF ProducerInv, TypesOK
<1>2. CASE NewOrder \/ UpdateOrder
  BY <1>2, NewOrderStep, UpdateOrderStep
<1>3. CASE LeaveLoop
  BY <1>1, <1>3, Untouched DEF LeaveLoop
<1>4. CASE QueueOverflows \/ Flushed
  BY <1>4, AbandonStep DEF QueueOverflows, Flushed
<1>5. CASE RunAgain
  BY <1>5, RunAgainStep
<1>6. CASE Tick
  BY <1>1, <1>6, Untouched DEF Tick
<1>7. CASE \E p \in Partitions : GiveUp(p) \/ Deliver(p)
  BY <1>7, GiveUpStep, DeliverStep
<1>8. CASE UNCHANGED vars
  BY <1>1, <1>8, Untouched DEF vars, producerVars
<1> QED BY <1>2, <1>3, <1>4, <1>5, <1>6, <1>7, <1>8 DEF Next, Quiet, Main, Loop

-----------------------------------------------------------------------------
(* The limits of the memory and of the client's queue.                      *)

\* Each event of a client's queue, by its partition and its place.
Waiting(q) == UNION {{p} \X DOMAIN q[p] : p \in Partitions}

LimitsOK ==
    /\ Len(seen) <= MaxSeen
    /\ dropped \subseteq Orders
    /\ IsFiniteSet(Waiting(queue)) /\ Queued <= QueueLimit

LEMMA WaitingElement ==
    ASSUME NEW q \in [Partitions -> Seq(Events)], NEW w
    PROVE  w \in Waiting(q) <=> \E p \in Partitions : \E i \in 1 .. Len(q[p]) : w = <<p, i>>
<1>1. \A p \in Partitions : DOMAIN q[p] = 1 .. Len(q[p])
  <2> SUFFICES ASSUME NEW p \in Partitions PROVE DOMAIN q[p] = 1 .. Len(q[p])
    OBVIOUS
  <2>1. q[p] \in Seq(Events)
    OBVIOUS
  <2> QED BY <2>1, LenProperties
<1>2. w \in Waiting(q) <=> \E p \in Partitions : w \in {p} \X DOMAIN q[p]
  BY DEF Waiting
<1>3. \A p \in Partitions : w \in {p} \X DOMAIN q[p] <=> \E i \in 1 .. Len(q[p]) : w = <<p, i>>
  BY <1>1
<1> QED BY <1>2, <1>3

\* A queue that gets one event.
LEMMA OneMoreWaits ==
    ASSUME NEW q \in [Partitions -> Seq(Events)], NEW r \in [Partitions -> Seq(Events)],
           NEW p \in Partitions, Len(r[p]) = Len(q[p]) + 1,
           \A o \in Partitions : o # p => r[o] = q[o], IsFiniteSet(Waiting(q))
    PROVE  IsFiniteSet(Waiting(r)) /\ Cardinality(Waiting(r)) <= Cardinality(Waiting(q)) + 1
<1> DEFINE x == <<p, Len(q[p]) + 1>>
<1>1. Len(q[p]) \in Nat
  <2>1. q[p] \in Seq(Events)
    OBVIOUS
  <2> QED BY <2>1, LenProperties
<1>2. ASSUME NEW w PROVE w \in Waiting(r) => w \in Waiting(q) \cup {x}
  <2> SUFFICES ASSUME w \in Waiting(r) PROVE w \in Waiting(q) \/ w = x
    OBVIOUS
  <2>0. PICK o \in Partitions : \E i \in 1 .. Len(r[o]) : w = <<o, i>>
    BY WaitingElement
  <2>1. PICK i \in 1 .. Len(r[o]) : w = <<o, i>>
    BY <2>0
  <2>2. CASE o # p
    BY <2>1, <2>2, WaitingElement
  <2>3. CASE o = p
    <3>1. i \in 1 .. Len(q[p]) \/ i = Len(q[p]) + 1
      BY <1>1, <2>1, <2>3
    <3> QED BY <2>1, <2>3, <3>1, WaitingElement
  <2> QED BY <2>2, <2>3
<1> HIDE DEF x
<1>3. /\ IsFiniteSet(Waiting(q) \cup {x})
      /\ Cardinality(Waiting(q) \cup {x}) <= Cardinality(Waiting(q)) + 1
      /\ Cardinality(Waiting(q) \cup {x}) \in Nat /\ Cardinality(Waiting(q)) \in Nat
  <2>1. /\ IsFiniteSet(Waiting(q) \cup {x})
        /\ Cardinality(Waiting(q) \cup {x})
              = IF x \in Waiting(q) THEN Cardinality(Waiting(q)) ELSE Cardinality(Waiting(q)) + 1
    BY FS_AddElement
  <2>2. Cardinality(Waiting(q)) \in Nat
    BY FS_CardinalityType
  <2> QED BY <2>1, <2>2
<1>4. Waiting(r) \in SUBSET (Waiting(q) \cup {x})
  BY <1>2
<1>5. IsFiniteSet(Waiting(r)) /\ Cardinality(Waiting(r)) <= Cardinality(Waiting(q) \cup {x})
  BY <1>3, <1>4, FS_Subset
<1>6. Cardinality(Waiting(r)) \in Nat
  BY <1>5, FS_CardinalityType
<1> QED BY <1>3, <1>5, <1>6

\* Queues that lose events, or keep them.
LEMMA NoMoreWait ==
    ASSUME NEW q \in [Partitions -> Seq(Events)], NEW r \in [Partitions -> Seq(Events)],
           \A p \in Partitions : Len(r[p]) <= Len(q[p]), IsFiniteSet(Waiting(q))
    PROVE  IsFiniteSet(Waiting(r)) /\ Cardinality(Waiting(r)) <= Cardinality(Waiting(q))
<1>1. ASSUME NEW w \in Waiting(r) PROVE w \in Waiting(q)
  <2>0. PICK p \in Partitions : \E i \in 1 .. Len(r[p]) : w = <<p, i>>
    BY WaitingElement
  <2>1. PICK i \in 1 .. Len(r[p]) : w = <<p, i>>
    BY <2>0
  <2>2. q[p] \in Seq(Events) /\ r[p] \in Seq(Events)
    OBVIOUS
  <2>3. Len(q[p]) \in Nat /\ Len(r[p]) \in Nat /\ Len(r[p]) <= Len(q[p])
    BY <2>2, LenProperties
  <2>4. i \in 1 .. Len(q[p])
    BY <2>3
  <2> QED BY <2>1, <2>4, WaitingElement
<1>2. Waiting(r) \in SUBSET Waiting(q)
  BY <1>1
<1> QED BY <1>2, FS_Subset

\* What Produce leaves of the limits: it queues nothing when the queue is full.
LEMMA ProducedWithin ==
    ASSUME ProducerInv, LimitsOK, NEW e \in Events, Produce(e), ProducerInv'
    PROVE  IsFiniteSet(Waiting(queue')) /\ Cardinality(Waiting(queue')) <= QueueLimit
<1> DEFINE p == PartitionOf[e.order]
<1>1. p \in Partitions
  BY EventTypes
<1> HIDE DEF p
<1>2. /\ queue \in [Partitions -> Seq(Events)] /\ queue' \in [Partitions -> Seq(Events)]
  BY DEF ProducerInv, TypesOK
<1>3. queue' = [queue EXCEPT ![p] = Append(@, e)]
  BY DEF Produce, p
<1>4. Len(queue'[p]) = Len(queue[p]) + 1
  <2>1. queue[p] \in Seq(Events) /\ queue'[p] = Append(queue[p], e)
    BY <1>1, <1>2, <1>3
  <2> QED BY <2>1, AppendProperties
<1>5. \A o \in Partitions : o # p => queue'[o] = queue[o]
  BY <1>2, <1>3
<1>6. IsFiniteSet(Waiting(queue))
  BY DEF LimitsOK
<1>7. Cardinality(Waiting(queue)) \in Nat
  BY <1>6, FS_CardinalityType
<1>8. ~ (Cardinality(Waiting(queue)) >= QueueLimit)
  BY DEF Produce, QueueFull, Queued, Waiting
<1>9. /\ IsFiniteSet(Waiting(queue'))
      /\ Cardinality(Waiting(queue')) <= Cardinality(Waiting(queue)) + 1
  BY <1>1, <1>2, <1>4, <1>5, <1>6, OneMoreWaits
<1>10. Cardinality(Waiting(queue')) \in Nat
  BY <1>9, FS_CardinalityType
<1> QED BY <1>7, <1>8, <1>9, <1>10, ProducerAssumption

\* A step that queues nothing.
LEMMA NothingQueued ==
    ASSUME ProducerInv, LimitsOK, ProducerInv',
           \A p \in Partitions : Len(queue'[p]) <= Len(queue[p])
    PROVE  IsFiniteSet(Waiting(queue')) /\ Cardinality(Waiting(queue')) <= QueueLimit
<1>1. queue \in [Partitions -> Seq(Events)] /\ queue' \in [Partitions -> Seq(Events)]
  BY DEF ProducerInv, TypesOK
<1>2. IsFiniteSet(Waiting(queue)) /\ Cardinality(Waiting(queue)) <= QueueLimit
  BY DEF LimitsOK, Queued, Waiting
<1>3. /\ IsFiniteSet(Waiting(queue'))
      /\ Cardinality(Waiting(queue')) <= Cardinality(Waiting(queue))
  BY <1>1, <1>2, NoMoreWait
<1>4. Cardinality(Waiting(queue)) \in Nat /\ Cardinality(Waiting(queue')) \in Nat
  BY <1>2, <1>3, FS_CardinalityType
<1> QED BY <1>2, <1>3, <1>4, ProducerAssumption

LEMMA LimitsStart == Init => LimitsOK
<1> SUFFICES ASSUME Init PROVE LimitsOK
  OBVIOUS
<1>1. seen = << >> /\ dropped = {} /\ queue = [p \in Partitions |-> << >>]
  BY DEF Init
<1>2. queue \in [Partitions -> Seq(Events)] /\ \A p \in Partitions : Len(queue[p]) = 0
  BY <1>1
<1>3. \A w : w \notin Waiting(queue)
  BY <1>2, WaitingElement
<1>4. Waiting(queue) = {}
  BY <1>3
<1>5. IsFiniteSet(Waiting(queue)) /\ Cardinality(Waiting(queue)) = 0
  BY <1>4, FS_EmptySet
<1>6. Queued = 0
  BY <1>5 DEF Queued, Waiting
<1> QED BY <1>1, <1>5, <1>6, ProducerAssumption DEF LimitsOK

LEMMA LimitsStep == ProducerInv /\ ProducerInv' /\ LimitsOK /\ [Next]_vars => LimitsOK'
<1> SUFFICES ASSUME ProducerInv, ProducerInv', LimitsOK, [Next]_vars PROVE LimitsOK'
  OBVIOUS
<1> DEFINE Fits == IsFiniteSet(Waiting(queue')) /\ Cardinality(Waiting(queue')) <= QueueLimit
<1>1. /\ queue \in [Partitions -> Seq(Events)] /\ seen \in Seq(Events)
      /\ \A p \in Partitions : queue[p] \in Seq(Events)
      /\ nextId \in 1 .. sent + 1 /\ sent \in 0 .. Total /\ clock \in 0 .. MaxClock
  BY DEF ProducerInv, TypesOK
<1>2. Len(seen) \in Nat /\ Len(seen) <= MaxSeen /\ dropped \subseteq Orders
  BY <1>1, LenProperties DEF LimitsOK
<1>3. Fits /\ Len(seen') <= MaxSeen /\ dropped' \subseteq Orders => LimitsOK'
  BY DEF LimitsOK, Queued, Waiting
<1>4. UNCHANGED queue => Fits
  <2> SUFFICES ASSUME UNCHANGED queue PROVE Fits
    OBVIOUS
  <2>1. Queued' = Queued /\ Waiting(queue') = Waiting(queue)
    BY DEF Queued
  <2> QED BY <2>1 DEF LimitsOK, Queued, Waiting
<1>5. CASE NewOrder
  <2> DEFINE e == [order |-> nextId, status |-> "PLACED", ts |-> clock, op |-> "i"]
             all == Append(seen, e)
  <2>1. /\ sent < Total /\ Produce(e) /\ UNCHANGED dropped
        /\ seen' = IF Len(all) > MaxSeen THEN Tail(all) ELSE all
    BY <1>5 DEF NewOrder, Producing
  <2>2. e \in Events
    BY <1>1, <2>1, ProducerAssumption DEF Events, Orders, Statuses
  <2> HIDE DEF e
  <2>3. Fits
    BY <2>1, <2>2, ProducedWithin
  <2>4. all \in Seq(Events) /\ Len(all) = Len(seen) + 1 /\ all # << >>
    BY <1>1, <2>2, AppendProperties
  <2> HIDE DEF all
  <2>5. Len(seen') <= MaxSeen
    <3>1. CASE Len(all) > MaxSeen
      <4>1. Len(seen') = Len(all) - 1
        BY <2>1, <2>4, <3>1, HeadTailProperties
      <4> QED BY <1>2, <2>4, <4>1, ProducerAssumption
    <3>2. CASE ~ (Len(all) > MaxSeen)
      BY <1>2, <2>1, <2>4, <3>2, ProducerAssumption
    <3> QED BY <3>1, <3>2
  <2> QED BY <1>2, <1>3, <2>1, <2>3, <2>5
<1>6. CASE UpdateOrder
  <2>1. PICK i \in DOMAIN seen : \E event \in Updated(seen[i]) :
           Produce(event) /\ seen' = [seen EXCEPT ![i] = event]
    BY <1>6 DEF UpdateOrder
  <2>2. PICK event \in Updated(seen[i]) : Produce(event) /\ seen' = [seen EXCEPT ![i] = event]
    BY <2>1
  <2>3. i \in 1 .. Len(seen) /\ seen[i] \in Events
    BY <1>1, ElementOfSeq, LenProperties
  <2>4. event \in Events
    BY <2>3, UpdateTypes DEF ProducerInv
  <2>5. Fits
    BY <2>2, <2>4, ProducedWithin
  <2>6. Len(seen') = Len(seen)
    BY <1>1, <2>2, <2>4, ExceptSeq
  <2>7. UNCHANGED dropped
    BY <1>6 DEF UpdateOrder
  <2> QED BY <1>2, <1>3, <2>5, <2>6, <2>7
<1>7. CASE QueueOverflows \/ Flushed
  <2>1. UNCHANGED seen /\ Abandon
    BY <1>7 DEF QueueOverflows, Flushed
  <2>2. dropped' \subseteq Orders
    <3>1. \A p \in Partitions : \A i \in DOMAIN queue[p] : queue[p][i].order \in Orders
      <4> SUFFICES ASSUME NEW p \in Partitions, NEW i \in DOMAIN queue[p]
                   PROVE  queue[p][i].order \in Orders
        OBVIOUS
      <4>1. queue[p] \in Seq(Events)
        BY <1>1
      <4>2. queue[p][i] \in Events
        BY <4>1, ElementOfSeq, LenProperties
      <4> QED BY <4>2 DEF Events
    <3> QED BY <1>2, <2>1, <3>1 DEF Abandon
  <2>3. \A p \in Partitions : Len(queue'[p]) <= Len(queue[p])
    <3> SUFFICES ASSUME NEW p \in Partitions PROVE Len(queue'[p]) <= Len(queue[p])
      OBVIOUS
    <3>1. queue[p] \in Seq(Events) /\ queue'[p] = << >>
      BY <1>1, <2>1 DEF Abandon
    <3> QED BY <3>1, LenProperties, EmptySeq
  <2>4. Fits
    BY <2>3, NothingQueued
  <2> QED BY <1>2, <1>3, <2>1, <2>2, <2>4
<1>8. CASE RunAgain
  <2>1. seen' = << >> /\ dropped' = {} /\ UNCHANGED queue
    BY <1>8 DEF RunAgain
  <2>2. Len(seen') <= MaxSeen
    BY <2>1, ProducerAssumption
  <2> QED BY <1>3, <1>4, <2>1, <2>2
<1>9. CASE LeaveLoop \/ Tick \/ UNCHANGED vars
  <2>1. UNCHANGED <<seen, dropped, queue>>
    BY <1>9 DEF LeaveLoop, Tick, vars, producerVars
  <2> QED BY <1>2, <1>3, <1>4, <2>1
<1>10. CASE \E p \in Partitions : GiveUp(p) \/ Deliver(p)
  <2>1. PICK p \in Partitions : GiveUp(p) \/ Deliver(p)
    BY <1>10
  <2>2. /\ queue[p] # << >> /\ UNCHANGED seen /\ queue' = [queue EXCEPT ![p] = Tail(@)]
        /\ dropped' = dropped \cup {Head(queue[p]).order} \/ UNCHANGED dropped
    BY <2>1 DEF GiveUp, Deliver
  <2>3. queue[p] \in Seq(Events) /\ Head(queue[p]) \in Events /\ Len(Tail(queue[p])) = Len(queue[p]) - 1
    BY <1>1, <2>2, HeadTailProperties
  <2>4. dropped' \subseteq Orders
    BY <1>2, <2>2, <2>3 DEF Events
  <2>5. \A o \in Partitions : Len(queue'[o]) <= Len(queue[o])
    <3> SUFFICES ASSUME NEW o \in Partitions PROVE Len(queue'[o]) <= Len(queue[o])
      OBVIOUS
    <3>1. Len(queue[o]) \in Nat
      BY <1>1, LenProperties
    <3>2. CASE o # p
      BY <1>1, <2>2, <3>1, <3>2
    <3>3. CASE o = p
      <4>1. queue'[o] = Tail(queue[p])
        BY <1>1, <2>2, <3>3
      <4> QED BY <2>3, <3>1, <3>3, <4>1
    <3> QED BY <3>2, <3>3
  <2>6. Fits
    BY <2>5, NothingQueued
  <2> QED BY <1>2, <1>3, <2>2, <2>4, <2>6
<1> QED BY <1>5, <1>6, <1>7, <1>8, <1>9, <1>10 DEF Next, Quiet, Main, Loop

LEMMA TypesAreOK == ProducerInv /\ LimitsOK => TypeOK
<1> SUFFICES ASSUME ProducerInv, LimitsOK PROVE TypeOK
  OBVIOUS
<1>1. TypesOK
  BY DEF ProducerInv
<1>2. nextId \in 1 .. Total + 1
  BY <1>1, ProducerAssumption DEF TypesOK
<1> QED BY <1>1, <1>2 DEF TypesOK, LimitsOK, TypeOK

-----------------------------------------------------------------------------
(* Theorems.                                                                *)

LEMMA Invariance == Spec => []ProducerInv
BY ProducerStarts, ProducerStep, PTL DEF Spec

LEMMA MemoryMatches == ProducerInv => MemoryMatchesTopic
<1> SUFFICES ASSUME ProducerInv, phase # "exited", NEW i \in DOMAIN seen, seen[i].order \notin dropped
             PROVE  LET o == seen[i].order
                        events == Sent(PartitionOf[o])
                    IN  \E k \in DOMAIN events :
                            /\ events[k] = seen[i]
                            /\ \A l \in DOMAIN events : l > k => events[l].order # o
  BY DEF MemoryMatchesTopic
<1>1. i \in 1 .. Len(seen) /\ seen[i] \in Events
  BY LenProperties, ElementOfSeq DEF ProducerInv, TypesOK
<1>2. LastIn(Sents[PartitionOf[seen[i].order]], seen[i])
  BY <1>1 DEF ProducerInv, MemoryOK
<1>3. PartitionOf[seen[i].order] \in Partitions
  BY <1>1, EventTypes
<1>4. Sents[PartitionOf[seen[i].order]] = Sent(PartitionOf[seen[i].order])
  BY <1>3 DEF Sents
<1>5. Sents[PartitionOf[seen[i].order]] \in Seq(Events)
  BY <1>3, SentElements DEF ProducerInv
<1> QED BY <1>2, <1>4, <1>5, LenProperties DEF LastIn

\* The copy in memory that the next update starts from is the last version of its
\* order on the way to the topic, unless an event of the order was lost, with any
\* number of partitions, orders and runs and however deliveries are delayed.
THEOREM MemoryStaysCurrent == Spec => []MemoryMatchesTopic
BY Invariance, MemoryMatches, PTL

\* The memory and the client's queue stay within their limits and the numbers of
\* new orders within Total, also across a BufferError, a flush that gives up and
\* a new start (the cap of 5000 at lines 136-138, BufferError
\* of produce).
THEOREM ProducerTypeCorrect == Spec => []TypeOK
<1>1. Spec => []LimitsOK
  BY Invariance, LimitsStart, LimitsStep, PTL DEF Spec
<1> QED BY <1>1, Invariance, TypesAreOK, PTL

=============================================================================
