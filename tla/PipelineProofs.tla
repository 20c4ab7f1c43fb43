----------------------------- MODULE PipelineProofs -----------------------------
(***************************************************************************)
(* Theorems about the producer and the streaming job together.  What is    *)
(* known of each comes from its own proofs: the producer is an environment *)
(* that StreamIngest allows, so the invariants of both hold at once.       *)
(***************************************************************************)
EXTENDS Pipeline, ProducerProofs

StreamP == INSTANCE StreamProofs WITH Retention <- FALSE

\* The inductive invariant: nothing but the two invariants.
PipelineInv == ProducerInv /\ StreamP!Inv

-----------------------------------------------------------------------------
(* The job is the one that StreamProofs is about.                           *)

LEMMA StreamAssumed == StreamP!StreamAssumption
<1>1. \A e \in Events : e.order \in Orders /\ e.ts \in Nat /\ e.op \in {"i", "u", "d"}
  BY ProducerAssumption DEF Events
<1>2. PartitionOf \in [Orders -> Partitions]
  BY ProducerAssumption DEF Orders
<1>3. StreamP!IsFiniteSet(Partitions)
  BY PipelineAssumption DEF IsFiniteSet, StreamP!IsFiniteSet
<1> QED BY <1>1, <1>2, <1>3, ProducerAssumption, PipelineAssumption DEF StreamP!StreamAssumption

LEMMA SameSets ==
    /\ StreamP!Tables = Stream!Tables /\ StreamP!Offsets = Stream!Offsets
    /\ StreamP!Zero = Stream!Zero /\ StreamP!End = Stream!End
    /\ StreamP!jobVars = Stream!jobVars
    /\ \A a, b : StreamP!Between(a, b) = Stream!Between(a, b)
    /\ \A x : StreamP!EventAt(x) = Stream!EventAt(x)
    /\ \A xs : StreamP!OrdersIn(xs) = Stream!OrdersIn(xs)
BY DEF StreamP!Tables, Stream!Tables, StreamP!Offsets, Stream!Offsets, StreamP!Zero, Stream!Zero,
       StreamP!End, Stream!End, StreamP!jobVars, Stream!jobVars, StreamP!Between, Stream!Between,
       StreamP!EventAt, Stream!EventAt, StreamP!OrdersIn, Stream!OrdersIn,
       StreamP!EventsIn, Stream!EventsIn

LEMMA SameInit == Stream!Init => StreamP!Init
BY DEF Stream!Init, StreamP!Init, Stream!Zero, StreamP!Zero, Stream!Tables, StreamP!Tables

LEMMA SameJob == Stream!Job => StreamP!Job
<1>1. \A ts : Stream!Bring(ts) <=> StreamP!Bring(ts)
  BY SameSets DEF Stream!Bring, StreamP!Bring
<1>2. \A p : Stream!Unread(p) = StreamP!Unread(p)
  BY DEF Stream!Unread, StreamP!Unread
<1>3. \A p : Stream!Share(p) = StreamP!Share(p)
  <2>1. \A S : Stream!Min(S) = StreamP!Min(S)
    BY DEF Stream!Min, StreamP!Min
  <2>2. \A S : Stream!Cardinality(S) = StreamP!Cardinality(S)
    BY DEF Stream!Cardinality, StreamP!Cardinality
  <2>3. Stream!Between(committed, Stream!End) = StreamP!Between(committed, StreamP!End)
    BY SameSets
  <2> SUFFICES ASSUME NEW p PROVE Stream!Share(p) = StreamP!Share(p)
    OBVIOUS
  <2> QED BY <1>2, <2>1, <2>2, <2>3 DEF Stream!Share, StreamP!Share
<1>4. Stream!FirstStart => StreamP!FirstStart
  BY SameSets DEF Stream!FirstStart, StreamP!FirstStart
<1>5. Stream!Restart => StreamP!Restart
  BY DEF Stream!Restart, StreamP!Restart
<1>6. Stream!PlanBatch => StreamP!PlanBatch
  BY <1>2, <1>3 DEF Stream!PlanBatch, StreamP!PlanBatch
<1>7. Stream!ReadBatch => StreamP!ReadBatch
  BY SameSets DEF Stream!ReadBatch, StreamP!ReadBatch
<1>8. \A o : Stream!Precombined(o) = StreamP!Precombined(o)
  BY SameSets DEF Stream!Precombined, StreamP!Precombined, Stream!EventsIn, StreamP!EventsIn
<1>9. \A t : Stream!WriteTable(t) => StreamP!WriteTable(t)
  <2>1. Stream!OrdersIn(batch) = StreamP!OrdersIn(batch) /\ Stream!EventsIn(batch) = StreamP!EventsIn(batch)
    BY SameSets DEF Stream!EventsIn, StreamP!EventsIn
  <2> SUFFICES ASSUME NEW t, Stream!WriteTable(t) PROVE StreamP!WriteTable(t)
    OBVIOUS
  <2>2. PICK kept \in [Stream!OrdersIn(batch) -> Stream!EventsIn(batch)] :
           /\ \A o \in Stream!OrdersIn(batch) : kept[o] \in Stream!Precombined(o)
           /\ table' = [table EXCEPT ![t] = [o \in Orders |->
                           IF o \notin Stream!OrdersIn(batch) THEN table[t][o]
                           ELSE IF kept[o].op = "d" THEN NoRow ELSE kept[o]]]
    BY DEF Stream!WriteTable
  <2>3. StreamP!Bring({t})
    BY <1>1 DEF Stream!WriteTable
  <2>4. kept \in [StreamP!OrdersIn(batch) -> StreamP!EventsIn(batch)]
    BY <2>1
  <2>5. \A o \in StreamP!OrdersIn(batch) : kept[o] \in StreamP!Precombined(o)
    BY <1>8, <2>1, <2>2
  <2>6. /\ pc = t /\ pc' = IF t = "cow" THEN "mor" ELSE "commit"
        /\ UNCHANGED <<topic, expired, planned, committed, batch, crashes, origin>>
    BY DEF Stream!WriteTable
  <2>7. table' = [table EXCEPT ![t] = [o \in Orders |->
                     IF o \notin StreamP!OrdersIn(batch) THEN table[t][o]
                     ELSE IF kept[o].op = "d" THEN NoRow ELSE kept[o]]]
    BY <2>1, <2>2
  <2> QED BY <2>3, <2>4, <2>5, <2>6, <2>7 DEF StreamP!WriteTable
<1>10. Stream!CommitBatch => StreamP!CommitBatch
  BY <1>1, SameSets DEF Stream!CommitBatch, StreamP!CommitBatch
<1>11. Stream!Crash => StreamP!Crash
  BY DEF Stream!Crash, StreamP!Crash
<1> QED BY <1>4, <1>5, <1>6, <1>7, <1>9, <1>10, <1>11, SameSets
        DEF Stream!Job, StreamP!Job, Stream!JobStep, StreamP!JobStep

-----------------------------------------------------------------------------
(* Steps.                                                                   *)

\* A delivery is an arrival that StreamIngest allows: in the partition of its key, not
\* older than what is there, and within the bound, which runs and orders imply.
LEMMA DeliveryArrives ==
    ASSUME ProducerInv, NEW p \in Partitions, Deliver(p)
    PROVE  /\ Head(queue[p]) \in Events
           /\ Len(topic[p]) < MaxLog
           /\ p = PartitionOf[Head(queue[p]).order]
           /\ \A i \in 1 .. Len(topic[p]) : topic[p][i].ts <= Head(queue[p]).ts
           /\ topic' = [topic EXCEPT ![p] = Append(@, Head(queue[p]))]
<1> DEFINE s == topic[p]
           u == queue[p]
           all == s \o u
           n == Len(s)
<1>1. /\ s \in Seq(Events) /\ u \in Seq(Events) /\ u # << >>
      /\ Ordered(all, p) /\ Len(all) <= runs * Total + sent
      /\ topic' = [topic EXCEPT ![p] = Append(@, Head(u))]
  <2>1. Sents[p] = all /\ s \in Seq(Events) /\ u \in Seq(Events)
    BY SentElements DEF ProducerInv
  <2>2. Ordered(Sents[p], p) /\ Len(Sents[p]) <= runs * Total + sent
    BY DEF ProducerInv, SentOK
  <2> QED BY <2>1, <2>2 DEF Deliver
<1>2. Head(u) \in Events
  BY <1>1, HeadTailProperties
<1>3. n + 1 \in 1 .. Len(all) /\ all[n + 1] = Head(u)
  BY <1>1, ConcatTail
<1>4. n \in Nat /\ Len(all) \in Nat /\ \A i \in 1 .. n : all[i] = s[i]
  BY <1>1, ConcatElements, LenProperties
<1> HIDE DEF all, n
<1>5. p = PartitionOf[Head(u).order] /\ \A i \in 1 .. n : s[i].ts <= Head(u).ts
  <2>1. all[n + 1] = Head(u) /\ \A i \in 1 .. n : i \in 1 .. Len(all) /\ i <= n + 1 /\ all[i] = s[i]
    BY <1>3, <1>4
  <2> QED BY <1>1, <1>3, <2>1 DEF Ordered
<1>6. n < MaxLog
  <2>1. runs \in 0 .. MaxRuns /\ sent \in 0 .. Total /\ Total \in Nat /\ MaxRuns \in Nat
    BY ProducerAssumption DEF ProducerInv, TypesOK
  <2>2. runs * Total <= MaxRuns * Total /\ runs * Total \in Nat /\ MaxRuns * Total \in Nat
    BY <2>1
  <2>3. (MaxRuns + 1) * Total = MaxRuns * Total + Total
    BY <2>1
  <2>4. (MaxRuns + 1) * Total <= MaxLog /\ MaxLog \in Nat
    BY PipelineAssumption
  <2> DEFINE a == runs * Total
             b == MaxRuns * Total
  <2>5. a \in Nat /\ b \in Nat /\ a <= b /\ b + Total <= MaxLog /\ Len(all) <= a + sent
    BY <1>1, <2>2, <2>3, <2>4
  <2>6. n + 1 <= Len(all)
    BY <1>3, <1>4
  <2> HIDE DEF a, b
  <2> QED BY <1>4, <2>1, <2>4, <2>5, <2>6
<1> QED BY <1>1, <1>2, <1>5, <1>6 DEF n

\* Each step of the pipeline is a step, or a stutter, of the producer.
LEMMA ProducerSteps == [PipelineNext]_pipelineVars => [Next]_vars
<1>1. ASSUME Stream!Job PROVE topic' = topic
  BY <1>1 DEF Stream!Job, Stream!JobStep, Stream!FirstStart, Stream!Restart, Stream!PlanBatch,
              Stream!ReadBatch, Stream!WriteTable, Stream!CommitBatch, Stream!Crash
<1> QED BY <1>1 DEF PipelineNext, pipelineVars, vars

\* And of the job and its environment, as long as the producer's invariant holds.
LEMMA StreamSteps ==
    ASSUME ProducerInv, [PipelineNext]_pipelineVars
    PROVE  [Stream!Next]_<<topic, streamVars>> /\ [StreamP!Next]_(StreamP!vars)
<1>1. CASE Stream!Job
  BY <1>1, SameJob DEF Stream!Next, StreamP!Next
<1>2. CASE UNCHANGED <<topic, streamVars>>
  BY <1>2 DEF streamVars, StreamP!vars, StreamP!jobVars
<1>3. CASE UNCHANGED streamVars /\ \E p \in Partitions : Deliver(p)
  <2>1. PICK p \in Partitions : Deliver(p)
    BY <1>3
  <2>2. PICK e \in Events : /\ Len(topic[p]) < MaxLog /\ p = PartitionOf[e.order]
                            /\ \A i \in 1 .. Len(topic[p]) : topic[p][i].ts <= e.ts
                            /\ topic' = [topic EXCEPT ![p] = Append(@, e)]
    BY <2>1, DeliveryArrives
  <2>3. Stream!Arrive(p, e) /\ StreamP!Arrive(p, e)
    BY <1>3, <2>2 DEF streamVars, Stream!Arrive, StreamP!Arrive, Stream!jobVars, StreamP!jobVars
  <2> QED BY <2>3 DEF Stream!Next, StreamP!Next
<1>4. ASSUME Quiet PROVE topic' = topic
  BY <1>4 DEF Quiet, Main, Loop, NewOrder, UpdateOrder, QueueOverflows, LeaveLoop, Flushed, RunAgain,
              GiveUp, Tick
<1> QED BY <1>1, <1>2, <1>3, <1>4 DEF PipelineNext, pipelineVars, vars, Next

LEMMA PipelineStarts == PipelineInit => PipelineInv
<1> SUFFICES ASSUME PipelineInit PROVE PipelineInv
  OBVIOUS
<1>1. ProducerInv
  BY ProducerStarts DEF PipelineInit
<1>2. StreamP!Init
  BY SameInit DEF PipelineInit
<1>3. StreamP!Inv
  BY <1>2, StreamAssumed, StreamP!InitInv
<1> QED BY <1>1, <1>3 DEF PipelineInv

LEMMA PipelineStep == PipelineInv /\ [PipelineNext]_pipelineVars => PipelineInv'
<1> SUFFICES ASSUME PipelineInv, [PipelineNext]_pipelineVars PROVE PipelineInv'
  OBVIOUS
<1>1. ProducerInv'
  BY ProducerSteps, ProducerStep DEF PipelineInv
<1>2. StreamP!Inv /\ [StreamP!Next]_(StreamP!vars)
  BY StreamSteps DEF PipelineInv
<1>3. StreamP!Good
  BY <1>2, StreamAssumed, StreamP!StepGood
<1> QED BY <1>1, <1>3 DEF PipelineInv, StreamP!Good

LEMMA PipelineInvariance == PipelineSpec => []PipelineInv
BY PipelineStarts, PipelineStep, PTL DEF PipelineSpec

-----------------------------------------------------------------------------
(* Theorems.                                                                *)

\* The producer keeps the rules that StreamIngest states for its environment, so what
\* is proved of the job holds behind this producer: its events arrive in the partition
\* of their key and in the order of their times, over runs, retries and late deliveries.
THEOREM ProducerFeedsStream == PipelineSpec => FeedsStream
<1>1. PipelineInit => Stream!Init
  BY DEF PipelineInit
<1>2. PipelineInv /\ [PipelineNext]_pipelineVars => [Stream!Next]_<<topic, streamVars>>
  BY StreamSteps DEF PipelineInv
<1> QED BY PipelineInvariance, <1>1, <1>2, PTL DEF PipelineSpec, FeedsStream

\* Of an order that is settled the last version in memory is in the topic, and the job
\* has read all of them, so the newest versions of the order have its timestamp.
LEMMA SettledRow ==
    ASSUME PipelineInv, phase # "exited", NEW i \in DOMAIN seen, Settled(seen[i].order),
           NEW t \in Stream!Tables
    PROVE  LET o == seen[i].order
               same == {e \in {topic[PartitionOf[o]][j] : j \in DOMAIN topic[PartitionOf[o]]} :
                           e.order = o /\ e.ts = seen[i].ts}
           IN  IF table[t][o] = NoRow
               THEN \E e \in same : e.op = "d"
               ELSE table[t][o] \in {e \in same : e.op # "d"}
<1> DEFINE o == seen[i].order
           p == PartitionOf[o]
           log == topic[p]
           same == {e \in {log[j] : j \in DOMAIN log} : e.order = o /\ e.ts = seen[i].ts}
           had == {e \in StreamP!EventsIn(StreamP!Between(StreamP!Zero, committed)) : e.order = o}
           new == {e \in had : \A d \in had : d.ts <= e.ts}
<1>1. i \in 1 .. Len(seen) /\ seen[i] \in Events /\ o \in Orders /\ p \in Partitions
  <2>1. i \in 1 .. Len(seen) /\ seen[i] \in Events
    BY LenProperties, ElementOfSeq DEF PipelineInv, ProducerInv, TypesOK
  <2> QED BY <2>1, EventTypes DEF Orders
<1>2. /\ o \notin dropped /\ pc = "idle" /\ committed = StreamP!End
      /\ o \notin StreamP!OrdersIn(missed[t]) /\ t \in StreamP!Tables
      /\ \A j \in DOMAIN queue[p] : queue[p][j].order # o
  BY <1>1, SameSets DEF Settled
<1>3. /\ log \in Seq(Events) /\ queue[p] \in Seq(Events) /\ Sents[p] = log \o queue[p]
      /\ Len(log) \in Nat /\ Len(queue[p]) \in Nat /\ DOMAIN log = 1 .. Len(log)
      /\ DOMAIN queue[p] = 1 .. Len(queue[p])
  BY <1>1, SentElements, LenProperties DEF PipelineInv, ProducerInv
<1>4. PICK k \in 1 .. Len(log) : log[k] = seen[i] /\ \A l \in 1 .. Len(log) : l > k => log[l].order # o
  <2> DEFINE all == log \o queue[p]
  <2>1. LastIn(all, seen[i])
    BY <1>1, <1>2, <1>3 DEF PipelineInv, ProducerInv, MemoryOK
  <2>2. /\ Len(all) = Len(log) + Len(queue[p])
        /\ \A j \in 1 .. Len(log) : all[j] = log[j]
        /\ \A j \in 1 .. Len(queue[p]) : all[Len(log) + j] = queue[p][j]
    BY <1>3, ConcatElements
  <2> HIDE DEF all, log
  <2>3. PICK k \in 1 .. Len(all) : all[k] = seen[i] /\ \A l \in 1 .. Len(all) : l > k => all[l].order # o
    BY <2>1 DEF LastIn
  <2>4. k \in 1 .. Len(log)
    <3> SUFFICES ASSUME k > Len(log) PROVE FALSE
      BY <1>3, <2>2, <2>3
    <3> DEFINE j == k - Len(log)
    <3>1. j \in 1 .. Len(queue[p]) /\ k = Len(log) + j
      BY <1>3, <2>2, <2>3
    <3> HIDE DEF j
    <3>2. all[k] = queue[p][j] /\ queue[p][j].order # o
      BY <1>2, <1>3, <2>2, <3>1
    <3> QED BY <2>3, <3>2
  <2>5. \A l \in 1 .. Len(log) : l \in 1 .. Len(all) /\ all[l] = log[l]
    BY <1>3, <2>2
  <2> QED BY <2>3, <2>4, <2>5
<1>5. \A j \in 1 .. Len(log) : /\ log[j] \in Events /\ log[j].ts \in Nat
                               /\ j <= k => log[j].ts <= log[k].ts
  <2>1. Ordered(log, p)
    <3>1. Ordered(log \o queue[p], p)
      BY <1>1, <1>3 DEF PipelineInv, ProducerInv, SentOK
    <3> QED BY <1>1, <1>3, <3>1, PrefixKeeps
  <2> HIDE DEF log
  <2> QED BY <1>3, <1>4, <2>1, ElementOfSeq, EventTypes DEF Ordered
<1>6. had = {e \in {log[j] : j \in 1 .. Len(log)} : e.order = o}
  <2>1. StreamP!TypeOK /\ StreamP!LogOK
    BY DEF PipelineInv, StreamP!Inv
  <2>2. ASSUME NEW e \in had PROVE \E j \in 1 .. Len(log) : e = log[j]
    <3>1. PICK x \in StreamP!Between(StreamP!Zero, committed) : e = topic[x[1]][x[2]]
      BY DEF StreamP!EventsIn, StreamP!EventAt
    <3>2. /\ x[1] \in Partitions /\ x[2] \in Nat /\ 0 < x[2] /\ x[2] <= Len(topic[x[1]])
      <4>1. x[1] \in Partitions /\ x[2] \in 1 .. MaxLog /\ x[2] <= committed[x[1]]
        BY <3>1 DEF StreamP!Between, StreamP!Offsets
      <4> QED BY <1>2, <4>1, PipelineAssumption DEF StreamP!End
    <3>3. x[2] \in 1 .. Len(topic[x[1]])
      BY <3>2, LenProperties DEF PipelineInv, ProducerInv, TypesOK
    <3>4. x[1] = PartitionOf[e.order]
      BY <1>1, <2>1, <3>1, <3>2, <3>3 DEF StreamP!LogOK
    <3> QED BY <3>1, <3>3, <3>4
  <2>3. ASSUME NEW j \in 1 .. Len(log), log[j].order = o PROVE log[j] \in had
    <3> DEFINE x == <<p, j>>
    <3>1. Len(log) <= MaxLog /\ MaxLog \in Nat
      BY <1>1, <2>1, PipelineAssumption DEF StreamP!LogOK
    <3>2. x \in StreamP!Between(StreamP!Zero, committed)
      <4>1. committed[p] = Len(log) /\ StreamP!Zero[p] = 0
        BY <1>1, <1>2 DEF StreamP!End, StreamP!Zero
      <4>2. x \in Partitions \X (1 .. MaxLog) /\ x[1] = p /\ x[2] = j
        BY <1>1, <1>3, <3>1
      <4>3. 0 < x[2] /\ x[2] <= Len(log)
        BY <1>3, <4>2
      <4> QED BY <4>1, <4>2, <4>3 DEF StreamP!Between, StreamP!Offsets
    <3>3. StreamP!EventAt(x) = log[j]
      BY DEF StreamP!EventAt
    <3> QED BY <2>3, <3>2, <3>3 DEF StreamP!EventsIn
  <2> QED BY <2>2, <2>3
<1> HIDE DEF log, had
<1>7. log[k] \in had /\ log[k].order = o /\ log[k].ts = seen[i].ts
  BY <1>4, <1>6
<1>8. \A e \in had : e.ts <= log[k].ts /\ e.ts \in Nat
  <2> SUFFICES ASSUME NEW j \in 1 .. Len(log), log[j].order = o
               PROVE  log[j].ts <= log[k].ts /\ log[j].ts \in Nat
    BY <1>6
  <2>1. j <= k
    BY <1>3, <1>4
  <2> QED BY <1>5, <2>1
<1>9. log[k] \in new
  BY <1>7, <1>8
<1>10. new \subseteq same
  <2> SUFFICES ASSUME NEW e \in new PROVE e \in same
    OBVIOUS
  <2>1. e \in had /\ e.ts = log[k].ts
    BY <1>7, <1>8
  <2> QED BY <1>3, <1>6, <1>7, <2>1
<1>11. StreamP!IsNewest(table[t][o], o)
  BY <1>1, <1>2, StreamAssumed, StreamP!IdleRow DEF PipelineInv
<1>12. \/ table[t][o] \in new /\ table[t][o].op # "d"
       \/ table[t][o] = NoRow /\ \E e \in new : e.op = "d"
  <2>1. \/ table[t][o] \in new /\ table[t][o].op # "d"
        \/ table[t][o] = NoRow /\ (new # {} => \E e \in new : e.op = "d")
    BY <1>11 DEF StreamP!IsNewest, had
  <2> HIDE DEF new
  <2> QED BY <1>9, <2>1
<1>13. NoRow \notin new
  BY <1>5, <1>6, PipelineAssumption
<1> HIDE DEF new, same, o
<1>14. IF table[t][o] = NoRow THEN \E e \in same : e.op = "d" ELSE table[t][o] \in {e \in same : e.op # "d"}
  BY <1>10, <1>12, <1>13
<1> QED BY <1>14 DEF same, log, o

\* From end to end: whatever the deliveries, the runs of the producer and the crashes of
\* the job, once the job has committed what was delivered and nothing of an order is on
\* its way or was lost, both tables hold what the producer's memory holds.
THEOREM TablesHoldMemory == PipelineSpec => []TablesMatchMemory
<1>1. PipelineInv => TablesMatchMemory
  BY SettledRow DEF TablesMatchMemory
<1> QED BY PipelineInvariance, <1>1, PTL

=============================================================================
