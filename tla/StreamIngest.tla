---------------------------- MODULE StreamIngest ----------------------------
(***************************************************************************)
(* The streaming job (jobs/streaming/stream_to_hudi.py): micro-batches     *)
(* from a Kafka topic, each upserted into a copy-on-write and then into a  *)
(* merge-on-read Hudi table, with the offsets in a checkpoint.             *)
(*                                                                         *)
(* Spark, Kafka and Hudi are external and modelled by what the job asks of *)
(* them: Spark records the end offsets of a batch before it runs and their *)
(* commit after it, and runs a recorded batch without a commit again; a    *)
(* Hudi save is one commit on the table's timeline; Kafka removes old      *)
(* events.  Whatever ends the query (an exception in a save, query.stop()  *)
(* after run_seconds, a killed driver) is Crash: the checkpoint stays.     *)
(***************************************************************************)
EXTENDS Integers, Sequences, FiniteSetsExt

CONSTANTS
    Orders,                \* order ids
    Partitions,            \* partitions of the topic
    Events,                \* what the topic may contain
    NoOrder,               \* the order of a record that does not parse
    NoRow,                 \* an order a table does not contain
    PartitionOf,           \* the partition of the events of an order
    MaxOffsetsPerTrigger,  \* the option of that name
    StartingLatest,        \* --starting-offsets latest, otherwise earliest
    Retention,             \* whether Kafka's retention removes events
    MaxLog,                \* bound: events in a partition
    MaxCrashes             \* bound: times the query ends

ASSUME StreamAssumption ==
    /\ \A e \in Events :
          /\ e.order \in Orders \cup {NoOrder}
          /\ e.ts \in Nat
          /\ e.op \in {"i", "u", "d"}
    /\ IsFiniteSet(Partitions)
    /\ NoOrder \notin Orders
    /\ NoRow \notin Events
    /\ PartitionOf \in [Orders -> Partitions]
    /\ MaxOffsetsPerTrigger \in Nat \ {0}
    /\ {MaxLog, MaxCrashes} \subseteq Nat
    /\ {StartingLatest, Retention} \subseteq BOOLEAN

VARIABLES
    topic,      \* topic[p]: everything partition p ever got; offset i is topic[p][i]
    expired,    \* expired[p]: the offsets up to this one were removed by Kafka
    planned,    \* checkpoint, offset log: end offsets of the last batch
    committed,  \* checkpoint, commit log: end offsets of the last finished batch
    pc,         \* "new" (no checkpoint), "down", or where the query is
    batch,      \* the cached batch_df: the offsets it was read from
    table,      \* table[t]: rows of orders_cow and orders_mor
    crashes,    \* only for the bound MaxCrashes
    origin,     \* history: the offsets the first batch began after
    shown,      \* history: shown[t] are the offsets table t has been brought to
    missed      \* history: missed[t] are those it was brought past without having them

jobVars == <<planned, committed, pc, batch, table, crashes, origin, shown, missed>>
vars == <<topic, expired, jobVars>>

Tables == {"cow", "mor"}
Rows == Events \cup {NoRow}
Offsets == Partitions \X (1 .. MaxLog)
Zero == [p \in Partitions |-> 0]
End == [p \in Partitions |-> Len(topic[p])]
EventAt(x) == topic[x[1]][x[2]]
EventsIn(xs) == {EventAt(x) : x \in xs}
OrdersIn(xs) == {e.order : e \in EventsIn(xs)}
Between(from, to) == {x \in Offsets : from[x[1]] < x[2] /\ x[2] <= to[x[1]]}

\* History: table t is brought to the end of the planned batch.
Bring(ts) ==
    /\ shown' = [t \in Tables |-> IF t \in ts THEN planned ELSE shown[t]]
    /\ missed' = [t \in Tables |-> IF t \in ts
                     THEN missed[t] \cup {x \in Between(shown[t], planned) \ batch :
                                             EventAt(x).order \in Orders}
                     ELSE missed[t]]

TypeOK ==
    /\ topic \in [Partitions -> Seq(Events)]
    /\ \A v \in {expired, planned, committed, origin} : v \in [Partitions -> 0 .. MaxLog]
    /\ pc \in {"new", "down", "idle", "read", "cow", "mor", "commit"}
    /\ batch \subseteq Offsets
    /\ table \in [Tables -> [Orders -> Rows]]
    /\ shown \in [Tables -> [Partitions -> 0 .. MaxLog]]
    /\ missed \in [Tables -> SUBSET Offsets]
    /\ crashes \in 0 .. MaxCrashes

Init ==
    /\ topic = [p \in Partitions |-> << >>]
    /\ pc = "new"
    /\ expired = Zero /\ planned = Zero /\ committed = Zero /\ origin = Zero
    /\ batch = {}
    /\ table = [t \in Tables |-> [o \in Orders |-> NoRow]]
    /\ shown = [t \in Tables |-> Zero]
    /\ missed = [t \in Tables |-> {}]
    /\ crashes = 0

Unread(p) == Len(topic[p]) - committed[p]

-----------------------------------------------------------------------------
(* Faulty variants of operations below, none of them part of Spec: each is *)
(* a mistake that the properties at the end have to detect.                *)

\* The commit log is written before the second table.
CommitBatchEarly ==
    /\ pc \in {"mor", "commit"}
    /\ committed' = planned
    /\ Bring(Tables)
    /\ batch' = {}
    /\ pc' = "idle"
    /\ UNCHANGED <<topic, expired, planned, table, crashes, origin>>

\* End offsets taken for the offsets of the last event.
CommitBatchPastEnd ==
    /\ pc = "commit"
    /\ committed' = [p \in Partitions |-> planned[p] + 1]
    /\ Bring(Tables)
    /\ batch' = {}
    /\ pc' = "idle"
    /\ UNCHANGED <<topic, expired, planned, table, crashes, origin>>

\* Lost offsets make the reader go to the end of the log.
ReadBatchResets ==
    /\ pc = "read"
    /\ batch' = IF \E p \in Partitions : committed[p] < expired[p] THEN {}
                ELSE {x \in Between(committed, planned) : EventAt(x).order \in Orders}
    /\ pc' = IF batch' = {} THEN "commit" ELSE "cow"
    /\ UNCHANGED <<topic, expired, planned, committed, table, crashes, origin, shown, missed>>

\* No precombine field: any record of a key may be the one that is kept.
PrecombinedAny(o) == {e \in EventsIn(batch) : e.order = o}

\* A failed batch is not run again.
RestartAfterPlanned ==
    /\ pc = "down"
    /\ pc' = "idle"
    /\ committed' = planned
    /\ UNCHANGED <<topic, expired, planned, batch, table, crashes, origin, shown, missed>>

\* The limit ends one offset before the end of the log.
ShareExceptLast(p) ==
    LET all == Cardinality(Between(committed, End))
    IN  Max({0, Min({(MaxOffsetsPerTrigger * Unread(p)) \div all, Unread(p) - 1})})

-----------------------------------------------------------------------------
(* The query.                                                              *)

\* start() without a checkpoint: the first batch begins at startingOffsets.
FirstStart ==
    /\ pc = "new"
    /\ pc' = "idle"
    /\ committed' = IF StartingLatest THEN End ELSE expired
    /\ planned' = committed'
    /\ origin' = committed'
    /\ shown' = [t \in Tables |-> committed']
    /\ missed' = [t \in Tables |-> Between(Zero, committed')]
    /\ UNCHANGED <<topic, expired, batch, table, crashes>>

\* start() with a checkpoint: a batch that was planned and not committed is
\* run again with the offsets it had.
Restart ==
    /\ pc = "down"
    /\ pc' = IF planned = committed THEN "idle" ELSE "read"
    /\ UNCHANGED <<topic, expired, planned, committed, batch, table, crashes, origin, shown, missed>>

\* The rate limit is shared out in proportion to what is unread, and no
\* partition with unread events is left out.
Share(p) ==
    LET all == Cardinality(Between(committed, End))
        part == (MaxOffsetsPerTrigger * Unread(p)) \div all
    IN  IF Unread(p) > 0 /\ part = 0 THEN 1 ELSE Min({part, Unread(p)})

\* A trigger with something to read: the end offsets go to the checkpoint.
PlanBatch ==
    /\ pc = "idle"
    /\ \E p \in Partitions : Unread(p) > 0
    /\ planned' = [p \in Partitions |-> committed[p] + Share(p)]
    /\ pc' = "read"
    /\ UNCHANGED <<topic, expired, committed, batch, table, crashes, origin, shown, missed>>

\* persist() and the first isEmpty(): the batch is read and cached.  Offsets
\* that Kafka no longer has are skipped (failOnDataLoss=false), records that do
\* not parse are filtered out.  An empty batch is not written anywhere.
ReadBatch ==
    /\ pc = "read"
    /\ batch' = {x \in Between(committed, planned) :
                    x[2] > expired[x[1]] /\ EventAt(x).order \in Orders}
    /\ pc' = IF batch' = {} THEN "commit" ELSE "cow"
    /\ UNCHANGED <<topic, expired, planned, committed, table, crashes, origin, shown, missed>>

\* combine.before.upsert with precombine field event_ts_ms: one record of each
\* key is kept, one with the largest timestamp.
Precombined(o) ==
    LET versions == {e \in EventsIn(batch) : e.order = o}
    IN  {e \in versions : \A d \in versions : d.ts <= e.ts}

\* write_to_hudi: one upsert, in which a record with _op = 'd' deletes.
WriteTable(t) ==
    /\ pc = t
    /\ \E kept \in [OrdersIn(batch) -> EventsIn(batch)] :
          /\ \A o \in OrdersIn(batch) : kept[o] \in Precombined(o)
          /\ table' = [table EXCEPT ![t] = [o \in Orders |->
                          IF o \notin OrdersIn(batch) THEN @[o]
                          ELSE IF kept[o].op = "d" THEN NoRow ELSE kept[o]]]
    /\ Bring({t})
    /\ pc' = IF t = "cow" THEN "mor" ELSE "commit"
    /\ UNCHANGED <<topic, expired, planned, committed, batch, crashes, origin>>

\* for_each returned: Spark writes the commit log.
CommitBatch ==
    /\ pc = "commit"
    /\ committed' = planned
    /\ Bring(Tables)
    /\ batch' = {}
    /\ pc' = "idle"
    /\ UNCHANGED <<topic, expired, planned, table, crashes, origin>>

Crash ==
    /\ pc \notin {"new", "down"}
    /\ crashes < MaxCrashes
    /\ crashes' = crashes + 1
    /\ pc' = "down"
    /\ batch' = {}
    /\ UNCHANGED <<topic, expired, planned, committed, table, origin, shown, missed>>

JobStep == PlanBatch \/ ReadBatch \/ CommitBatch \/ \E t \in Tables : WriteTable(t)
Job == FirstStart \/ Restart \/ JobStep \/ Crash

-----------------------------------------------------------------------------
(* Kafka.                                                                  *)

\* A producer appends an event.  The timestamps of one order do not go back.
Arrive(p, e) ==
    /\ Len(topic[p]) < MaxLog
    /\ e.order \in Orders => p = PartitionOf[e.order]
    /\ \A i \in 1 .. Len(topic[p]) : topic[p][i].order = e.order => topic[p][i].ts <= e.ts
    /\ topic' = [topic EXCEPT ![p] = Append(@, e)]
    /\ UNCHANGED <<expired, jobVars>>

\* Retention removes the oldest event that is left, read or not.
Expire(p) ==
    /\ Retention
    /\ expired[p] < Len(topic[p])
    /\ expired' = [expired EXCEPT ![p] = @ + 1]
    /\ UNCHANGED <<topic, jobVars>>

Next ==
    \/ Job
    \/ \E p \in Partitions, e \in Events : Arrive(p, e)
    \/ \E p \in Partitions : Expire(p)

\* Fairness: a trigger fires every 20 seconds (line 252) and foreachBatch runs
\* to its end unless the query ends.  Nothing restarts a query that ended.
Spec == Init /\ [][Next]_vars /\ WF_vars(JobStep)

-----------------------------------------------------------------------------
(* Properties.                                                             *)

\* Offsets that were removed, or before the first batch.
Gone == Between(Zero, expired) \cup Between(Zero, origin)

IsNewest(r, o) ==
    LET had == {e \in EventsIn(Between(Zero, committed)) : e.order = o}
        new == {e \in had : \A d \in had : d.ts <= e.ts}
    IN  \/ r \in new /\ r.op # "d"
        \/ r = NoRow /\ (new # {} => \E e \in new : e.op = "d")

\* Between batches both tables have the newest committed version of every order
\* none of whose events was lost, however often batches were cut short after the
\* first table and run again (for_each, lines 239-246).
BothNewest ==
    pc = "idle" =>
        \A t \in Tables, o \in Orders :
            o \notin OrdersIn(missed[t]) => IsNewest(table[t][o], o)

\* A row is never replaced by an older version of its order, not even when a
\* batch is run again after Kafka has removed a part of it.
NeverOlder ==
    [][\A t \in Tables, o \in Orders :
          table[t][o] # NoRow /\ table'[t][o] # NoRow => table[t][o].ts <= table'[t][o].ts]_vars

\* Readers of the copy-on-write table see the topic up to some offsets, which grow:
\* a batch that is cut short, or run again over what it already wrote, shows
\* no other state.
CowView == INSTANCE MaterializedView WITH
    gone <- Gone, upto <- shown["cow"], missed <- missed["cow"], row <- table["cow"]
CowIsView == CowView!Spec

\* The same for the merge-on-read table, which is written second.
MorView == INSTANCE MaterializedView WITH
    gone <- Gone, upto <- shown["mor"], missed <- missed["mor"], row <- table["mor"]
MorIsView == MorView!Spec

\* While the query runs, every event in the topic is committed in the end, also
\* with batches of limited size and with one partition much longer than another.
EveryEventCommitted ==
    \A p \in Partitions, k \in 1 .. MaxLog :
        Len(topic[p]) >= k /\ pc # "new" ~> committed[p] >= k \/ pc = "down"

=============================================================================
