------------------------------ MODULE Pipeline ------------------------------
(***************************************************************************)
(* The order producer and the streaming job, joined by the Kafka topic:    *)
(* what OrderProducer delivers is what arrives in StreamIngest.  Kafka     *)
(* keeps every event here; its retention is part of StreamIngest alone.    *)
(***************************************************************************)
EXTENDS OrderProducer

CONSTANTS NoOrder, NoRow, MaxOffsetsPerTrigger, StartingLatest, MaxLog, MaxCrashes

VARIABLES expired, planned, committed, pc, batch, table, crashes, origin, shown, missed

ASSUME PipelineAssumption ==
    /\ IsFiniteSet(Partitions)
    /\ NoOrder \notin Orders /\ NoRow \notin Events
    /\ MaxOffsetsPerTrigger \in Nat \ {0}
    /\ StartingLatest \in BOOLEAN
    /\ MaxCrashes \in Nat
    /\ MaxLog \in Nat /\ (MaxRuns + 1) * Total <= MaxLog    \* the bound is never reached

Stream == INSTANCE StreamIngest WITH Retention <- FALSE

streamVars == <<expired, planned, committed, pc, batch, table, crashes, origin, shown, missed>>
pipelineVars == <<vars, streamVars>>

PipelineInit == Init /\ Stream!Init

PipelineNext ==
    \/ Next /\ UNCHANGED streamVars
    \/ Stream!Job /\ UNCHANGED producerVars

PipelineSpec == PipelineInit /\ [][PipelineNext]_pipelineVars /\ Fairness

-----------------------------------------------------------------------------
(* Properties.                                                             *)

\* The producer keeps the rules under which the job was modelled: its events
\* arrive in the partition of their key and in the order of their timestamps,
\* over late deliveries and several runs.
FeedsStream == Stream!Init /\ [][Stream!Next]_<<topic, streamVars>>

\* The order is in no queue, none of its events was lost on the way, and the job
\* has committed all that was delivered.
Settled(o) ==
    /\ o \notin dropped \cup UNION {Stream!OrdersIn(missed[t]) : t \in Stream!Tables}
    /\ \A p \in Partitions : \A i \in DOMAIN queue[p] : queue[p][i].order # o
    /\ pc = "idle" /\ committed = Stream!End

\* From end to end: the tables hold what the producer's memory holds.  A cancelled
\* order has no row.  Among versions of one order with the same timestamp, which
\* the precombine field cannot tell apart, either may win.
TablesMatchMemory ==
    phase # "exited" =>
        \A i \in DOMAIN seen :
            LET o == seen[i].order
                same == {e \in {topic[PartitionOf[o]][j] : j \in DOMAIN topic[PartitionOf[o]]} :
                            e.order = o /\ e.ts = seen[i].ts}
            IN  Settled(o) => \A t \in Stream!Tables :
                    IF table[t][o] = NoRow
                    THEN \E e \in same : e.op = "d"
                    ELSE table[t][o] \in {e \in same : e.op # "d"}
=============================================================================
