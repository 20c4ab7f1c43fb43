---------------------------- MODULE OrderProducer ----------------------------
(***************************************************************************)
(* The order producer (producer/produce.py): it keeps the orders it may    *)
(* update in memory, queues an event for each change in the Kafka client,  *)
(* which delivers in the background, and at the end flushes the queue for  *)
(* at most 15 seconds.  A run of the producer starts with order 1 again.   *)
(*                                                                         *)
(* The Kafka client is external: with enable.idempotence it delivers the   *)
(* events of a partition in order, at most once, and may give up on one.   *)
(***************************************************************************)
EXTENDS Integers, Sequences, FiniteSetsExt

CONSTANTS
    Partitions,   \* partitions of the topic
    PartitionOf,  \* the partition Kafka chooses for a key
    Total,        \* TOTAL_EVENTS
    MaxSeen,      \* "active" orders kept in memory (5000 in the code)
    QueueLimit,   \* events the Kafka client holds
    MaxClock,     \* bound: time.time() in milliseconds
    MaxRuns       \* bound: times the producer is started

ASSUME ProducerAssumption ==
    /\ {Total, MaxSeen, QueueLimit} \subseteq Nat \ {0}
    /\ {MaxClock, MaxRuns} \subseteq Nat
    /\ PartitionOf \in [1 .. Total -> Partitions]

VARIABLES
    clock,    \* the time in milliseconds
    phase,    \* "running", "flushing" or "exited"
    sent,     \* events produced in this run
    nextId,   \* number of the next new order
    seen,     \* the orders in memory, each as its last event
    queue,    \* queue[p]: events not delivered yet
    topic,    \* topic[p]: the events of partition p
    runs,     \* only for the bound MaxRuns
    dropped   \* history: orders of this run that lost an event

producerVars == <<clock, phase, sent, nextId, seen, queue, runs, dropped>>
vars == <<producerVars, topic>>

Orders == 1 .. Total
STATUSES == <<"PLACED", "PAID", "SHIPPED", "DELIVERED">>
Statuses == {"PLACED", "PAID", "SHIPPED", "DELIVERED", "CANCELLED"}
Events == [order : Orders, status : Statuses, ts : 0 .. MaxClock, op : {"i", "u", "d"}]

\* The events the client holds: those of each partition, told apart by their place.
Queued == Cardinality(UNION {{p} \X DOMAIN queue[p] : p \in Partitions})

TypeOK ==
    /\ clock \in 0 .. MaxClock
    /\ phase \in {"running", "flushing", "exited"}
    /\ sent \in 0 .. Total
    /\ nextId \in 1 .. Total + 1
    /\ seen \in Seq(Events) /\ Len(seen) <= MaxSeen
    /\ queue \in [Partitions -> Seq(Events)] /\ Queued <= QueueLimit
    /\ topic \in [Partitions -> Seq(Events)]
    /\ runs \in 0 .. MaxRuns
    /\ dropped \subseteq Orders

Init ==
    /\ clock = 0
    /\ phase = "running"
    /\ sent = 0
    /\ nextId = 1
    /\ seen = << >>
    /\ queue = [p \in Partitions |-> << >>]
    /\ topic = [p \in Partitions |-> << >>]
    /\ runs = 0
    /\ dropped = {}

-----------------------------------------------------------------------------
(* The loop of main.                                                       *)

QueueFull == Queued >= QueueLimit
Producing == phase = "running" /\ sent < Total

\* A faulty variant, not part of Spec: the queue has no limit.
ProduceUnchecked(e) ==
    /\ queue' = [queue EXCEPT ![PartitionOf[e.order]] = Append(@, e)]
    /\ sent' = sent + 1

\* producer.produce: the event is queued for the partition of its key.
Produce(e) ==
    /\ ~QueueFull
    /\ queue' = [queue EXCEPT ![PartitionOf[e.order]] = Append(@, e)]
    /\ sent' = sent + 1

\* make_new_order; the oldest order is forgotten when there are too many.
NewOrder ==
    LET event == [order |-> nextId, status |-> "PLACED", ts |-> clock, op |-> "i"]
        all == Append(seen, event)
    IN  /\ Producing
        /\ Produce(event)
        /\ nextId' = nextId + 1
        /\ seen' = IF Len(all) > MaxSeen THEN Tail(all) ELSE all
        /\ UNCHANGED <<clock, phase, topic, runs, dropped>>

\* The status after s in the list; what is not in the list counts as the first.
NextStatus(s) ==
    LET idx == IF \E i \in DOMAIN STATUSES : STATUSES[i] = s
               THEN CHOOSE i \in DOMAIN STATUSES : STATUSES[i] = s
               ELSE 1
    IN  STATUSES[Min({idx + 1, Len(STATUSES)})]

\* update_existing: the order as it is after the update.
Updated(order) ==
    {[order EXCEPT !.status = "CANCELLED", !.ts = clock, !.op = "d"],
     [order EXCEPT !.status = NextStatus(order.status), !.ts = clock, !.op = "u"]}

\* A faulty variant, not part of Spec: the copy in memory is not updated.
UpdateForgotten ==
    /\ Producing
    /\ \E i \in DOMAIN seen : \E event \in Updated(seen[i]) : Produce(event)
    /\ UNCHANGED <<clock, phase, nextId, seen, topic, runs, dropped>>

\* An update of any order in memory, and of its copy there.
UpdateOrder ==
    /\ Producing
    /\ \E i \in DOMAIN seen : \E event \in Updated(seen[i]) :
          /\ Produce(event)
          /\ seen' = [seen EXCEPT ![i] = event]
    /\ UNCHANGED <<clock, phase, nextId, topic, runs, dropped>>

\* What is still queued when the process ends is lost.
Abandon ==
    /\ phase' = "exited"
    /\ dropped' = dropped \cup UNION {{queue[p][i].order : i \in DOMAIN queue[p]} : p \in Partitions}
    /\ queue' = [p \in Partitions |-> << >>]

\* produce raises BufferError, which main does not handle; the order in memory
\* is already the new one, but the memory goes too.
QueueOverflows ==
    /\ Producing
    /\ QueueFull
    /\ Abandon
    /\ UNCHANGED <<clock, sent, nextId, seen, topic, runs>>

\* The loop ends after Total events, or on a signal.
LeaveLoop ==
    /\ phase = "running"
    /\ phase' = "flushing"
    /\ UNCHANGED <<clock, sent, nextId, seen, queue, topic, runs, dropped>>

\* A faulty variant, not part of Spec: flush without a timeout.
FlushedAll ==
    /\ phase = "flushing"
    /\ \A p \in Partitions : queue[p] = << >>
    /\ Abandon
    /\ UNCHANGED <<clock, sent, nextId, seen, topic, runs>>

\* flush(15) returns when the queue is empty or the time is over, and main
\* returns 0 either way.
Flushed ==
    /\ phase = "flushing"
    /\ Abandon
    /\ UNCHANGED <<clock, sent, nextId, seen, topic, runs>>

\* The producer is started once more.
RunAgain ==
    /\ phase = "exited"
    /\ runs < MaxRuns
    /\ runs' = runs + 1
    /\ phase' = "running"
    /\ sent' = 0
    /\ nextId' = 1
    /\ seen' = << >>
    /\ dropped' = {}
    /\ UNCHANGED <<clock, queue, topic>>

Loop == NewOrder \/ UpdateOrder \/ QueueOverflows \/ LeaveLoop
Main == Loop \/ Flushed \/ RunAgain

-----------------------------------------------------------------------------
(* The Kafka client's thread, and time.                                    *)

Deliver(p) ==
    /\ queue[p] # << >>
    /\ topic' = [topic EXCEPT ![p] = Append(@, Head(queue[p]))]
    /\ queue' = [queue EXCEPT ![p] = Tail(@)]
    /\ UNCHANGED <<clock, phase, sent, nextId, seen, runs, dropped>>

\* The client gives up on an event; delivery_callback only prints it.
GiveUp(p) ==
    /\ queue[p] # << >>
    /\ queue' = [queue EXCEPT ![p] = Tail(@)]
    /\ dropped' = dropped \cup {Head(queue[p]).order}
    /\ UNCHANGED <<clock, phase, sent, nextId, seen, topic, runs>>

Tick ==
    /\ clock < MaxClock
    /\ clock' = clock + 1
    /\ UNCHANGED <<phase, sent, nextId, seen, queue, topic, runs, dropped>>

Quiet == Main \/ Tick \/ \E p \in Partitions : GiveUp(p)

Next == Quiet \/ \E p \in Partitions : Deliver(p)

\* Fairness: the loop and the flush do not block (produce raises, flush has a
\* timeout); nothing is assumed about the client's thread or the broker.
Fairness == WF_vars(Loop) /\ WF_vars(Flushed)

Spec == Init /\ [][Next]_vars /\ Fairness

-----------------------------------------------------------------------------
(* Properties.                                                             *)

\* What was and will be delivered to p.
Sent(p) == topic[p] \o queue[p]

\* The memory does not run away from the topic: as long as no event of an order
\* was lost, its last event, delivered or queued, is the copy the next update
\* will start from (victim.update, line 130).
MemoryMatchesTopic ==
    phase # "exited" =>
        \A i \in DOMAIN seen :
            LET o == seen[i].order
                events == Sent(PartitionOf[o])
            IN  o \notin dropped =>
                    \E k \in DOMAIN events :
                        /\ events[k] = seen[i]
                        /\ \A l \in DOMAIN events : l > k => events[l].order # o

\* The producer comes to an end, whatever the broker does (flush(15), line 164).
Exits == phase = "running" ~> phase = "exited"

=============================================================================
