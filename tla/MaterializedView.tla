-------------------------- MODULE MaterializedView --------------------------
(***************************************************************************)
(* What a Hudi table that follows the topic promises: at any moment it     *)
(* shows, for every order, the newest of the events up to some offset of   *)
(* each partition, and those offsets only grow.  Events may be missed if   *)
(* they are gone when the table passes them.     Batches, replays and      *)
(* crashes of the job that maintains it are not visible.                   *)
(***************************************************************************)
EXTENDS Integers, Sequences

CONSTANTS
    Orders,       \* order ids
    Partitions,   \* partitions of the topic
    NoRow         \* an order the table does not contain

VARIABLES
    topic,        \* topic[p]: the events of partition p, oldest first
    upto,         \* upto[p]: how many events of p the table has passed
    gone,         \* the offsets <<p, i>> that are not to be had
    missed,       \* the offsets it passed without having them
    row           \* row[o]: the event an order's row was made from, or NoRow

vars == <<topic, upto, gone, missed, row>>

Passed == UNION {{<<p, i>> : i \in 1 .. upto[p]} : p \in Partitions}
EventsOf(o) == {e \in {topic[x[1]][x[2]] : x \in Passed \ missed} : e.order = o}

\* Events with equal timestamps are equally new.
Newest(o) == {e \in EventsOf(o) : \A d \in EventsOf(o) : d.ts <= e.ts}

Shows(o) ==
    \/ row[o] \in Newest(o) /\ row[o].op # "d"
    \/ row[o] = NoRow /\ (EventsOf(o) # {} => \E e \in Newest(o) : e.op = "d")

Init ==
    /\ upto = [p \in Partitions |-> 0]
    /\ missed = {}
    /\ row = [o \in Orders |-> NoRow]

Next ==
    /\ \A p \in Partitions :
          /\ upto[p] <= upto'[p]
          /\ upto'[p] <= Len(topic'[p])
          /\ Len(topic[p]) <= Len(topic'[p])
          /\ \A i \in 1 .. Len(topic[p]) : topic'[p][i] = topic[p][i]
    /\ missed \subseteq missed' /\ missed' \ missed \subseteq gone'
    /\ missed' \cap Passed = missed
    /\ \A o \in Orders : Shows(o)'

Spec == Init /\ [][Next]_vars
=============================================================================
