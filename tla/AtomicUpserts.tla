---------------------------- MODULE AtomicUpserts ----------------------------
(***************************************************************************)
(* What readers of a Hudi table may rely on: at every moment the table has *)
(* one row or none for each key, and the only thing that ever happens is a *)
(* whole batch of upserts and deletes at once.  Files, logs, compaction,   *)
(* cleaning, archival and failed writes are not seen.                      *)
(*                                                                         *)
(* HudiTable.tla says when the files on storage implement this.            *)
(***************************************************************************)
EXTENDS Integers

CONSTANTS
    Batches,    \* what one write may do: "u" or "d" for some of the keys
    Numbers     \* what writes are numbered with

VARIABLE rows   \* [key, from]: from is the number of the write the row is from

Untouched(b) == {r \in rows : r.key \notin DOMAIN b}
Upserted(b, n) == {[key |-> k, from |-> n] : k \in {x \in DOMAIN b : b[x] = "u"}}

Init == rows = {}

\* Numbers only grow, so a row is never replaced by an older one.
Upsert(b) ==
    \E n \in Numbers :
        /\ \A r \in rows : r.from < n
        /\ rows' = Untouched(b) \cup Upserted(b, n)

Next ==
    /\ rows' # rows
    /\ \E b \in Batches : Upsert(b)

Spec == Init /\ [][Next]_rows

==============================================================================
