--------------------------- MODULE TimeTravelTable ---------------------------
(***************************************************************************)
(* What readers of a mini-iceberg table may rely on: the table is a list   *)
(* of views, each with the operation that made it and the set of data      *)
(* files a scan at that snapshot returns.  A write adds one view computed  *)
(* from the last one, and the views before it never change, which is what  *)
(* makes time travel work.                                                 *)
(*                                                                         *)
(* IcebergTable.tla says when the manifests and manifest lists on storage  *)
(* implement this.                                                         *)
(***************************************************************************)
EXTENDS Integers, Sequences

CONSTANT Files      \* what data files can be

VARIABLE views      \* views[i]: operation and files of the i-th snapshot

TypeOK == views \in Seq([op : {"append", "overwrite"}, files : SUBSET Files])

Latest == IF views = <<>> THEN {} ELSE views[Len(views)].files
Seen   == UNION {views[i].files : i \in 1..Len(views)}

Init == views = <<>>

\* One more view, and the others as they were.
AddView(op) ==
    /\ Len(views') = Len(views) + 1
    /\ SubSeq(views', 1, Len(views)) = views
    /\ views'[Len(views')].op = op
    /\ Latest' \subseteq Files

\* An append keeps what the last view has and adds files nobody has seen.
AppendRows ==
    /\ AddView("append")
    /\ Latest \subseteq Latest'
    /\ Latest' # Latest /\ (Latest' \ Latest) \cap Seen = {}

\* An overwrite keeps nothing.
OverwriteRows ==
    /\ AddView("overwrite")
    /\ Latest' \cap Seen = {}

DropTable == views' = <<>>

Next == AppendRows \/ OverwriteRows \/ DropTable

Spec == Init /\ [][Next]_views

===============================================================================
