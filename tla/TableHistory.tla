----------------------------- MODULE TableHistory -----------------------------
(***************************************************************************)
(* What a mini-iceberg table promises to the people who share it: either   *)
(* there is no table, or there is one table, with an identity fixed when   *)
(* it was created and a log of the changes committed to it.  A commit adds *)
(* one change at the end of that log.  Nothing else ever happens to it,    *)
(* except that the table as a whole is dropped.                            *)
(*                                                                         *)
(* Catalog.tla says under which conditions the files the catalog writes    *)
(* implement this.                                                         *)
(***************************************************************************)
EXTENDS Sequences

CONSTANTS
    TableIds,   \* identities of tables (table_uuid)
    Changes,    \* what one commit adds to a table
    NoTable     \* the absence of a table

VARIABLE table

TypeOK == table \in [uuid : TableIds, log : Seq(Changes)] \cup {NoTable}

Init == table = NoTable

Create(id) ==
    /\ table = NoTable
    /\ table' = [uuid |-> id, log |-> <<>>]

Commit(x) ==
    /\ table # NoTable
    /\ table' = [table EXCEPT !.log = Append(@, x)]

Drop ==
    /\ table # NoTable
    /\ table' = NoTable

Next ==
    \/ \E id \in TableIds : Create(id)
    \/ \E x \in Changes : Commit(x)
    \/ Drop

Spec == Init /\ [][Next]_table

===============================================================================
