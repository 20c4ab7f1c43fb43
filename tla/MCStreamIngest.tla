--------------------------- MODULE MCStreamIngest ---------------------------
(* Instances of StreamIngest for TLC.                                      *)
EXTENDS StreamIngest, TLC

CONSTANTS o1, o2, p1, p2

OnePartition == (o1 :> p1) @@ (o2 :> p1)

\* One order that is created, changed and deleted, with a tie, one that is only
\* created, and records that do not parse, which may be in any partition.
FewEvents == [order : {o1}, ts : {1}, op : {"u"}] \cup [order : {o1}, ts : {2}, op : {"u", "d"}]
             \cup [order : {o2, NoOrder}, ts : {1}, op : {"u"}]
=============================================================================
