------------------------------ MODULE MCHudiTable ------------------------------
(* Instances of HudiTable for TLC: two orders of one country, one of another.   *)
EXTENDS HudiTable, TLC

CONSTANTS k1, k2, k3, p1, p2

MCPartitionOf == (k1 :> p1) @@ (k2 :> p1) @@ (k3 :> p2)
MCBatches == {(k1 :> "u") @@ (k3 :> "u"), (k1 :> "u") @@ (k2 :> "u"), k1 :> "d"}
===============================================================================
