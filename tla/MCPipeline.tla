----------------------------- MODULE MCPipeline -----------------------------
(* Instances of Pipeline for TLC.                                          *)
EXTENDS Pipeline, TLC

CONSTANTS p1, p2

\* Keys are spread over the partitions by their hash.
MCPartitionOf == [o \in Orders |-> IF o % 2 = 0 THEN p2 ELSE p1]
=============================================================================
