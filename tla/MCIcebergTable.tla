----------------------------- MODULE MCIcebergTable -----------------------------
(* Small instances of IcebergTable for TLC.                                     *)
EXTENDS IcebergTable, TLC

Symmetry == Permutations(Clients) \cup Permutations(Partitions)

===============================================================================
