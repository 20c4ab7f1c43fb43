\* Every option set of the jobs and every reader; the driver may die once.
CONSTANTS
    k1 = k1  k2 = k2  k3 = k3  p1 = p1  p2 = p2
    Keys = {k1, k2, k3}
    Partitions = {p1, p2}
    PartitionOf <- MCPartitionOf
    Batches <- MCBatches
    Retained = 1
    DeltaCommits = 2
    KeepMin = 2
    KeepMax = 2
    Queries = {"snapshot", "read_optimized", "time_travel"}
    None = None
    MaxInstants = 4
    MaxCrashes = 1
SPECIFICATION Spec
INVARIANTS TypeOK QueriesReadCommits ReadOptimizedLags FailsOutsideWindow
PROPERTIES RefinesAtomicUpserts
CHECK_DEADLOCK FALSE
