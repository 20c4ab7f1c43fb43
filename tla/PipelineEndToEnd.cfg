\* The producer is started twice while the job reads, fails and goes on.
CONSTANTS
    p1 = p1  p2 = p2
    Partitions = {p1, p2}
    PartitionOf <- MCPartitionOf
    Total = 2
    MaxSeen = 2
    QueueLimit = 1
    MaxClock = 1
    MaxRuns = 1
    NoOrder = NoOrder
    NoRow = NoRow
    MaxOffsetsPerTrigger = 2
    StartingLatest = FALSE
    MaxLog = 4
    MaxCrashes = 1
SPECIFICATION PipelineSpec
INVARIANTS TypeOK MemoryMatchesTopic TablesMatchMemory
PROPERTIES Exits
CHECK_DEADLOCK FALSE
