\* The query ends anywhere and may be started again; Kafka removes events, read or
\* not; some records do not parse.
CONSTANTS
    o1 = o1  o2 = o2  p1 = p1  p2 = p2
    Orders = {o1,o2}
    Partitions = {p1,p2}
    PartitionOf <- OnePartition
    Events <- FewEvents
    NoOrder = NoOrder
    NoRow = NoRow
    MaxOffsetsPerTrigger = 2
    StartingLatest = TRUE
    Retention = TRUE
    MaxLog = 2
    MaxCrashes = 1
SPECIFICATION Spec
INVARIANTS TypeOK BothNewest
PROPERTIES NeverOlder CowIsView MorIsView EveryEventCommitted
CHECK_DEADLOCK FALSE
