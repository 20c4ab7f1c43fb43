SPECIFICATION Spec
CONSTANTS
    Clients = {c1, c2}
    TableIds = {t1}
    MaxVersion = 3
    PurgeArgs = {}
    ObjectStore = TRUE
    SingleWriter = FALSE
    StorageErrors = TRUE
    None = None
    Truncated = Truncated
    Garbled = Garbled
    Partitions = {p1}
    MaxClock = 3
    MaxFailures = 0
    MaxFiles = 3
    UniqueMillis = TRUE
SYMMETRY Symmetry
INVARIANTS TypeOK NothingDangles SnapshotsImmutable LineageOrdered
CHECK_DEADLOCK FALSE
