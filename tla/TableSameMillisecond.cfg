SPECIFICATION Spec
CONSTANTS
    Clients = {c1, c2}
    TableIds = {t1}
    MaxVersion = 3
    PurgeArgs = {}
    ObjectStore = TRUE
    SingleWriter = FALSE
    StorageErrors = FALSE
    None = None
    Truncated = Truncated
    Garbled = Garbled
    Partitions = {p1}
    MaxClock = 2
    MaxFailures = 0
    MaxFiles = 3
    UniqueMillis = FALSE
INVARIANTS SnapshotsImmutable
CHECK_DEADLOCK FALSE
