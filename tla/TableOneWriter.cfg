SPECIFICATION Spec
CONSTANTS
    Clients = {c1, c2}
    TableIds = {t1}
    MaxVersion = 3
    PurgeArgs = {FALSE}
    ObjectStore = FALSE
    SingleWriter = TRUE
    StorageErrors = TRUE
    None = None
    Truncated = Truncated
    Garbled = Garbled
    Partitions = {p1, p2}
    MaxClock = 2
    MaxFailures = 1
    MaxFiles = 3
    UniqueMillis = TRUE
SYMMETRY Symmetry
INVARIANTS NothingDangles
PROPERTIES RefinesTimeTravel
CHECK_DEADLOCK FALSE
