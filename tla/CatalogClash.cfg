SPECIFICATION Spec
CONSTANTS
    Clients = {c1, c2}
    TableIds = {t1}
    Changes = {x, y}
    MaxVersion = 2
    PurgeArgs = {}
    ObjectStore = TRUE
    SingleWriter = FALSE
    StorageErrors = FALSE
    None = None
    Truncated = Truncated
    Garbled = Garbled
INVARIANTS SameVersionSameState
CHECK_DEADLOCK FALSE
