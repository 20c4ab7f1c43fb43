SPECIFICATION Spec
CONSTANTS
    Clients = {c1, c2}
    TableIds = {t1, t2}
    Changes = {x, y}
    MaxVersion = 2
    PurgeArgs = {FALSE}
    ObjectStore = TRUE
    SingleWriter = TRUE
    StorageErrors = FALSE
    None = None
    Truncated = Truncated
    Garbled = Garbled
PROPERTIES TableUuidFixed
CHECK_DEADLOCK FALSE
