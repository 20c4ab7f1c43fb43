SPECIFICATION Spec
CONSTANTS
    Clients = {c1, c2, c3}
    TableIds = {t1}
    Changes = {x, y}
    MaxVersion = 4
    PurgeArgs = {FALSE}
    ObjectStore = FALSE
    SingleWriter = TRUE
    StorageErrors = TRUE
    None = None
    Truncated = Truncated
    Garbled = Garbled
SYMMETRY Symmetry
INVARIANTS PointerReadable SameVersionSameState LoadedVersionsStay
PROPERTIES RefinesHistory
CHECK_DEADLOCK FALSE
