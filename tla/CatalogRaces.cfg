\* Unsynchronised clients of an object store, and every operation: a table is dropped and
\* created again under a stalled writer, purges fail half-way, replies get lost.
SPECIFICATION Spec
CONSTANTS
    Clients = {c1, c2}
    TableIds = {t1, t2}
    Changes = {x}
    MaxVersion = 2
    PurgeArgs = {FALSE, TRUE}
    ObjectStore = TRUE
    SingleWriter = FALSE
    StorageErrors = TRUE
    None = None
    Truncated = Truncated
    Garbled = Garbled
SYMMETRY Symmetry
INVARIANTS TypeOK VersionCountsChanges
PROPERTIES PurgeLeavesOnlyNew
CHECK_DEADLOCK FALSE
