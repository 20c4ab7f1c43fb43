\* A bucketed table, and filters on the column it is bucketed by.
CONSTANTS
    Columns <- MCColumns
    TypeOf <- MCTypeOf
    Records <- MCRecords
    FirstSchema <- MCFirstSchema
    Specs <- MCBucketed
    None = None
    Hash <- MCHash
    MaxWrites = 3
    MaxRows = 2
    MaxColumns = 5
    MaxFailures = 1
SPECIFICATION Spec
INVARIANTS HiddenPartitioning
CHECK_DEADLOCK FALSE
