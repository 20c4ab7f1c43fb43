\* Every kind of transform, schema changes and calls that raise half-way.
CONSTANTS
    Columns <- MCColumns
    TypeOf <- MCTypeOf
    Records <- MCRecords
    FirstSchema <- MCFirstSchema
    Specs <- MCSpecs
    None = None
    Hash <- MCHash
    MaxWrites = 3
    MaxRows = 2
    MaxColumns = 5
    MaxFailures = 1
SPECIFICATION Spec
INVARIANTS TypeOK ScanReturnsMeant FilterSelects StatsBoundRows TruncateHoldsRange
PROPERTIES RefinesTimeTravel
CHECK_DEADLOCK FALSE
