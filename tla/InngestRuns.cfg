SPECIFICATION Spec
CONSTANTS
    MaxTables = 5
    BatchSize = 2
    MaxFaults = 2
    MaxRows = 1
INVARIANTS
    TypeOK
    RowTellsOutcome
    ToolRunsOnce
    SuccessIsComplete
    HarvestsItsJob
PROPERTIES
    EveryJobCloses
CHECK_DEADLOCK FALSE
