SPECIFICATION Spec
CONSTANTS
    MaxTables = 5
    BatchSize = 2
    MaxFaults = 2
    MaxRows = 1
INVARIANTS
    MonitorWaits
CHECK_DEADLOCK FALSE
