SPECIFICATION FairSpec
CONSTANTS
    Dispatches = {d1, d2}
    Codes = {a, b, bad}
    Broken = {bad}
    FirstCode = a
    None = none
    HistoryLags = TRUE
    MaxVersion = 2
    MaxRows = 2
INVARIANTS
    TypeOK
    RunsItsRow
PROPERTY EvictsOnBump
