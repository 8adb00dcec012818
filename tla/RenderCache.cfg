SPECIFICATION Spec
SYMMETRY Symmetry
CONSTANTS
    Requests = {s1, s2}
    Keys = {k1, k2, k3}
    NoKey = NoKey
    NoEntry = NoEntry
    MaxSize = 2
    SweepEvery = 2
    MaxTTL = 2
    MaxRender = 1
    MaxLog = 1
    MaxTime = 5
INVARIANTS
    Bounded
    ShowsRecentData
PROPERTIES
    EvictsOnlyWhenFull
