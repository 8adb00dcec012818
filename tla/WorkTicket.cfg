SPECIFICATION Spec
CONSTANTS
    Keys = {k1, k2}
    CanaryKey = canary
    MaxGrants = 2
    MaxDoubts = 2
INVARIANTS
    Exact
    CanaryNeverWritten
PROPERTY KeepsBooks
CHECK_DEADLOCK FALSE
