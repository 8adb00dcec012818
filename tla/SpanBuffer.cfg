SPECIFICATION BufferFairSpec
CONSTANTS
    MaxSpans = 2
    SpanBatch = 2
    MaxErrors = 2
    ErrorBatch = 1
    MaxAdded = 3
INVARIANTS
    BufferTypeOK
    InOrder
    OldestFirst
PROPERTIES
    LosesOnlyWhenFull
    AllIsSent
CHECK_DEADLOCK FALSE
