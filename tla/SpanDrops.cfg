SPECIFICATION BufferSpec
CONSTANTS
    MaxSpans = 2
    SpanBatch = 2
    MaxErrors = 1
    ErrorBatch = 1
    MaxAdded = 4
INVARIANT DropsCounted
CHECK_DEADLOCK FALSE
