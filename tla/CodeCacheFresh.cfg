SPECIFICATION Spec
CONSTANTS
    Dispatches = {d1}
    Codes = {a, b}
    Broken = {}
    FirstCode = a
    None = none
    HistoryLags = FALSE
    MaxVersion = 2
    MaxRows = 2
INVARIANT FreshCode
