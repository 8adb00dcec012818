SPECIFICATION Spec
CONSTANTS
    Recs = {r1, r2, r3}
    NoRec = none
    Contexts = {x1, x2}
    Lines = {l1, l2}
    Budget = 1
    MaxEpoch = 4
SYMMETRY Symmetry
INVARIANTS
    BudgetKept
    CompleteUnlessPartial
    DisabledIsDirty
PROPERTY SummaryIsFinal
CHECK_DEADLOCK FALSE
