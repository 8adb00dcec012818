SPECIFICATION Spec
SYMMETRY Symmetry
CONSTANTS
    Tasks = {t1, t2}
    Tools = {a, b, fire, log}
    Fire = fire
    ExecSkip = {log}
    None = None
    MaxDepth = 2
    MaxPending = 1
INVARIANTS
    EdgesAreReal
PROPERTIES
    EveryCallIsSeen
