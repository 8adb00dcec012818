SPECIFICATION FairSpec
CONSTANTS
    Calls = {c1, c2, c3}
    Probes = {p1}
    Threshold = 3
    Recovery = 2
    FailureCap = 4
    Conditions = {"up", "down", "badkey"}
INVARIANTS
    TypeOK
    BreakerConsistent
PROPERTIES
    RecoversWhenUp
    FailsFastWhenDown
    BadKeyNeverCutsOff
