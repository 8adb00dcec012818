SPECIFICATION PFairSpec
CONSTANTS
    Calls = {c1, c2}
    Probes = {}
    Threshold = 2
    Recovery = 2
    FailureCap = 2
    Conditions = {"up", "down"}
    Posters = {s1, s2}
    MaxRestarts = 1
INVARIANTS
    BreakerConsistent
    NoForgedOpening
PROPERTIES
    StillRecoversWhenUp
