SPECIFICATION Spec
CONSTANTS
    Calls = {c1, c2}
    Probes = {p1}
    Threshold = 2
    Recovery = 2
    FailureCap = 3
    Conditions = {"up", "down", "badkey"}
INVARIANT OneTrial
