SPECIFICATION Spec
CONSTANTS
    Keys = {k1}
    CanaryKey = canary
    MaxGrants = 2
    MaxDoubts = 0
INVARIANT FinalMinuteNotLost
CHECK_DEADLOCK FALSE
