SPECIFICATION FairSpec
CONSTANTS
    Replicas = {r1}
    Acquirers = {a1}
    Direct = {d1}
    Handlers = {h1, h2}
    Threshold = 2
INVARIANTS
    TypeOK
    NoLeftoverFailures
    FlagWriteInEpisode
PROPERTIES
    CutsOver
    EveryTaskEnds
    SignalAnswered
