SPECIFICATION FairSpec
CONSTANTS
    Replicas = {r1, r2}
    Acquirers = {a1}
    Direct = {}
    Handlers = {h1}
    Threshold = 2
PROPERTY EveryReplicaRecovers
