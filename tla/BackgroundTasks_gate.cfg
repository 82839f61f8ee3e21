SPECIFICATION FairSpec
CONSTANTS
    Ops = {o1, o2, o3}
    Tasks = {t1}
INVARIANTS
    CountMatchesHolders
    NoLostWakeUp
    GateHolds
    NothingSpawnedBehindShutdown
PROPERTY NotifiedBehindClosedGate
