SPECIFICATION FairSpec
CONSTANTS
    w1 = w1
    w2 = w2
    t1 = t1
    Workers = {w1, w2}
    Tasks = {t1}
    Interval = 2
    CycleTime = 1
    Freshness = 5
    WaitDelay = 2
    MaxWaits = 1
    MaxFaults = 2
    NoRow = NoRow
    NoTask = NoTask
INVARIANTS
    FreshWhileHealthy
    ExhaustionNeedsFailure
    NoLostWakeup
    LagBounded
PROPERTIES
    EveryVqeDecided
