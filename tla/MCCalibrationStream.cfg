SPECIFICATION Spec
CONSTANTS
    b1 = b1
    Backends = {b1}
    Rates = {0, 1, 4}
    Threshold = 1
    BreachStreak = 2
    RecoveryStreak = 2
    DriftThreshold = 1
    DriftBreachStreak = 2
    DriftRecoveryStreak = 1
    RecentMax = 2
    MaxEvents = 4
    MaxWindows = 2
    MaxFaults = 1
INVARIANTS
    TablesFollowHistory
    TransitionsAccounted
CHECK_DEADLOCK FALSE
