SPECIFICATION FairSpec
CONSTANTS
    c1 = c1
    c2 = c2
    Callers = {c1, c2}
    MaxCalls = 3
    Initial = 1
    Longest = 2
    Factor = 2
    Timeout = 3
    MaxRetries = 1
    Threshold = 2
    ResetAfter = 1
INVARIANTS
    WaitBounded
    OpenIsJustified
    AbandonedJobsStop
    ResultsAreReal
PROPERTIES
    EveryWaitEnds
CHECK_DEADLOCK FALSE
