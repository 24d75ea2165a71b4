SPECIFICATION FairSpec
CONSTANTS
    w1 = w1
    w2 = w2
    e1 = e1
    Experiments = {e1}
    Workers = {w1}
    Vqe = {e1}
    Malformed = {}
    Poison = {e1}
    MaxRetries = 1
    MaxWaits = 1
    MaxWorkerFaults = 1
    MaxApiFaults = 1
    Durable = TRUE
    Ambiguous = TRUE
    NoMessage = NoMessage
    NoRecord = NoRecord
    NoResult = NoResult
INVARIANTS
    NoExperimentLost
    OutcomeHasSource
PROPERTIES
    RevokedOnlyByDisruption
    EventuallyAnswered
    EventuallyFinal
CHECK_DEADLOCK FALSE
