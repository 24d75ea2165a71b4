SPECIFICATION FairSpec
CONSTANTS
    w1 = w1
    w2 = w2
    e1 = e1
    Experiments = {e1}
    Workers = {w1, w2}
    Vqe = {e1}
    Malformed = {}
    Poison = {}
    MaxRetries = 1
    MaxWaits = 1
    MaxWorkerFaults = 1
    MaxApiFaults = 0
    Durable = TRUE
    Ambiguous = FALSE
    NoMessage = NoMessage
    NoRecord = NoRecord
    NoResult = NoResult
PROPERTIES
    OutcomeIsFinal
CHECK_DEADLOCK FALSE
