SPECIFICATION Spec
CONSTANTS
    w1 = w1
    w2 = w2
    t1 = t1
    t2 = t2
    Tasks = {t1, t2}
    Workers = {w1, w2}
    Vqe = {t1}
    Malformed = {t2}
    Poison = {t1}
    MaxRetries = 2
    MaxWaits = 1
    MaxFaults = 1
    NoMessage = NoMessage
SYMMETRY WorkerSymmetry
INVARIANTS
    TypeOK
    NoTaskLost
    AckHasSuccessor
    HeadersBounded
    RetriesArePaid
    DeadLetterJustified
    ExecutionsArePaid
PROPERTIES
    LedgerSpec
CHECK_DEADLOCK FALSE
