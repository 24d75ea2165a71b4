SPECIFICATION IndexSpec
CONSTANTS
    e1 = e1
    e2 = e2
    Ids = {e1, e2}
    Durable = TRUE
    Ambiguous = FALSE
    MaxFaults = 2
    NoRecord = NoRecord
    NoResult = NoResult
INVARIANTS
    IndexFollowsEvents
    NoUnknownResult
    NoLostUpdate
    EventsMatchStore
    AnswersAccounted
PROPERTIES
    AnswersBecomeSearchable
CHECK_DEADLOCK FALSE
