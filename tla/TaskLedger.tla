------------------------------ MODULE TaskLedger ------------------------------
(* What the task path promises, without queues, headers or workers: a ledger   *)
(* of experiments.  A task is opened once; while it is open it may be answered *)
(* or parked, more than once; it closes only after it was answered or parked,  *)
(* and a closed task never opens again.                                        *)
CONSTANT Tasks

VARIABLES open, answered, parked

vars == <<open, answered, parked>>

Init == open = {} /\ answered = {} /\ parked = {}

Open(t) ==
    /\ t \notin open \cup answered \cup parked
    /\ open' = open \cup {t}
    /\ UNCHANGED <<answered, parked>>

Answer(t) ==
    /\ t \in open
    /\ answered' = answered \cup {t}
    /\ UNCHANGED <<open, parked>>

Park(t) ==
    /\ t \in open
    /\ parked' = parked \cup {t}
    /\ UNCHANGED <<open, answered>>

Close(t) ==
    /\ t \in open
    /\ t \in answered \cup parked
    /\ open' = open \ {t}
    /\ UNCHANGED <<answered, parked>>

Next == \E t \in Tasks : Open(t) \/ Answer(t) \/ Park(t) \/ Close(t)

Spec == Init /\ [][Next]_vars
===============================================================================
