----------------------------- MODULE WaitForResult -----------------------------
(* The hardware/software synchronisation primitive: concurrent callers submit  *)
(* one job after another and wait for each (services/quantum-core/             *)
(* quantum_core/sync/polling.py), sharing a CircuitBreaker, on a backend that  *)
(* runs jobs in tasks of its own (backends/mock_hw_backend.py).                *)
(*                                                                             *)
(* Every call to the backend is an await; time passes in ticks, and only while *)
(* all callers sleep: a call takes less than a tick.  The measured counts are  *)
(* left out.                                                                   *)
EXTENDS Naturals, FiniteSetsExt

CONSTANTS
    Callers,     \* coroutines that submit a job and wait for it
    MaxCalls,    \* bound: calls of wait_for_result
    Initial,     \* PollingConfig.initial_interval_s
    Longest,     \* PollingConfig.max_interval_s
    Factor,      \* PollingConfig.backoff_factor
    Timeout,     \* PollingConfig.timeout_s
    MaxRetries,  \* PollingConfig.max_retries_on_transient_error
    Threshold,   \* CircuitBreaker's failure_threshold
    ResetAfter   \* CircuitBreaker's reset_after_s

ASSUME WaitAssumption ==
    /\ MaxCalls \in Nat
    /\ {Initial, Longest, Factor, Timeout, MaxRetries, Threshold, ResetAfter} \subseteq Nat \ {0}
    /\ Initial <= Longest

VARIABLES
    job,        \* the backend's record of each caller's latest job
    pc,         \* where each caller is
    interval,   \* its next sleep
    asleep,     \* ticks left of this one
    elapsed,    \* ticks since it called
    retries,    \* transient_retries
    calls,      \* calls so far, up to MaxCalls
    cancelled,  \* its CancellationToken
    failures,   \* the breaker's _consecutive_failures
    openFor,    \* ticks until the breaker half-opens; Closed: _opened_at is None
    streak      \* history: failures recorded since the last success

callerVars == <<pc, interval, asleep, elapsed, retries, cancelled>>
breakerVars == <<failures, openFor, streak>>
vars == <<job, callerVars, breakerVars, calls>>

Closed == ResetAfter + 1
Returned == {"result", "bad_run"}
Raised == {"unavailable", "timeout", "cancelled", "error"}
Done == Returned \cup Raised
Ended == {"completed", "failed", "transient", "cancelled"}

TypeOK ==
    /\ job \in [Callers -> {"none", "queued", "running"} \cup Ended]
    /\ pc \in [Callers -> {"new", "submitted", "top", "poll", "fetch", "sleep"} \cup Done]
    /\ interval \in [Callers -> Initial .. Longest]
    /\ asleep \in [Callers -> 0 .. Longest]
    /\ elapsed \in [Callers -> Nat]
    /\ retries \in [Callers -> 0 .. MaxRetries + 1]
    /\ cancelled \in [Callers -> BOOLEAN]
    /\ calls \in 0 .. MaxCalls
    /\ failures \in Nat
    /\ openFor \in 0 .. Closed
    /\ streak \in Nat

Init ==
    /\ job = [c \in Callers |-> "none"]
    /\ pc = [c \in Callers |-> "new"]
    /\ interval = [c \in Callers |-> Initial]
    /\ asleep = [c \in Callers |-> 0]
    /\ elapsed = [c \in Callers |-> 0]
    /\ retries = [c \in Callers |-> 0]
    /\ cancelled = [c \in Callers |-> FALSE]
    /\ calls = 0
    /\ failures = 0
    /\ openFor = Closed
    /\ streak = 0

-------------------------------------------------------------------------------
(* CircuitBreaker.                                                             *)

\* Faulty variants, used to test the properties, are named for the definition
\* they precede and the slip; no action uses them.
RecordSuccessClosing ==
    /\ openFor' = Closed
    /\ streak' = 0
    /\ UNCHANGED failures
RecordSuccess ==
    /\ failures' = 0
    /\ openFor' = Closed
    /\ streak' = 0

RecordFailure ==
    /\ failures' = failures + 1
    /\ openFor' = IF failures + 1 >= Threshold THEN ResetAfter ELSE openFor
    /\ streak' = streak + 1

\* is_open, when it lets the caller through: a breaker whose time is over
\* closes, one failure short of the threshold.
HalfOpen ==
    /\ openFor = 0
    /\ openFor' = Closed
    /\ failures' = Threshold - 1
    /\ UNCHANGED streak

-------------------------------------------------------------------------------
(* wait_for_result.                                                            *)

Goto(c, where) == pc' = [pc EXCEPT ![c] = where]

\* backend.submit, before the wait and whatever the breaker says: the caller's
\* first job, or its next one.
Submit(c) ==
    /\ pc[c] \in {"new"} \cup Done
    /\ calls < MaxCalls
    /\ calls' = calls + 1
    /\ job' = [job EXCEPT ![c] = "queued"]
    /\ Goto(c, "submitted")
    /\ interval' = [interval EXCEPT ![c] = Initial]
    /\ elapsed' = [elapsed EXCEPT ![c] = 0]
    /\ retries' = [retries EXCEPT ![c] = 0]
    /\ cancelled' = [cancelled EXCEPT ![c] = FALSE]
    /\ UNCHANGED <<asleep, breakerVars>>

Enter(c) ==
    /\ pc[c] = "submitted"
    /\ \/ /\ openFor = Closed
          /\ Goto(c, "top")
          /\ UNCHANGED breakerVars
       \/ HalfOpen /\ Goto(c, "top")
       \/ /\ openFor \in 1 .. ResetAfter
          /\ Goto(c, "unavailable")
          /\ UNCHANGED breakerVars
    /\ UNCHANGED <<job, interval, asleep, elapsed, retries, cancelled, calls>>

CancelledIfQueued(status) == IF status = "queued" THEN "cancelled" ELSE status
\* MockHardwareBackend.cancel leaves a job that has ended as it is.
Cancelled(status) == IF status \in {"queued", "running"} THEN "cancelled" ELSE status

\* The head of the loop: cancellation, then the timeout, then the poll.
Top(c) ==
    /\ pc[c] = "top"
    /\ IF cancelled[c] \/ elapsed[c] > Timeout
       THEN /\ job' = [job EXCEPT ![c] = Cancelled(@)]
            /\ Goto(c, IF cancelled[c] THEN "cancelled" ELSE "timeout")
       ELSE Goto(c, "poll") /\ UNCHANGED job
    /\ UNCHANGED <<interval, asleep, elapsed, retries, cancelled, breakerVars, calls>>

BackoffUncapped(i) == i * Factor
\* min(interval * backoff_factor, max_interval_s).
Backoff(i) == Min({i * Factor, Longest})

Sleep(c) ==
    /\ Goto(c, "sleep")
    /\ asleep' = [asleep EXCEPT ![c] = interval[c]]
    /\ interval' = [interval EXCEPT ![c] = Backoff(@)]

PollWithoutSleep(c) ==
    /\ pc[c] = "poll"
    /\ \/ job[c] \in {"completed", "failed", "transient"} /\ Goto(c, "fetch")
       \/ job[c] = "cancelled" /\ Goto(c, "cancelled")
       \/ job[c] \in {"queued", "running"} /\ Goto(c, "top")
    /\ UNCHANGED <<job, interval, asleep, elapsed, retries, cancelled, breakerVars, calls>>
\* poll_status answers.
Poll(c) ==
    /\ pc[c] = "poll"
    /\ \/ /\ job[c] \in {"completed", "failed", "transient"}
          /\ Goto(c, "fetch")
          /\ UNCHANGED <<interval, asleep>>
       \/ job[c] = "cancelled" /\ Goto(c, "cancelled") /\ UNCHANGED <<interval, asleep>>
       \/ job[c] \in {"queued", "running"} /\ Sleep(c)
    /\ UNCHANGED <<job, elapsed, retries, cancelled, breakerVars, calls>>

\* Any exception of poll_status ends the wait at once.
PollRaises(c) ==
    /\ pc[c] = "poll"
    /\ RecordFailure
    /\ Goto(c, "error")
    /\ UNCHANGED <<job, interval, asleep, elapsed, retries, cancelled, calls>>

OutcomeUntold(status) == "result"
\* The caller tells the two apart by the result's status.
Outcome(status) == IF status = "completed" THEN "result" ELSE "bad_run"

\* fetch_result answers; a hard failure is a result too, and a success for the
\* breaker.
Fetch(c) ==
    /\ pc[c] = "fetch"
    /\ job[c] \in {"completed", "failed"}
    /\ Goto(c, Outcome(job[c]))
    /\ RecordSuccess
    /\ UNCHANGED <<job, interval, asleep, elapsed, retries, cancelled, calls>>

OutOfRetries(n) == n > MaxRetries

\* It raises TransientBackendError: always for a job that failed retryably, and
\* possibly for one that completed.
FetchTransient(c) ==
    /\ pc[c] = "fetch"
    /\ job[c] \in {"completed", "transient"}
    /\ retries' = [retries EXCEPT ![c] = @ + 1]
    /\ IF OutOfRetries(retries[c] + 1)
       THEN RecordFailure /\ Goto(c, "error") /\ UNCHANGED <<interval, asleep>>
       ELSE Sleep(c) /\ UNCHANGED breakerVars
    /\ UNCHANGED <<job, elapsed, cancelled, calls>>

Wake(c) ==
    /\ pc[c] = "sleep"
    /\ asleep[c] = 0
    /\ Goto(c, "top")
    /\ UNCHANGED <<job, interval, asleep, elapsed, retries, cancelled, breakerVars, calls>>

\* CancellationToken.cancel, from outside.
Cancel(c) ==
    /\ pc[c] \notin Done
    /\ ~cancelled[c]
    /\ cancelled' = [cancelled EXCEPT ![c] = TRUE]
    /\ UNCHANGED <<job, pc, interval, asleep, elapsed, retries, breakerVars, calls>>

-------------------------------------------------------------------------------
(* MockHardwareBackend._run_job: each of its sleeps may end after any time, or *)
(* later than anybody waits.                                                   *)

RunJob(c) ==
    /\ job[c] = "queued"
    /\ job' = [job EXCEPT ![c] = "running"]
    /\ UNCHANGED <<callerVars, breakerVars, calls>>

EndJob(c) ==
    /\ job[c] = "running"
    /\ \E status \in {"completed", "failed", "transient"} : job' = [job EXCEPT ![c] = status]
    /\ UNCHANGED <<callerVars, breakerVars, calls>>

\* A call counts time from its entry to its end.
Waiting(c) == pc[c] \in {"top", "poll", "fetch", "sleep"}

Tick ==
    /\ \A c \in Callers : pc[c] \in {"new"} \cup Done \/ asleep[c] > 0
    /\ \/ \E c \in Callers : pc[c] \notin Done
       \/ openFor \in 1 .. ResetAfter
    /\ asleep' = [c \in Callers |-> IF asleep[c] = 0 THEN 0 ELSE asleep[c] - 1]
    /\ elapsed' = [c \in Callers |-> IF Waiting(c) THEN elapsed[c] + 1 ELSE elapsed[c]]
    /\ openFor' = IF openFor \in 1 .. ResetAfter THEN openFor - 1 ELSE openFor
    /\ UNCHANGED <<job, pc, interval, retries, cancelled, failures, streak, calls>>

-------------------------------------------------------------------------------
Step(c) ==
    \/ Enter(c) \/ Top(c) \/ Poll(c) \/ PollRaises(c)
    \/ Fetch(c) \/ FetchTransient(c) \/ Wake(c)

Next ==
    \/ \E c \in Callers : Submit(c) \/ Step(c) \/ Cancel(c) \/ RunJob(c) \/ EndJob(c)
    \/ Tick

Spec == Init /\ [][Next]_vars

\* Calls return and time passes; the backend owes nothing: a job may hang.
Fairness == WF_vars(Tick) /\ \A c \in Callers : WF_vars(Step(c))

FairSpec == Spec /\ Fairness

-------------------------------------------------------------------------------
(* Properties.                                                                 *)

\* A wait ends at most one longest sleep after its timeout: the deadline is
\* looked at between sleeps only, and the backoff is capped.
WaitBounded == \A c \in Callers : elapsed[c] <= Timeout + Longest

\* The breaker opens only after Threshold failures in a row, counted over all
\* callers, although its own counter is reset when it half-opens and callers
\* that entered earlier go on reporting to it.
OpenIsJustified == openFor # Closed => streak >= Threshold

\* A wait that gave up leaves no job behind that is still going to run, and one
\* that was cancelled never comes back to life: the job's own task looks at the
\* record again after each of its sleeps.
AbandonedJobsStop ==
    \A c \in Callers : pc[c] \in {"timeout", "cancelled"} => job[c] \in Ended

\* What a wait returns is what the backend had: never the outcome of a job that
\* was cancelled or is still running, whichever of the two was first.
ResultsAreReal ==
    \A c \in Callers :
        /\ pc[c] = "result" => job[c] = "completed"
        /\ pc[c] = "bad_run" => job[c] = "failed"
        /\ job[c] = "cancelled" => pc[c] \in {"timeout", "cancelled"}

\* Every call ends, even when its job hangs for ever.
EveryWaitEnds == \A c \in Callers : pc[c] = "submitted" ~> pc[c] \in Done
===============================================================================
