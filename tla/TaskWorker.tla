------------------------------ MODULE TaskWorker ------------------------------
(* The orchestrator's task path: the RabbitMQ queues it declares, the worker   *)
(* processes that consume `experiments` one message at a time                  *)
(* (services/orchestrator/app/worker.py), the crash-recovery policy            *)
(* (retry_policy.py) and the wait queue of the calibration gate                *)
(* (calibration_wait.py).                                                      *)
(*                                                                             *)
(* A step is the code between two awaits: a worker may die, or lose its        *)
(* connection, at every await.  Outside this module are the API that publishes *)
(* tasks and takes results, the calibration loop that takes the trigger, and   *)
(* the content of the calibration snapshot: the gate may observe any of the    *)
(* policy's decisions.                                                         *)
EXTENDS Naturals, SequencesExt

CONSTANTS
    Tasks,       \* experiment ids; one message is published for each
    Workers,     \* worker.py processes
    Vqe,         \* tasks whose algorithm is "vqe": they pass the gate
    Malformed,   \* tasks whose body ExperimentTask.from_json rejects
    Poison,      \* tasks whose execution may kill the process, every time
    MaxRetries,  \* retry_policy.MAX_RETRIES
    MaxWaits,    \* CALIBRATION_MAX_WAIT_ATTEMPTS
    MaxFaults,   \* bound: crashes and connection losses, beyond Poison's
    NoMessage    \* "this worker holds no message"

\* A message: the task it carries, the x-retry-count and
\* x-calibration-wait-count headers, and the broker's redelivered flag.
Message == [task : Tasks, retry : Nat, wait : Nat, redelivered : BOOLEAN]

ASSUME TaskWorkerAssumption ==
    /\ Vqe \subseteq Tasks
    /\ Malformed \subseteq Tasks
    /\ Poison \subseteq Tasks
    /\ MaxRetries \in Nat
    /\ MaxWaits \in Nat
    /\ MaxFaults \in Nat
    /\ NoMessage \notin Message

VARIABLES
    taskQ,       \* queue `experiments`: a sequence of messages, head first
    waitQ,       \* queue `experiments.waiting-for-calibration`
    dlq,         \* tasks that have reached `experiments.dlq`
    results,     \* queue `experiment-results`
    trigger,     \* calibration_trigger of each worker process
    pc,          \* where each worker is
    held,        \* the message each worker is handling
    verdict,     \* the terminal status the worker is about to publish
    lost,        \* its connection dropped since `held` was delivered
    published,   \* history: tasks published by the API
    answered,    \* history: tasks for which a terminal result was published
    attempts,    \* history: executions begun, per task
    disruptions, \* history: unacked deliveries given back, per task
    faults       \* crashes and connection losses so far, up to MaxFaults

brokerVars == <<taskQ, waitQ, dlq, results>>
workerVars == <<trigger, pc, held, verdict, lost>>
historyVars == <<published, answered, attempts, disruptions, faults>>
vars == <<brokerVars, workerVars, historyVars>>

Handling == {"deadletter", "backoff", "gate", "announce", "reschedule",
             "execute", "answer", "ack"}
Terminal == {"completed", "failed"}
Decisions == {"allow", "wait_for_calibration", "reject"}

NewMessage(t) == [task |-> t, retry |-> 0, wait |-> 0, redelivered |-> FALSE]

TypeOK ==
    /\ taskQ \in Seq(Message)
    /\ waitQ \in Seq(Message)
    /\ dlq \subseteq Tasks
    /\ results \in Seq([task : Tasks, status : Terminal \cup {"waiting_for_calibration"}])
    /\ trigger \in [Workers -> BOOLEAN]
    /\ pc \in [Workers -> {"idle", "down"} \cup Handling]
    /\ held \in [Workers -> Message \cup {NoMessage}]
    /\ verdict \in [Workers -> Terminal \cup {"none"}]
    /\ lost \in [Workers -> BOOLEAN]
    /\ published \subseteq Tasks
    /\ answered \subseteq Tasks
    /\ attempts \in [Tasks -> Nat]
    /\ disruptions \in [Tasks -> Nat]
    /\ faults \in Nat

Init ==
    /\ taskQ = <<>>
    /\ waitQ = <<>>
    /\ dlq = {}
    /\ results = <<>>
    /\ trigger = [w \in Workers |-> FALSE]
    /\ pc = [w \in Workers |-> "idle"]
    /\ held = [w \in Workers |-> NoMessage]
    /\ verdict = [w \in Workers |-> "none"]
    /\ lost = [w \in Workers |-> FALSE]
    /\ published = {}
    /\ answered = {}
    /\ attempts = [t \in Tasks |-> 0]
    /\ disruptions = [t \in Tasks |-> 0]
    /\ faults = 0

-------------------------------------------------------------------------------
(* The surroundings of a worker: producer, result consumer, calibration loop   *)
(* and the broker's own expiry of the wait queue.                              *)

\* deps.publish_task: the API's persistent publish to `experiments`.
PublishTask(t) ==
    /\ t \notin published
    /\ published' = published \cup {t}
    /\ taskQ' = Append(taskQ, NewMessage(t))
    /\ UNCHANGED <<waitQ, dlq, results, workerVars, answered, attempts, disruptions, faults>>

\* The API's consumer takes the oldest result.
TakeResult ==
    /\ results # <<>>
    /\ results' = Tail(results)
    /\ UNCHANGED <<taskQ, waitQ, dlq, workerVars, historyVars>>

\* The calibration loop of the same process wakes and clears the event.
TakeTrigger(w) ==
    /\ trigger[w]
    /\ trigger' = [trigger EXCEPT ![w] = FALSE]
    /\ UNCHANGED <<brokerVars, pc, held, verdict, lost, historyVars>>

\* The head of the wait queue outlives its TTL: the broker dead-letters it to
\* the task queue with its headers, as a fresh delivery.
Expire ==
    /\ waitQ # <<>>
    /\ waitQ' = Tail(waitQ)
    /\ taskQ' = Append(taskQ, [Head(waitQ) EXCEPT !.redelivered = FALSE])
    /\ UNCHANGED <<dlq, results, workerVars, historyVars>>

-------------------------------------------------------------------------------
(* Handling one message.                                                       *)

\* handle_message parses the body, then the gate is for VQE only.
FreshStep(m) ==
    IF m.task \in Malformed THEN "deadletter"
    ELSE IF m.task \in Vqe THEN "gate" ELSE "execute"

\* Faulty variants of the definitions, used to test the properties, carry the
\* name of the definition and of the slip; no action uses them.
FirstStepOneMore(m) ==
    IF ~m.redelivered THEN FreshStep(m)
    ELSE IF m.retry > MaxRetries THEN "deadletter" ELSE "backoff"
FirstStepOneLess(m) ==
    IF ~m.redelivered THEN FreshStep(m)
    ELSE IF m.retry + 1 >= MaxRetries THEN "deadletter" ELSE "backoff"
FirstStepDropping(m) ==
    IF ~m.redelivered THEN FreshStep(m)
    ELSE IF m.retry >= MaxRetries THEN "ack" ELSE "backoff"

\* What the worker does first with a delivery: handle_redelivery looks at the
\* broker's flag before handle_message ever parses the body.
FirstStep(m) ==
    IF ~m.redelivered THEN FreshStep(m)
    ELSE IF m.retry >= MaxRetries THEN "deadletter" ELSE "backoff"

Begin(t, step) ==
    attempts' = IF step = "execute" THEN [attempts EXCEPT ![t] = @ + 1] ELSE attempts

\* prefetch_count=1: the broker delivers only to a worker that holds nothing.
Deliver(w) ==
    /\ pc[w] = "idle"
    /\ taskQ # <<>>
    /\ taskQ' = Tail(taskQ)
    /\ held' = [held EXCEPT ![w] = Head(taskQ)]
    /\ pc' = [pc EXCEPT ![w] = FirstStep(Head(taskQ))]
    /\ Begin(Head(taskQ).task, FirstStep(Head(taskQ)))
    /\ UNCHANGED <<waitQ, dlq, results, trigger, verdict, lost,
                   published, answered, disruptions, faults>>

\* send_to_dead_letter_queue.
PublishDeadLetter(w) ==
    /\ pc[w] = "deadletter"
    /\ dlq' = dlq \cup {held[w].task}
    /\ pc' = [pc EXCEPT ![w] = "ack"]
    /\ UNCHANGED <<taskQ, waitQ, results, trigger, held, verdict, lost, historyVars>>

RetryCopyTwice(m) == [m EXCEPT !.retry = @ + 2, !.redelivered = FALSE]
RetryCopy(m) == [m EXCEPT !.retry = @ + 1, !.redelivered = FALSE]

PublishRetryForgotten(w) ==
    /\ pc[w] = "backoff"
    /\ pc' = [pc EXCEPT ![w] = "ack"]
    /\ UNCHANGED <<brokerVars, trigger, held, verdict, lost, historyVars>>

\* schedule_retry: after the backoff sleep, a fresh copy with the retry header
\* incremented goes to the tail of the task queue.
PublishRetry(w) ==
    /\ pc[w] = "backoff"
    /\ taskQ' = Append(taskQ, RetryCopy(held[w]))
    /\ pc' = [pc EXCEPT ![w] = "ack"]
    /\ UNCHANGED <<waitQ, dlq, results, trigger, held, verdict, lost, historyVars>>

\* calibration_store.get, then CalibrationPolicy.evaluate on what it returned.
\* Only the WAIT branch with waits left sets the calibration trigger.
Gate(w, decision) ==
    LET step == CASE decision = "allow"                              -> "execute"
                  [] decision = "reject"                             -> "answer"
                  [] OTHER -> IF held[w].wait >= MaxWaits THEN "answer" ELSE "announce"
    IN  /\ pc[w] = "gate"
        /\ pc' = [pc EXCEPT ![w] = step]
        /\ verdict' = [verdict EXCEPT ![w] = IF step = "answer" THEN "failed" ELSE @]
        /\ trigger' = [trigger EXCEPT ![w] = @ \/ step = "announce"]
        /\ Begin(held[w].task, step)
        /\ UNCHANGED <<brokerVars, held, lost, published, answered, disruptions, faults>>

PublishWaiting(w) ==
    /\ pc[w] = "announce"
    /\ results' = Append(results, [task |-> held[w].task,
                                   status |-> "waiting_for_calibration"])
    /\ pc' = [pc EXCEPT ![w] = "reschedule"]
    /\ UNCHANGED <<taskQ, waitQ, dlq, trigger, held, verdict, lost, historyVars>>

\* calibration_wait.reschedule: a copy with the wait header incremented.
WaitCopyUncounted(m) == [m EXCEPT !.redelivered = FALSE]
WaitCopy(m) == [m EXCEPT !.wait = @ + 1, !.redelivered = FALSE]
RescheduleForgotten(w) ==
    /\ pc[w] = "reschedule"
    /\ pc' = [pc EXCEPT ![w] = "ack"]
    /\ UNCHANGED <<brokerVars, trigger, held, verdict, lost, historyVars>>
Reschedule(w) ==
    /\ pc[w] = "reschedule"
    /\ waitQ' = Append(waitQ, WaitCopy(held[w]))
    /\ pc' = [pc EXCEPT ![w] = "ack"]
    /\ UNCHANGED <<taskQ, dlq, results, trigger, held, verdict, lost, historyVars>>

ExecuteUnrecorded(w) ==
    /\ pc[w] = "execute"
    /\ pc' = [pc EXCEPT ![w] = "answer"]
    /\ UNCHANGED <<brokerVars, trigger, held, verdict, lost, historyVars>>
ExecuteRetryingFailures(w) ==
    /\ pc[w] = "execute"
    /\ \/ /\ verdict' = [verdict EXCEPT ![w] = "completed"]
          /\ pc' = [pc EXCEPT ![w] = "answer"]
       \/ pc' = [pc EXCEPT ![w] = "backoff"] /\ UNCHANGED verdict
    /\ UNCHANGED <<brokerVars, trigger, held, lost, historyVars>>

\* execute_task returns, or raises: every Exception becomes status "failed".
Execute(w) ==
    /\ pc[w] = "execute"
    /\ \E status \in Terminal : verdict' = [verdict EXCEPT ![w] = status]
    /\ pc' = [pc EXCEPT ![w] = "answer"]
    /\ UNCHANGED <<brokerVars, trigger, held, lost, historyVars>>

PublishResultThenWaiting(w) ==
    /\ pc[w] = "answer"
    /\ results' = Append(results, [task |-> held[w].task, status |-> verdict[w]])
    /\ answered' = answered \cup {held[w].task}
    /\ verdict' = [verdict EXCEPT ![w] = "none"]
    /\ pc' = [pc EXCEPT ![w] = IF held[w].task \in Vqe THEN "announce" ELSE "ack"]
    /\ UNCHANGED <<taskQ, waitQ, dlq, trigger, held, lost,
                   published, attempts, disruptions, faults>>

\* publish_result_message with a terminal status.
PublishResult(w) ==
    /\ pc[w] = "answer"
    /\ results' = Append(results, [task |-> held[w].task, status |-> verdict[w]])
    /\ answered' = answered \cup {held[w].task}
    /\ verdict' = [verdict EXCEPT ![w] = "none"]
    /\ pc' = [pc EXCEPT ![w] = "ack"]
    /\ UNCHANGED <<taskQ, waitQ, dlq, trigger, held, lost,
                   published, attempts, disruptions, faults>>

\* message.ack(): the broker forgets the delivery.
Ack(w) ==
    /\ pc[w] = "ack"
    /\ ~lost[w]
    /\ pc' = [pc EXCEPT ![w] = "idle"]
    /\ held' = [held EXCEPT ![w] = NoMessage]
    /\ UNCHANGED <<brokerVars, trigger, verdict, lost, historyVars>>

-------------------------------------------------------------------------------
(* Failures.                                                                   *)

\* main() ends: the process's memory, the trigger included, is gone.
Exit(w) ==
    /\ pc' = [pc EXCEPT ![w] = "down"]
    /\ held' = [held EXCEPT ![w] = NoMessage]
    /\ verdict' = [verdict EXCEPT ![w] = "none"]
    /\ lost' = [lost EXCEPT ![w] = FALSE]
    /\ trigger' = [trigger EXCEPT ![w] = FALSE]

\* The broker puts the unacked delivery back at the head, marked redelivered.
Requeue(w) ==
    /\ taskQ' = <<[held[w] EXCEPT !.redelivered = TRUE]>> \o taskQ
    /\ disruptions' = [disruptions EXCEPT ![held[w].task] = @ + 1]

\* A fault nobody asked for, within the bound.
Fault(w) ==
    /\ pc[w] \in Handling
    /\ ~lost[w]
    /\ faults < MaxFaults
    /\ faults' = faults + 1

\* The process dies before the ack: killed, or an exception no handler catches
\* (the snapshot read, a publish) leaves main().
Crash(w) ==
    /\ Fault(w)
    /\ Requeue(w)
    /\ Exit(w)
    /\ UNCHANGED <<waitQ, dlq, results, published, answered, attempts>>

\* Executing this task kills the process, as often as it likes.
PoisonCrash(w) ==
    /\ pc[w] = "execute"
    /\ held[w].task \in Poison
    /\ ~lost[w]
    /\ Requeue(w)
    /\ Exit(w)
    /\ UNCHANGED <<waitQ, dlq, results, published, answered, attempts, faults>>

\* The connection drops while the handler runs on: the broker gives the message
\* to someone else, and connect_robust reopens the channel for the handler.
Disconnect(w) ==
    /\ Fault(w)
    /\ Requeue(w)
    /\ lost' = [lost EXCEPT ![w] = TRUE]
    /\ UNCHANGED <<waitQ, dlq, results, trigger, pc, held, verdict,
                   published, answered, attempts>>

\* A handler whose delivery is gone dies: at any await, and at the latest when
\* its ack raises on the closed channel.
ExitDisconnected(w) ==
    /\ pc[w] \in Handling
    /\ lost[w]
    /\ Exit(w)
    /\ UNCHANGED <<brokerVars, historyVars>>

Restart(w) ==
    /\ pc[w] = "down"
    /\ pc' = [pc EXCEPT ![w] = "idle"]
    /\ UNCHANGED <<brokerVars, trigger, held, verdict, lost, historyVars>>

-------------------------------------------------------------------------------
Handle(w) ==
    \/ PublishDeadLetter(w)
    \/ PublishRetry(w)
    \/ \E d \in Decisions : Gate(w, d)
    \/ PublishWaiting(w)
    \/ Reschedule(w)
    \/ Execute(w)
    \/ PublishResult(w)
    \/ Ack(w)

Fail(w) == Crash(w) \/ PoisonCrash(w) \/ Disconnect(w) \/ ExitDisconnected(w)

Next ==
    \/ \E t \in Tasks : PublishTask(t)
    \/ TakeResult
    \/ Expire
    \/ \E w \in Workers : TakeTrigger(w) \/ Deliver(w) \/ Handle(w) \/ Fail(w) \/ Restart(w)

Spec == Init /\ [][Next]_vars

\* What the code's scheduling guarantees: a running worker goes on to its next
\* await (what the await of an execution needs to end is Execution's
\* EveryTaskEnds), a handler that lost its connection fails at its ack, and the
\* broker expires the wait queue.  Nothing restarts a process: no supervisor is
\* configured in the repository, so Restart is not fair.
Fairness ==
    /\ WF_vars(Expire)
    /\ \A w \in Workers :
          /\ WF_vars(Deliver(w) \/ Handle(w))
          /\ WF_vars(ExitDisconnected(w))

FairSpec == Spec /\ Fairness

-------------------------------------------------------------------------------
(* Properties.                                                                 *)

Settled(t) == t \in answered \cup dlq
Rank(m) == m.retry + m.wait

\* The copies the broker still answers for: queued, or delivered on a live
\* connection and not acked.
Owned(w) == pc[w] \in Handling /\ ~lost[w]
LiveCopies ==
    ToSet(taskQ) \cup ToSet(waitQ) \cup {held[w] : w \in {v \in Workers : Owned(v)}}

\* Every published task has an answer, or is in the dead-letter queue, or the
\* broker still holds a copy of it: whatever crash hits which await of
\* handle_message and schedule_retry, publishing comes before acking.
NoTaskLost ==
    \A t \in published : Settled(t) \/ \E m \in LiveCopies : m.task = t

\* The task is settled, or a later copy of it is with the broker.
Succeeded(h) ==
    Settled(h.task) \/ \E m \in LiveCopies : m.task = h.task /\ Rank(m) > Rank(h)

\* Why an ack never loses a task: a worker about to ack has settled the task or
\* left a copy of a strictly higher rank (retry + wait count) with the broker,
\* so two workers about to ack can never rely on each other.
AckHasSuccessor ==
    \A w \in Workers : (pc[w] = "ack" /\ ~lost[w]) => Succeeded(held[w])

\* All the copies of tasks there are, those of disconnected handlers included.
Copies ==
    ToSet(taskQ) \cup ToSet(waitQ) \cup {held[w] : w \in {v \in Workers : pc[v] \in Handling}}

\* What a worker knows about its message at each point of the handler.
ControlOK ==
    \A w \in Workers :
        /\ pc[w] \in Handling <=> held[w] \in Message
        /\ pc[w] \notin Handling => ~lost[w]
        /\ pc[w] = "answer" => verdict[w] \in Terminal
        /\ pc[w] = "deadletter" =>
              \/ held[w].task \in Malformed
              \/ held[w].redelivered /\ held[w].retry >= MaxRetries
        /\ pc[w] = "backoff" => held[w].redelivered /\ held[w].retry < MaxRetries
        /\ pc[w] \in {"announce", "reschedule"} => held[w].wait < MaxWaits

\* The headers stay within the two policies' limits.
HeadersBounded ==
    \A m \in Copies : m.retry <= MaxRetries /\ m.wait <= MaxWaits

\* A retry header, and a raised redelivered flag, are each paid for by a
\* delivery of that task which was given back.
RetriesArePaid ==
    \A m \in Copies : m.retry + (IF m.redelivered THEN 1 ELSE 0) <= disruptions[m.task]

\* The dead-letter queue only receives malformed tasks and tasks whose delivery
\* was disrupted more often than MAX_RETRIES: a healthy task is never parked.
DeadLetterJustified ==
    \A t \in dlq : t \in Malformed \/ disruptions[t] > MaxRetries

\* Re-execution is bounded by the disruptions: without a crash or a connection
\* loss an experiment runs at most once, and each one adds at most one run.
ExecutionsArePaid ==
    \A t \in Tasks : attempts[t] <= 1 + disruptions[t]

\* The ledger's view of the queues: tasks with some copy are open.
Ledger == INSTANCE TaskLedger WITH
    open <- {m.task : m \in Copies}, answered <- answered, parked <- dlq

\* The task path implements the ledger: a task closes only once it was answered
\* or parked, and neither a late copy nor a requeue ever reopens it.
LedgerSpec == Ledger!Spec
===============================================================================
