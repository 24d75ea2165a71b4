------------------------------- MODULE Pipeline -------------------------------
(* An experiment end to end: the API process (ExperimentApi) and the           *)
(* orchestrator's workers (TaskWorker) joined by the two queues between them.  *)
(* publish_task is one event for both: the API's handler returns and the       *)
(* broker has the task.  The workers' results queue is the one the API's       *)
(* consumer reads.                                                             *)
EXTENDS Naturals, SequencesExt

CONSTANTS Experiments, Workers, Vqe, Malformed, Poison, MaxRetries, MaxWaits,
          MaxWorkerFaults, MaxApiFaults, Durable, Ambiguous,
          NoMessage, NoRecord, NoResult

VARIABLES
    published,  \* tasks the broker took: TaskWorker's published, the API's enqueued
    answered,   \* tasks with a terminal result: the API's finished
    results,    \* queue `experiment-results`
    taskQ, waitQ, dlq, trigger, pc, held, verdict, lost,
    attempts, disruptions, workerFaults,
    store, post, api, consumer, msg, seen, events, dropped, apiFaults

workerOwn == <<taskQ, waitQ, dlq, trigger, pc, held, verdict, lost,
               attempts, disruptions, workerFaults>>
apiOwn == <<store, post, api, consumer, msg, seen, events, dropped, apiFaults>>
vars == <<published, answered, results, workerOwn, apiOwn>>

Orchestrator == INSTANCE TaskWorker WITH
    Tasks <- Experiments, MaxFaults <- MaxWorkerFaults, faults <- workerFaults
Api == INSTANCE ExperimentApi WITH
    Ids <- Experiments, MaxFaults <- MaxApiFaults, faults <- apiFaults,
    enqueued <- published, finished <- answered

ASSUME PipelineAssumption ==
    /\ Vqe \subseteq Experiments /\ Malformed \subseteq Experiments /\ Poison \subseteq Experiments
    /\ {MaxRetries, MaxWaits, MaxWorkerFaults, MaxApiFaults} \subseteq Nat
    /\ {Durable, Ambiguous} \subseteq BOOLEAN
    /\ NoMessage \notin Orchestrator!Message
    /\ NoRecord \notin Api!Record
    /\ NoResult \notin Api!Result

Init == Orchestrator!Init /\ Api!Init

-------------------------------------------------------------------------------
\* deps.publish_task succeeds: the handler and the queue move together.
Publish(i) == Api!Publish(i) /\ Orchestrator!PublishTask(i)

\* It raises, with or without the task having reached the queue.
PublishRaises(i) ==
    \/ Api!PublishRaises(i, TRUE) /\ Orchestrator!PublishTask(i)
    \/ Api!PublishRaises(i, FALSE) /\ UNCHANGED workerOwn

\* Steps of the API that leave the orchestrator alone.
ApiStep ==
    /\ \/ \E i \in Experiments :
             Api!SaveQueued(i) \/ Api!SaveFailed(i) \/ Api!SaveFailedRaises(i)
       \/ Api!Take
       \/ Api!Consume
       \/ Api!ConsumerRaises
       \/ Api!Shutdown
       \/ Api!Kill
       \/ Api!Start
    /\ UNCHANGED workerOwn

\* Steps of the orchestrator and its queues that leave the API alone.
WorkerStep ==
    /\ \/ Orchestrator!Expire
       \/ \E w \in Workers :
             \/ Orchestrator!TakeTrigger(w)
             \/ Orchestrator!Deliver(w)
             \/ Orchestrator!Handle(w)
             \/ Orchestrator!Fail(w)
             \/ Orchestrator!Restart(w)
    /\ UNCHANGED apiOwn

Next ==
    \/ \E i \in Experiments : Publish(i) \/ PublishRaises(i)
    \/ ApiStep
    \/ WorkerStep

Spec == Init /\ [][Next]_vars
FairSpec == Spec /\ Orchestrator!Fairness /\ Api!Fairness

-------------------------------------------------------------------------------
(* Properties.                                                                 *)

\* A result of experiment i with a terminal status is on its way to the store.
AnswerInTransit(i) ==
    \E r \in ToSet(results) \cup {msg} : r # NoResult /\ r.task = i /\ r.status \in Api!Terminal

\* It has reached the store, some time: its completion event is out.
Announced(i) == \E e \in ToSet(events) : e.task = i

Rejected(i) == \E r \in ToSet(dropped) : r.task = i /\ r.status \in Api!Terminal

\* No accepted experiment disappears between the services: the store shows its
\* outcome (or has shown it: see OutcomeIsFinal), or it is parked, or an answer
\* is on its way or was rejected by a failing consumer, or the broker still
\* holds a copy of the task.  Crashes of workers and of the API may hit any
\* await of both.
NoExperimentLost ==
    \A i \in published :
        \/ Api!IsTerminal(i) \/ Announced(i)
        \/ i \in dlq
        \/ AnswerInTransit(i) \/ Rejected(i)
        \/ \E m \in Orchestrator!LiveCopies : m.task = i

\* The outcome shown to a client was produced by a worker, or the experiment
\* was never enqueued (or the handler could not know): no crash makes the API
\* invent one.
OutcomeHasSource ==
    \A i \in Experiments : Api!IsTerminal(i) =>
        IF store[i].error = "enqueue" THEN Ambiguous \/ i \notin published ELSE i \in answered

\* An outcome the API has shown is revoked only by a redelivery, or by a request
\* handler whose publish raised although the broker took the task: it marks the
\* record failed over the result, and a late result revives such a record.
RevokedOnlyByDisruption ==
    [][\A i \in Experiments :
          Api!IsTerminal(i) /\ store'[i] # store[i] =>
             \/ disruptions[i] > 0
             \/ Ambiguous /\ (post[i] = "save_failed" \/ store[i].error = "enqueue")]_store

\* Some worker and the results consumer stay up.
StaysUp ==
    /\ \E w \in Workers : <>[](pc[w] # "down")
    /\ <>[](consumer \notin {"dead", "off"})

\* Every accepted experiment reaches an outcome in the store that is announced,
\* unless its task is parked or a failing consumer rejected its answer: a task
\* goes round neither the wait queue nor the redeliveries for ever, even if it
\* kills every worker that executes it.
EventuallyAnswered ==
    StaysUp => \A i \in Experiments :
        (i \in published) ~> (i \in dlq \/ Rejected(i) \/ Announced(i))

\* ... and when workers crash but no handler outlives its connection, the store
\* ends up showing an outcome for good: one that a redelivered copy revoked with
\* waiting_for_calibration comes back.
EventuallyFinal ==
    StaysUp /\ [](\A w \in Workers : ~lost[w]) => \A i \in Experiments :
        (i \in published) ~> (i \in dlq \/ Rejected(i) \/ [](Api!IsTerminal(i)))

\* orchestration.md:15-17: GET returns "queued until the result arrives, then
\* completed/failed"; an outcome once shown is the end of it.
OutcomeIsFinal ==
    [][\A i \in Experiments : Api!IsTerminal(i) => Api!IsTerminal(i)']_store
===============================================================================
