----------------------------- MODULE ExperimentApi -----------------------------
(* The API process: POST /experiments (services/api/app/routers/               *)
(* experiments.py), the background consumer of `experiment-results` and the    *)
(* lifespan that starts and stops it (services/api/app/main.py), the           *)
(* experiment store behind both (app/store) and the completion event           *)
(* (app/kafka.py).                                                             *)
(*                                                                             *)
(* A step is the code between two awaits.  Timestamps, parameters, results and *)
(* error texts are abstracted to whether they are set.  The orchestrator is    *)
(* reduced to what it promises here: for a task it was given it may announce   *)
(* waiting_for_calibration, and then gives one terminal answer.                *)
EXTENDS Naturals, SequencesExt

CONSTANTS
    Ids,        \* experiment ids; one POST is made for each
    Durable,    \* TRUE: PostgresExperimentStore, FALSE: InMemoryExperimentStore
    Ambiguous,  \* TRUE: a publish may raise although the broker took the message
    MaxFaults,  \* bound: failed awaits, process deaths and shutdowns
    NoRecord,   \* store.get() returned None
    NoResult    \* the consumer holds no message

Terminal == {"completed", "failed"}
Statuses == Terminal \cup {"queued", "waiting_for_calibration"}
\* completed_at is stamped exactly on terminal records; an error means FAILED.
Record ==
    {r \in [status : Statuses, completed_at : BOOLEAN, result : BOOLEAN,
            error : {"none", "enqueue", "task"}] :
        /\ r.completed_at <=> r.status \in Terminal
        /\ r.error # "none" => r.status = "failed"}
Result == [task : Ids, status : Terminal \cup {"waiting_for_calibration"}]

ASSUME ExperimentApiAssumption ==
    /\ Durable \in BOOLEAN
    /\ Ambiguous \in BOOLEAN
    /\ MaxFaults \in Nat
    /\ NoRecord \notin Record
    /\ NoResult \notin Result

VARIABLES
    store,     \* the experiment store
    post,      \* where the POST handler of each experiment is
    enqueued,  \* tasks the broker took
    results,   \* queue `experiment-results`
    api,       \* whether the process runs
    consumer,  \* where consume_results is
    msg,       \* the result it is processing, unacked
    seen,      \* `existing`, read from the store before the save
    events,    \* completion events in Kafka
    finished,  \* tasks for which a terminal result was published
    dropped,   \* history: results rejected without requeue
    faults     \* failures so far, up to MaxFaults

apiVars == <<store, post, api, consumer, msg, seen, events, dropped, faults>>
vars == <<apiVars, enqueued, results, finished>>

TypeOK ==
    /\ store \in [Ids -> Record \cup {NoRecord}]
    /\ post \in [Ids -> {"new", "publish", "save_failed", "done"}]
    /\ enqueued \subseteq Ids
    /\ results \in Seq(Result)
    /\ api \in {"up", "down"}
    /\ consumer \in {"idle", "read", "save", "event", "dead", "off"}
    /\ msg \in Result \cup {NoResult}
    /\ seen \in Record \cup {NoRecord}
    /\ events \in Seq([task : Ids, status : Terminal])
    /\ finished \subseteq Ids
    /\ dropped \in Seq(Result)
    /\ faults \in 0 .. MaxFaults

ApiInit ==
    /\ store = [i \in Ids |-> NoRecord]
    /\ post = [i \in Ids |-> "new"]
    /\ api = "up"
    /\ consumer = "idle"
    /\ msg = NoResult
    /\ seen = NoRecord
    /\ events = <<>>
    /\ dropped = <<>>
    /\ faults = 0

Init == ApiInit /\ enqueued = {} /\ results = <<>> /\ finished = {}

Fault == faults < MaxFaults /\ faults' = faults + 1

-------------------------------------------------------------------------------
(* submit_experiment.                                                          *)

Queued == [status |-> "queued", completed_at |-> FALSE, result |-> FALSE, error |-> "none"]
NotEnqueued == [status |-> "failed", completed_at |-> TRUE, result |-> FALSE, error |-> "enqueue"]

\* The QUEUED record is saved first ...
SaveQueued(i) ==
    /\ api = "up"
    /\ post[i] = "new"
    /\ store' = [store EXCEPT ![i] = Queued]
    /\ post' = [post EXCEPT ![i] = "publish"]
    /\ UNCHANGED <<enqueued, results, api, consumer, msg, seen, events, finished, dropped, faults>>

\* Faulty variants, used to test the properties, are named for the definition
\* they precede and the slip; no action uses them.
PublishBeforeSave(i) ==
    /\ api = "up"
    /\ post[i] = "new"
    /\ enqueued' = enqueued \cup {i}
    /\ post' = [post EXCEPT ![i] = "done"]
    /\ UNCHANGED <<store, results, api, consumer, msg, seen, events, finished, dropped, faults>>
PublishThenSaveAgain(i) ==
    /\ api = "up"
    /\ post[i] = "publish"
    /\ enqueued' = enqueued \cup {i}
    /\ post' = [post EXCEPT ![i] = IF i \in enqueued THEN "done" ELSE "publish"]
    /\ store' = [store EXCEPT ![i] = Queued]
    /\ UNCHANGED <<results, api, consumer, msg, seen, events, finished, dropped, faults>>

\* ... then the task is published, and the handler returns 202.
Publish(i) ==
    /\ api = "up"
    /\ post[i] = "publish"
    /\ enqueued' = enqueued \cup {i}
    /\ post' = [post EXCEPT ![i] = "done"]
    /\ UNCHANGED <<store, results, api, consumer, msg, seen, events, finished, dropped, faults>>

\* publish_task raises: before the broker took the task or, when only the
\* publisher confirm is lost, after it.
PublishRaises(i, taken) ==
    /\ taken => Ambiguous
    /\ api = "up"
    /\ post[i] = "publish"
    /\ Fault
    /\ enqueued' = IF taken THEN enqueued \cup {i} ELSE enqueued
    /\ post' = [post EXCEPT ![i] = "save_failed"]
    /\ UNCHANGED <<store, results, api, consumer, msg, seen, events, finished, dropped>>

\* Either way the record is marked FAILED.
SaveFailed(i) ==
    /\ api = "up"
    /\ post[i] = "save_failed"
    /\ store' = [store EXCEPT ![i] = NotEnqueued]
    /\ post' = [post EXCEPT ![i] = "done"]
    /\ UNCHANGED <<enqueued, results, api, consumer, msg, seen, events, finished, dropped, faults>>

\* That save raises too: the record stays QUEUED.
SaveFailedRaises(i) ==
    /\ api = "up"
    /\ post[i] = "save_failed"
    /\ Fault
    /\ post' = [post EXCEPT ![i] = "done"]
    /\ UNCHANGED <<store, enqueued, results, api, consumer, msg, seen, events, finished, dropped>>

-------------------------------------------------------------------------------
(* consume_results and apply_result_message.                                   *)

Take ==
    /\ consumer = "idle"
    /\ results # <<>>
    /\ msg' = Head(results)
    /\ results' = Tail(results)
    /\ consumer' = "read"
    /\ UNCHANGED <<store, post, enqueued, api, seen, events, finished, dropped, faults>>

\* Leaving the process() block without an exception acks the message.
Acked == msg' = NoResult /\ seen' = NoRecord /\ consumer' = "idle"

KnownQueued(i) == store[i] # NoRecord /\ store[i].status = "queued"
Known(i) == store[i] # NoRecord

\* store.get; a result for an unknown experiment is acked and forgotten.
Read ==
    /\ consumer = "read"
    /\ IF Known(msg.task)
       THEN seen' = store[msg.task] /\ consumer' = "save" /\ UNCHANGED msg
       ELSE Acked
    /\ UNCHANGED <<store, post, enqueued, results, api, events, finished, dropped, faults>>

UpdatedCompleting(existing, status) ==
    LET final == IF status = "failed" THEN "failed" ELSE "completed"
    IN  [status |-> final, completed_at |-> TRUE, result |-> final = "completed",
         error |-> IF final = "failed" THEN "task" ELSE "none"]
\* existing.model_copy(update=...): a result is kept until a terminal one comes.
Updated(existing, status) ==
    [status |-> status,
     completed_at |-> status \in Terminal,
     result |-> IF status \in Terminal THEN status = "completed" ELSE existing.result,
     error |-> IF status = "failed" THEN "task" ELSE "none"]

\* store.save of the whole record; only a terminal one is announced on Kafka.
Save ==
    /\ consumer = "save"
    /\ store' = [store EXCEPT ![msg.task] = Updated(seen, msg.status)]
    /\ IF msg.status \in Terminal
       THEN consumer' = "event" /\ UNCHANGED <<msg, seen>>
       ELSE Acked
    /\ UNCHANGED <<post, enqueued, results, api, events, finished, dropped, faults>>

\* publish_completed_experiment.
Announcement == Append(events, [task |-> msg.task, status |-> msg.status])

PublishEvent ==
    /\ consumer = "event"
    /\ events' = Announcement
    /\ Acked
    /\ UNCHANGED <<store, post, enqueued, results, api, finished, dropped, faults>>

\* If consume_results ends in the middle of that, Kafka may have the event or not.
EventLeft == events' \in {events} \cup IF consumer = "event" THEN {Announcement} ELSE {}

\* process() was entered with requeue=False: leaving it with an exception
\* rejects the message, and the exception ends consume_results itself.
Reject == dropped' = Append(dropped, msg) /\ msg' = NoResult /\ seen' = NoRecord

ConsumerRaises ==
    /\ consumer \in {"read", "save", "event"}
    /\ Fault
    /\ Reject
    /\ consumer' = "dead"
    /\ EventLeft
    /\ UNCHANGED <<store, post, enqueued, results, api, finished>>

-------------------------------------------------------------------------------
(* The life of the process.                                                    *)

\* lifespan's shutdown, once uvicorn has drained the requests in flight: the
\* consumer task is cancelled, and a message it is processing is rejected.
Shutdown ==
    /\ api = "up"
    /\ \A i \in Ids : post[i] \in {"new", "done"}
    /\ Fault
    /\ api' = "down"
    /\ consumer' = "off"
    /\ IF msg # NoResult THEN Reject ELSE UNCHANGED <<dropped, msg, seen>>
    /\ store' = IF Durable THEN store ELSE [i \in Ids |-> NoRecord]
    /\ EventLeft
    /\ UNCHANGED <<post, enqueued, results, finished>>

TakenBackNever == results
\* The broker takes the result being processed back, to the head of its queue.
TakenBack == IF msg = NoResult THEN results ELSE <<msg>> \o results

\* The process is killed: requests in flight vanish, and the unacked
\* result is redelivered.
Kill ==
    /\ api = "up"
    /\ Fault
    /\ api' = "down"
    /\ consumer' = "off"
    /\ results' = TakenBack
    /\ msg' = NoResult
    /\ seen' = NoRecord
    /\ post' = [i \in Ids |-> IF post[i] = "new" THEN "new" ELSE "done"]
    /\ store' = IF Durable THEN store ELSE [i \in Ids |-> NoRecord]
    /\ EventLeft
    /\ UNCHANGED <<enqueued, finished, dropped>>

Start ==
    /\ api = "down"
    /\ api' = "up"
    /\ consumer' = "idle"
    /\ UNCHANGED <<store, post, enqueued, results, msg, seen, events, finished, dropped, faults>>

-------------------------------------------------------------------------------
(* The orchestrator, as far as the API can tell.                               *)

Announce(i) ==
    /\ i \in enqueued \ finished
    /\ [task |-> i, status |-> "waiting_for_calibration"] \notin ToSet(results)
    /\ results' = Append(results, [task |-> i, status |-> "waiting_for_calibration"])
    /\ UNCHANGED <<apiVars, enqueued, finished>>

Finish(i, status) ==
    /\ i \in enqueued \ finished
    /\ results' = Append(results, [task |-> i, status |-> status])
    /\ finished' = finished \cup {i}
    /\ UNCHANGED <<apiVars, enqueued>>

-------------------------------------------------------------------------------
Submit(i) ==
    \/ SaveQueued(i)
    \/ \E taken \in BOOLEAN : PublishRaises(i, taken)
    \/ SaveFailed(i)
    \/ SaveFailedRaises(i)

Consume == Read \/ Save \/ PublishEvent

Next ==
    \/ \E i \in Ids : Submit(i) \/ Publish(i)
    \/ Take \/ Consume \/ ConsumerRaises
    \/ Shutdown \/ Kill \/ Start
    \/ \E i \in Ids : Announce(i) \/ \E status \in Terminal : Finish(i, status)

Spec == Init /\ [][Next]_vars

\* A running process serves its requests and its results; nobody is obliged to
\* start it again.
Fairness ==
    /\ \A i \in Ids : WF_vars(SaveFailed(i)) /\ WF_vars(Publish(i))
    /\ WF_vars(Take \/ Consume)

FairSpec == Spec /\ Fairness

-------------------------------------------------------------------------------
(* Properties.                                                                 *)

IsTerminal(i) == store[i] # NoRecord /\ store[i].status \in Terminal

\* experiments.py:49-53: because the QUEUED record is saved before the task is
\* published, the consumer never meets a result of an unknown experiment, even
\* one that overtakes the POST handler (with the store that survives restarts).
NoUnknownResult ==
    (Durable /\ consumer = "read") => store[msg.task] # NoRecord

\* The consumer's read-modify-write loses no update: nobody writes the record
\* between its get and its save, although both are awaits and the POST handler
\* of the same experiment may still be running.
NoLostUpdate ==
    consumer = "save" => store[msg.task] = seen

\* A completion event is published only for what the store already shows, and
\* the store goes on showing it: a reader of the topic never contradicts GET.
EventsMatchStore ==
    \A e \in ToSet(events) : Durable => IsTerminal(e.task) /\ store[e.task].status = e.status

\* Every terminal answer is queued, being processed, in the store, or was
\* rejected by a consumer that failed: redelivery and restarts lose none.
AnswersAccounted ==
    \A i \in finished :
        \/ \E r \in ToSet(results) \cup ToSet(dropped) : r.task = i /\ r.status \in Terminal
        \/ msg # NoResult /\ msg.task = i /\ msg.status \in Terminal
        \/ Durable => IsTerminal(i)
===============================================================================
