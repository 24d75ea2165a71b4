# Verification of the quantum platform

This directory holds TLA+ models of the platform's services, the TLC
configurations that check them on small instances, and proofs of their most
important properties that TLAPS checks for every instance. Paths are relative
to the repository's root; `orchestrator/…`, `api/…` and `quantum_core/…` stand
for `services/orchestrator/app/…`, `services/api/app/…` and
`services/quantum-core/quantum_core/…`.

## 1. The system

A client POSTs an experiment to the API. The API saves a QUEUED record, puts a
task on RabbitMQ and answers 202. A worker process takes the task, lets a VQE
task through a calibration gate, executes it with the quantum library and
publishes a result, which a consumer inside the API writes to the store and
announces on Kafka. Each worker process also probes its backend now and then
and saves the observation the gate looks at. Around this core, analytics and
indexing services read Kafka.

| Component | State | Operations | Meets others through |
|---|---|---|---|
| API, request side (`api/routers/experiments.py`, `deps.py`) | experiment store | `submit_experiment`: save QUEUED, publish, on failure save FAILED | store, queue `experiments` |
| API, result side (`api/main.py`, `kafka.py`, `store/`) | the same store; the message being processed | `consume_results`, `apply_result_message`, completion event, lifespan | queue `experiment-results`, Kafka |
| Worker (`orchestrator/worker.py`) | one delivery at a time | `handle_message`: parse, gate, execute, publish, ack | all three task queues, results |
| Crash recovery (`orchestrator/retry_policy.py`) | `x-retry-count` header | `handle_redelivery`, `schedule_retry`, `send_to_dead_letter_queue` | queue `experiments`, `experiments.dlq` |
| Wait queue (`orchestrator/calibration_wait.py`) | `x-calibration-wait-count` header, queue with a TTL | `reschedule`, expiry by the broker | queue `experiments` |
| Calibration loop (`orchestrator/tasks/calibration.py`) | trigger event, the cycle's result | probe, upsert, Kafka send, sleep until interval or trigger | snapshot table, trigger |
| Gate (`calibration_policy.py`, `calibration_store.py`) | snapshot row per backend | `get`, `evaluate`, `save` | snapshot, wait queue, trigger |
| Synchronisation primitive (`quantum_core/sync/polling.py`) | breaker's counter and opening time, the caller's interval and retries | `wait_for_result`, breaker, cancellation token | a backend |
| Backends (`quantum_core/backends/`) | job table, the threads of the default executor | submit, poll, fetch, cancel, the job's own task | the event loop |
| Execution (`orchestrator/tasks/run_experiment.py`, `quantum_core/execution.py`, `loops/vqe_loop.py`) | the run under way, its iteration history | `execute_task`, the four algorithms, the VQE cost calls | a backend, the executor |
| Quantum library (`quantum_core/algorithms`, `chemistry`) | none | circuits, Hamiltonians, expectation values | |
| Stream analytics (`services/stream-analytics`) | windows, rolling statistics, alert hysteresis, TimescaleDB rows | consume, aggregate, insert | Kafka |
| Result indexer (`services/result-indexer`) | one document per experiment | upsert, commit the offset | Kafka, pgvector |

`PROJECT.json` lists every component, those that are not modelled too, with its
status.

### What is hard, and what must hold

* **Delivery.** RabbitMQ delivers at least once, and a worker may die, or lose
  its connection and run on, at every await. A handler publishes a successor (a
  retry copy, a waiting copy, a result, a dead letter) and then acks, so a
  crash in between leaves two copies, and copies of copies carry two counters.
  Nothing may be lost, no healthy task may be parked, and a task that kills its
  workers must not go round for ever.
* **Record keeping.** The request handler and the result consumer write the
  same record with awaits in between, results may overtake the request and may
  be redelivered, and a failed await ends the consumer. A record must not
  regress, and the completion topic must agree with it.
* **End to end.** Redeliveries on the worker's side meet the API's overwriting
  of records; an experiment may not vanish between the services.
* **Calibration.** Several loops write one row without comparing timestamps, a
  trigger may be raised while a probe runs, and waits are counted while the
  probe they asked for is under way. Interval, cycle time, freshness and wait
  budget have to fit together.
* **Execution.** Circuits are built from conventions that only agree by care:
  bit order, the oracle's phases, the order of a Fourier transform, measurement
  bases. A simulation cannot be stopped and occupies a thread after its caller
  has given up; a job that failed is a result like any other.
* **Index.** The indexer commits by hand after an upsert, and the events it
  reads may be repeated by the API and by itself.
* **Polling.** The deadline is looked at between sleeps only, a breaker is
  shared by callers that entered before it opened, and cancellation races the
  job's own completion.
* **Streams.** Both analytics consumers read Kafka at least once: tables and
  rows are written before the offset is committed, so a restart repeats events.
  Alert levels must still be those that the counted samples call for, a change
  of level must not go unreported or be reported twice, an aggregate may repeat
  an event but not forget one, and the history in TimescaleDB may have gaps only
  where a process ended.

`PROJECT.json` "hazards" lists each of these at its line with the properties
that watch it, and those that nothing covers yet.

## 2. Modules

| Module | Models | Proofs |
|---|---|---|
| `TaskWorker` | queues, workers, crash recovery, wait queue | `TaskWorkerProofs` |
| `TaskLedger` | the abstract promise of the task path | `TaskWorkerProofs`, `PipelineProofs` |
| `ExperimentApi` | request side, result side, store, lifespan | `ExperimentApiProofs` |
| `ResultIndexer` | the indexer, over `ExperimentApi` | `ExperimentApiProofs` |
| `Canonical` | the text an experiment is indexed by | |
| `Pipeline` | `TaskWorker` and `ExperimentApi` joined by their queues | `PipelineProofs` |
| `CalibrationGate` | loop, snapshot, gate, in explicit time | `CalibrationGateProofs` |
| `BellProbe` | what a calibration cycle measures | |
| `WaitForResult` | polling, breaker, cancellation, mock backend | `WaitForResultProofs` |
| `Execution` | a worker's executions and probes: algorithms, VQE loop, Aer backend, executor | `ExecutionProofs` |
| `Circuits` | external: gates on exact state vectors, histograms | `ExecutionProofs` |
| `SearchCircuits` | Grover and SAT search | `ExecutionProofs` |
| `PhaseEstimation` | QPE and the Fourier transform | `ExecutionProofs` |
| `VqeCircuits` | ansatz, measurement bases, Hamiltonians | |
| `Alerting` | the hysteresis, and the level a sequence of samples calls for | `CalibrationStreamProofs` |
| `Drift` | the running mean and variance, and their definitions | `CalibrationStreamProofs` |
| `CalibrationStream` | the Faust agent on calibration results, over both | `CalibrationStreamProofs` |
| `VqeTelemetry` | VQE iterations and calibration results through Kafka, Faust and the sink | `VqeTelemetryProofs` |

`Pipeline` composes two of these, `ResultIndexer` extends `ExperimentApi`, and
`Execution` stands on the circuits and on `Canonical`. What remains apart meets
through an interface that both sides over-approximate: `TaskWorker`'s gate may
decide anything and its executions may end in any way, `CalibrationGate`'s probes
may find anything, `VqeTelemetry`'s experiments publish any history.

Every `MC…` module extends one of these for TLC. Definitions whose name is that
of another definition plus a slip (`RetryCopyTwice` beside `RetryCopy`) are
faulty variants: no action uses them; substituted for the original they show
that a property really depends on that piece of code.

### TaskWorker

A step is the code between two awaits. `pc[w]` says which await a worker is
about to pass: `deadletter` and `backoff` belong to `handle_redelivery`, `gate`,
`announce`, `reschedule`, `execute`, `answer` and `ack` to `handle_message`.
`taskQ`, `waitQ`, `dlq` and `results` are the four queues the code declares.

* `Deliver` is `prefetch_count=1` and the start of `main`'s loop body: the
  redelivered flag is looked at before the body is parsed (`FirstStep`).
* `Gate` joins the snapshot read and `CalibrationPolicy.evaluate`: it may come
  to any decision, because the content of the snapshot is `CalibrationGate`'s.
* `Execute` turns any exception into `failed`, as the code's `except Exception`
  does; a `Poison` task may instead kill the process (`PoisonCrash`), any number
  of times and outside the bound on other faults.
* `Crash` stands for a killed process and for an exception no handler catches
  (a failing publish or snapshot read leaves `main`). The broker puts the
  delivery back at the head with the flag set.
* `Disconnect` is what `connect_robust` makes possible: the broker takes the
  delivery back while the handler goes on, publishes through the reopened
  channel, and fails at its ack at the latest (`ExitDisconnected`).
* `published`, `answered`, `attempts` and `disruptions` are history variables.

`TaskLedger` is the abstract view: a set of open tasks, those answered and those
parked. A task opens once, and closes only when it was answered or parked.
`LedgerSpec` says that `TaskWorker` implements it, with the set of tasks that
have some copy anywhere as `open`.

### ExperimentApi

Records keep their status, and whether `completed_at`, a result and which error
are set. `SaveQueued`, `Publish`, `PublishRaises`, `SaveFailed` and
`SaveFailedRaises` are the awaits of `submit_experiment`; `Take`, `Read`, `Save`
and `PublishEvent` those of `consume_results` and `apply_result_message`.
`ConsumerRaises` is an exception in any of the latter: `process()` rejects the
message without requeue, and the exception ends `consume_results`.
`Shutdown` cancels the consumer after the requests have drained; `Kill` stops
the process anywhere. `Durable` selects the PostgreSQL or the in-memory store.
`Announce` and `Finish` are the orchestrator as the API knows it; in `Pipeline`
the real one replaces them.

### ResultIndexer

The indexer's loop is its three awaits: `Encode`, `Upsert` and `Commit`.
`IndexerEnds` is an exception at any of them, which leaves `main`, or a kill; the
upsert or the commit under way may have been carried out. A row is represented
by the number of the event it was made from, which is enough to tell a newer
row from an older one. The foreign key on `experiments(id)` is `HasRecord`: with
the in-memory store the first event ends the process, and does so again after
each start.

### Pipeline

`TaskWorker` and `ExperimentApi` are instantiated with shared variables: the
API's `enqueued` is `TaskWorker`'s `published`, its `finished` the `answered`,
and the results queue is one. `Publish` and `PublishRaises` are joint steps; all
other steps belong to one side.

### CalibrationGate

Time passes in ticks. An observation carries its age, so that no clock has to be
bounded. `loop[w]` walks through `probe`, `save`, `publish` and `sleep` of
`run_calibration_loop`; `Wake` is the end of `wait_for(trigger.wait(), interval)`
with the `clear()` that begins the next cycle. `ReadSnapshot` and `Evaluate` are
the two halves of the gate: the row is read before an await and judged after it.
Everything between two ticks takes no time; `Tick` waits for a cycle that has
used up `CycleTime`. The task path around the gate is reduced to what the
counters need: a task waits `WaitDelay` and is delivered again, and a crash
hands it back. What the observation is made from is `BellProbe`: the Bell circuit
on `Circuits`' state vectors, the share of odd parities and the demo hook that
shifts shots, stated as assumptions over small counts in `MCCalibrationGate`.

### WaitForResult

`pc[c]` walks through the loop of `wait_for_result`; a caller may make several
calls, one after another, with the same breaker. `HalfOpen` is the branch of
`is_open` that resets the counter to one below the threshold. `RunJob` and
`EndJob` are `MockHardwareBackend._run_job`; both may be for ever in coming.
`Cancelled` is that backend's `cancel`.

### Execution and the circuits

`stage` says where `execute_task` is: it waits for a job, for a thread, between
two cost calls or for a term's job, or drains a simulation. `RunGrover`, `RunSat`,
`RunQpe` and `RunVqe` are the four branches of `execute_task` up to their first
await, `Poll` and `Timeout` the two ends of that wait. `Evaluate` walks through
the terms of the Hamiltonian as `evaluate_energy` does, one circuit per term that
is not the identity; which parameters COBYLA asks for is left open.

`StartJob` and `EndJob` are `AerBackend._run_job`. The `executor` is the default
one of the event loop: the first `Threads` entries have a thread. A cost call has
an event loop of its own, inside the thread of the VQE run, and so an executor of
its own; a cost call that fails still waits for its simulation (`Drain`), because
`asyncio.run` shuts that executor down. `handle` is the job the task submitted
last.

The worker's calibration loop runs on the same event loop and submits its Bell
circuit to the same `AerBackend`: `StartProbe`, `PollProbe` and `TimeoutProbe` are
one cycle as the executor sees it, `probe` the job it waits for. A probe takes a
place like any simulation, and one whose 30 seconds pass keeps it, as does a task's
(`abandoned`). What the loop does with the result is `CalibrationGate`'s.

`Circuits` is external: what Qiskit's gates and the simulator do, on vectors of
Gaussian integers. H and RY come without their factor 1/√2 and a whole vector is
halved when it can be, so that a vector is exact up to a positive factor and a
histogram has exact weights in place of shots: the distribution, without sampling
noise. `With` binds a value before it is used more than once, which spares TLC
the evaluation of a vector for each of its entries. `Each` is a loop of one gate
over some qubits, or Qiskit's broadcast of it. `SearchCircuits`,
`PhaseEstimation` and `VqeCircuits` build the circuits gate by gate in the order
of the code. `optimal_iterations` compares squares of integers, with π² to six
digits; no k and N of the runs comes near the boundary. In phase estimation each
counting qubit is a basis state or an equal superposition with a phase in
2^t-ths, so that four qubits cost no more than one; a gate that would entangle
them yields `Entangled`, which no reference accepts.

`Canonical` reads the results of `Execution` by the keys of the Python code.

### Alerting, Drift, CalibrationStream

`Step` is `alerting.step` on the verdict "above the threshold"; `Alerted` and
`TrailingRun` say without counters which level and which streaks a sequence of
verdicts calls for. `Update` is Welford's update with `mean * count` and
`m2 * count` in place of `mean` and `m2`: both are integers when the samples
are, so the comparison with the definition (`Describes`) is exact. Rounding is
thereby left out.

`Handle` is the body of `process_calibration_event` up to its first send or its
end, `SendAlert` the continuation after `alerts_topic.send`, `SendDrift` after
`drift_alerts_topic.send`; `CheckDrift` is the half of the body that two of them
share. The tables are written before the sends. `Feed` is the `deque` with a
maxlen. Faust is external: it delivers each event at least once, keeps the
tables through their changelog, and commits after an event is handled
(`Commit`). `Crash` therefore keeps the tables and goes back to the committed
offset; `SendRaises` lets the agent go on with this event or the next. `.now()`
reads the window of the event or that of the clock, whichever: both happen in
Faust's versions, and the properties hold for both.

### VqeTelemetry

`PublishIteration` is one send of `publish_vqe_history`. The agent reads, sums
and writes a window's record (`Handle`) and then sends the snapshot
(`SendSnapshot`). It reads the record at `.now()`, the event's window or the
clock's, and stores it at the event's window (`Store`). With `store="memory://"` a
record is an object of the process that is changed in place, so the two windows
then share it: `table` says which of the `records` a window refers to, `changelog`
what was stored for it last, and after a `Crash` each window has a record of its
own again, as the changelog has it. `crossed` are the windows that an event was
read from or stored at while `.now()` was another one. The consumer's loop takes a message of either topic (`Take`)
and inserts it (`Insert`); an insert that raises is logged and skipped
(`InsertRaises`). Its offsets are aiokafka's: committed by a timer
(`AutoCommit`) as far as messages were handed out, whether inserted or not, and
read from the end of the topic if none was committed (`Start`). `Missing`
messages have been passed over without a row. Calibration results come on a third
topic; their branch also feeds the rolling window (`rolling`), before the insert
and in memory only.

## 3. Runs

| Run | Question | Bounds | Size |
|---|---|---|---|
| `task_worker` | Does any fault lose a task, park a healthy one, or execute one for nothing? Does the path implement the ledger? | 2 workers, a poisonous VQE task and a malformed one, 2 retries, 1 wait, 1 further fault | 533 k states |
| `experiment_api` | Is a record ever lost, regressed or contradicted by the topic, and does the index follow the topic? Does every answer become searchable? | 2 experiments, 2 faults of API, consumer or indexer | 163 k |
| `pipeline` | Can an experiment vanish between the services, or an outcome come from nowhere? Is it answered, and in the end for good? | 1 poisonous VQE experiment, 1 worker, a further fault on each side, lost confirms | 75 k |
| `calibration_gate` | Does a healthy loop keep the snapshot fresh, and is every VQE task decided? | 2 workers, 1 task, interval 2, cycle 1, freshness 5, 1 wait of 2 ticks, 2 faults | 301 k |
| `wait_for_result` | Is a wait bounded, and the breaker's opening justified? | 2 callers, 3 calls, timeout 3, backoff 1 to 2, 1 retry, threshold 2 | 419 k |
| `execution` | Do the circuits compute what they are for? Is the executor given back, and does every execution end? | 2 experiments, 1 thread, 1 probe, 1 failing simulation; every search on up to 2 qubits, some on 3, all phases on up to 3 counting qubits and 2 on 4, 2 molecules, 2 cost calls | 177 k |
| `calibration_stream` | Are alert levels and baselines those of the samples, and changes reported once? | 1 backend, 3 rates, 4 events in 2 windows, 1 fault, streaks of 2, z-score limit 1 | 582 k |
| `vqe_telemetry` | What may be repeated or missing in windows and rows, and what is in the rolling window? | 2 experiments, 4 messages: iterations of 2 energies or results of 2 rates, 2 windows, 1 fault, rolling window of 2 | 2.8 M |
| `outcome` | Is a shown outcome the end of it? **No** | 1 experiment, 2 workers, 1 worker fault | |
| `snapshot` | Does the snapshot hold the latest observation? **No** | as `calibration_gate`, 1 fault | |
| `documents` | Does the text of a finished experiment tell its outcome? **No** | as `execution` | |
| `failed_job` | Is an experiment whose circuit failed recorded as failed? **No** | as `execution` | |

**What the passing runs show.** No copy of a task is acked without a successor;
headers, retries and executions are paid for by disruptions; the API's record is
never overwritten between the consumer's read and its save, and what the topic
announced the store goes on to show; the index is a projection of the committed
events, or of one more. Across both services an accepted experiment is somewhere,
and an outcome a client has seen is taken back only by a redelivery or by a
publish that raised although it worked. Interval, cycle, freshness and wait
budget fit together. A histogram of any search is the one that the rotation of
amplitude amplification predicts, a measured VQE energy is the expectation of the
Hamiltonian on the ansatz state, and a phase read is the phase kicked back.

**Why these bounds are enough.** The interesting cases of the task path are two
copies of one task in the hands of two workers, with a third one queued. A lost
connection makes the second copy; the poisonous task, which crashes its worker as
often as it is executed, makes the others and drives both headers to their
limits. A second task shows that the queues' order does not help. The proofs
remove the bounds for the properties they cover. `experiment_api` has two
experiments because the consumer handles them with one `seen`, and because the
indexer commits them on one offset. The pipeline needs one experiment, as no step
of either side relates two, and one worker: that two workers hold copies at once
is `task_worker`'s case, whose guarantees hold for any number. The run `outcome`
has two workers.

`calibration_gate` chooses the smallest times that satisfy the assumption on them
and leave room to go wrong: a cycle that starts before another's save, an
interval that ends during a wait, a wait that ends with the probe it asked for.
It takes two faults, one in each worker's cycle, for a task to run out of
attempts at all. `wait_for_result` has a third call so that a caller can enter
after the breaker half-opened while another entered before it opened.

`execution` has one thread, so that one simulation that outlives its caller is
enough to hold up a VQE run, and a second experiment to be held up by it; one
probe may hold up either, or be held up. On two
qubits every set of marked states is searched for, on three those with few or
with most states marked, besides invalid, empty and repeated requests. The
expressions use each operator and a name that is not a variable. Two molecules,
one in the code's own table and one read from labels with Y, an identity that
comes second and a Hartree-Fock start, tell bit orders and bases apart; the
points include every ansatz of angles π/2 and π on two qubits, which entangle.
Inverse and forward Fourier transform are compared on up to five qubits.

`calibration_stream` has streaks of 2, so that four events can raise an alert and
end it again; its drift recovery of 1 lets both levels change on one event, which
passes through both sends. A backend's tables never meet another's, so one will
do. The theorems cover all streaks and rates and any number of events and faults.
`vqe_telemetry` includes energy 0, the value a missing best energy could be
mistaken for, its iterations fall into one window or two, and either may be handled
when the clock has moved on. Two experiments could mix their energies. Three results
overflow the rolling window, and an iteration may come between them. The only
fault may hit the agent or the consumer.

Where a cfg says `CHECK_DEADLOCK FALSE` the system may really stop: all tasks
settled and no worker up, all calls made, all events
handled, all experiments answered. `calibration_gate` never stops.

### The four disagreements

* `outcome`. The same document describes the status as `queued` until the
  result arrives, then `completed`/`failed`. `apply_result_message`
  (`api/main.py:85`) applies any message: a VQE task whose worker died after
  publishing the result is delivered again, and if the snapshot has become stale
  in the meantime its `waiting_for_calibration` replaces the stored outcome.
  `RevokedOnlyByDisruption` and `EventuallyFinal` delimit it: only a disrupted
  delivery does this (or a lost confirm, see section 6), and the outcome comes
  back, if no handler outlives its connection.
* `snapshot`. `calibration-aware-execution.md:16-17` calls the table the latest
  observation for each backend; the upsert (`calibration_store.py:20`) takes the
  last writer. `LagBounded` shows how far behind the row can be: a cycle's time.
* `documents`. `vector-search.md:33-35` lists what the text of an experiment
  includes: energy, iteration count and trajectory for VQE, true and estimated
  phase for QPE. `canonical.py` reads the keys `energy`, `iterations` and
  `estimated_phase`, but the results carry `total_energy`, `iterations_run` and
  `results` (`execution.py:102-106`, 136-151), and a line without a value is
  dropped: such an experiment can be found by its molecule, not by its energy.
* `failed_job`. `orchestration.md:72-75` says that "a circuit that fails" is
  recorded as `failed`. `wait_for_result` returns the result of a FAILED job, and
  Grover, SAT and QPE pass its missing counts on without looking at its status:
  the record says `completed`. Only VQE notices, by an assertion.

## 4. Fairness and time

* **Workers** (`TaskWorker!Fairness`): a running worker goes on to its next
  await, because each one is bounded (an execution by the timeout of
  `wait_for_result`, as `EveryWaitEnds` shows). The broker expires the wait
  queue. No supervisor is configured in the repository, so `Restart` is *not*
  fair, and the liveness properties are conditional on one worker that stays up.
* **API**: a running process serves its requests and results; `Start` is not
  fair. The liveness properties assume that the consumer does not die for good,
  because an exception does end it.
* **Indexer**: a running process goes on to its next await. Nothing restarts it,
  so `AnswersBecomeSearchable` is conditional on API and indexer staying up.
* **Calibration**: both coroutines of a live process run, and time passes.
* **Execution**: the event loops go round, and `wait_for_result` comes to its
  deadline; COBYLA is bounded by `maxiter`. A simulation need not end: searches
  and phase estimations are answered all the same. For VQE, which has no deadline
  of its own, the second half of `EveryTaskEnds` assumes that simulations end.
* **Polling**: the backend owes nothing, a job may hang for ever; only the
  caller's own steps and the clock are fair.

`CalibrationGate` makes assumptions on time that the defaults meet:
`Interval + 3 * CycleTime <= Freshness` (300 s, about 30 s, 600 s), and
`CycleTime < WaitDelay * MaxWaits` (30 s, 5 s times 12). A cycle takes at most
`CycleTime`, reading one row takes less than a tick. If a cycle could take
longer (a database that hangs), `FreshWhileHealthy` and `ExhaustionNeedsFailure`
would not hold. `WaitForResult` takes a backend call to be shorter than a tick;
a backend whose `poll_status` hangs would hold its caller for as long, since the
code awaits it without a timeout.

## 5. Proofs

TLAPS checks these theorems for every value of the constants that satisfies the
named assumption of the module.

| Theorem | States |
|---|---|
| `TaskWorkerProofs!TypeCorrect` | `TypeOK`, and `ControlOK`: what a handler knows at each await |
| `TaskWorkerProofs!TasksAreNeverLost` | `NoTaskLost` |
| `TaskWorkerProofs!AcksLeaveSuccessors` | `AckHasSuccessor` |
| `TaskWorkerProofs!HeadersStayBounded` | `HeadersBounded` |
| `TaskWorkerProofs!RetriesStayPaid` | `RetriesArePaid` |
| `TaskWorkerProofs!OnlyDisruptedAreParked` | `DeadLetterJustified` |
| `TaskWorkerProofs!ExecutionsStayPaid` | `ExecutionsArePaid` |
| `TaskWorkerProofs!TaskPathKeepsLedger` | `TaskWorker` implements `TaskLedger` |
| `ExperimentApiProofs!Typed` | `TypeOK` |
| `ExperimentApiProofs!ResultsAreKnown` | `NoUnknownResult` |
| `ExperimentApiProofs!NoUpdateIsLost` | `NoLostUpdate`, if a publish that raises was not taken by the broker |
| `ExperimentApiProofs!EventsAgree` | `EventsMatchStore`, under the same proviso |
| `ExperimentApiProofs!NoAnswerIsLost` | `AnswersAccounted` |
| `ExperimentApiProofs!IndexIsProjection` | `IndexFollowsEvents` |
| `PipelineProofs!ExperimentsAreNeverLost` | `NoExperimentLost`, with the durable store |
| `PipelineProofs!OutcomesHaveASource` | `OutcomeHasSource`, with either store |
| `PipelineProofs!OnlyDisruptionRevokes` | `RevokedOnlyByDisruption`, with the durable store |
| `PipelineProofs!PipelineKeepsLedger` | the orchestrator inside `Pipeline` implements `TaskLedger` |
| `PipelineProofs!OrchestratorKeepsItsPromises` | the task path's invariants hold inside `Pipeline` |
| `PipelineProofs!ResultsMeetTheirRecords` | `NoUnknownResult` and, under the proviso, `NoLostUpdate` hold inside `Pipeline` |
| `WaitForResultProofs!WaitTypeCorrect` | `TypeOK` |
| `WaitForResultProofs!BreakerIsJustified` | `OpenIsJustified` |
| `WaitForResultProofs!WaitsAreBounded` | `WaitBounded` |
| `WaitForResultProofs!AbandonedJobsEnd` | `AbandonedJobsStop` |
| `WaitForResultProofs!ReturnsAreReal` | `ResultsAreReal` |
| `CalibrationStreamProofs!StreamTypeCorrect` | `TypeOK` |
| `CalibrationStreamProofs!TablesMatchHistory` | `TablesFollowHistory`: hysteresis and baseline |
| `CalibrationStreamProofs!TransitionsReachTheTopics` | `TransitionsAccounted` |
| `CalibrationGateProofs!SnapshotStaysFresh` | `FreshWhileHealthy` |
| `CalibrationGateProofs!WaitsAreEnough` | `ExhaustionNeedsFailure` |
| `CalibrationGateProofs!RequestsAreKept` | `NoLostWakeup` |
| `CalibrationGateProofs!LagIsBounded` | `LagBounded` |
| `VqeTelemetryProofs!SnapshotsCanBeTrusted` | `SnapshotsAreSound` |
| `VqeTelemetryProofs!HistorySurvivesRestarts` | `RowsAccounted` |
| `VqeTelemetryProofs!WindowsStayRecent` | `WindowIsRecent` |
| `ExecutionProofs!ExecutorIsGivenBack` | `ExecutorAccounted` |
| `ExecutionProofs!PhasesAreRead` | `PhaseIsRead` |
| `ExecutionProofs!SearchesAmplify` | `SearchAmplifies` |
| `ExecutionProofs!GroverAmplifies` | k rounds of the circuit of `grover.py` leave the histogram the rotation predicts, for every n, set of marked states and k |
| `ExecutionProofs!SatSearchAmplifies` | the same of the circuit of `sat_search.py`, for every expression and number of variables |
| `ExecutionProofs!PhaseEstimationIsExact` | the circuit of `qpe.py` reads k for every t and k < 2^t |
| `ExecutionProofs!InverseUndoesTransform` | both transforms of `qft.py`: what the forward one makes of a basis state, and that the inverse takes it back |

The assumptions on the constants are those the code's configuration meets:
limits and times are naturals, special values are no members of the sets they
are told from, and for `CalibrationGate` the two inequalities of section 4 hold.
A phase to estimate is one that its counting qubits can express, marked states are
strings (`schemas/experiments.py:33`), and a boolean expression comes with at least
one variable (line 45).
`PipelineAssumption` is what its two sides assume, and no more.

**No task is lost.** `NoTaskLost` is not inductive. An ack removes a copy, so one
has to know that the worker left another behind, or settled the task. Saying
only "another copy exists" does not do: two workers about to ack two copies of
one task could rely on each other, and acking both would lose it.
`AckHasSuccessor` therefore asks for a copy of strictly higher *rank*, the sum of
its two headers. Every copy a handler publishes has one more of either, a
requeue or an expiry changes neither, so the relation cannot be circular: whoever
relied on an acked copy can rely on what that copy's worker relied on (the step
`Ack` of `NextLoss`). For all other actions `Carry` reduces the two invariants
to three facts: live copies are preserved, new acks are covered, and so are new
publications. `ControlOK` supplies that a handler's message is in its hands.

**Headers and dead letters.** `CopyInv` joins four facts about each copy: it is
of a published task, both headers are within their limits, and its retry header
(plus one, if it is marked redelivered) is paid for by disruptions of its task.
They must go together, since a header is taken from another copy; that a dead
letter is justified follows at the await where it is published.

**Executions.** `ExecutionsArePaid` compares a count of executions with one of
disruptions, and between them stand the copies: of one task there may be some in
the main queue, some in the wait queue and some in the hands of workers, and each
may yet be executed. `Load(Unrun, t)` counts all of these, and `CountInv` says that
executions and this load together are at most one more than the disruptions. The
same bound for `Unanswered`, with the answer in place of the executions, is what
the pipeline needs: a task that was never disrupted has no copy left that could
be answered once it was. A handler moves a copy from one place to another and
the load stays (`BusyMove` and the lemmas after it); a requeue adds a copy and
pays for it. A handler about to ack is not counted, because its successor is.

**The ledger.** The refinement maps `open` to the tasks that have a copy. All
but four kinds of steps leave that set alone; a handler that lets go of its
message either leaves a copy behind or, by `NoTaskLost` in the next state,
closes a task that was answered or parked. Only there is the invariant needed.

**The pipeline.** `PipelineProofs` instantiates the proofs of both sides, so that
each lemma about one of them is a lemma about its half of a joint state (`W!…` and
`A!…`; the indexer takes no part and is down there). `Steps` names the steps of
`Pipeline` as those of the sides. A step of one side leaves the other side's
invariant alone, a joint one is a step of both: hence `SideInv`, the task path's
`TaskInv` with the types of the API. The refinement of the ledger and all
invariants of the task path follow from it without a new induction.

What relates the sides is `EndInv`. `PostInv` ties the request handler to the
broker: a task is published only after its record is saved. `QueueInv` says that
every pending result is of a published task, and a terminal one of an answered
task; `SourceInv` that an outcome shown is a worker's, or the handler's own; and
`AnswerInv` that each answer is announced, rejected or pending. `CalmInv` is what
`RevokedOnlyByDisruption` takes: as long as no delivery of an experiment was given
back, its terminal answer is its last result, so that whatever is still pending
repeats what is shown. It rests on the second bound of `CountInv`, by
`FirstAnswer`. The durable store is needed for the two theorems that say so: the
other one forgets its records with the process, and a result that then meets no
record is acked without effect.

The guarantees of `ExperimentApiProofs` were proved against an orchestrator that
answers once. Of those, `NoUnknownResult` and `NoLostUpdate` hold for the real one
(`ResultsMeetTheirRecords`): the argument needs only the order in which the
request handler saves and publishes. `AnswersAccounted` and `EventsMatchStore` do
not carry over, as the run `outcome` shows: an answer that was stored is replaced
when the task is delivered again.

**The breaker.** `OpenIsJustified` speaks of failures in a row, while the code
counts with a variable that half-opening sets back to the threshold minus one.
`BreakerInv` adds that this counter never exceeds the failures in a row: when it
half-opens, the open state was itself justified.

**The wait.** `JobInv` says what a caller's place in the loop says about its job,
`TimeInv` that `elapsed + asleep` never exceeds the timeout plus the longest
sleep, for which the deadline check and the cap of the backoff are both needed.

**The alert levels.** The counters are easy: a verdict extends the run it
belongs to and ends the other (`TrailingRunOfAppend`). The level is not, since
`Alerted` speaks of all positions in the history: `AlertedByBreach` and
`AlertedByRecovery` show that one more verdict matters only through the run that
ends with it, whose length is the counter (`FullRun`). `StepTracks` puts them
together, and the agent's invariant adds only that it has an event in hand. That
the history itself may hold an event twice does not matter to the argument.

**The alert topics.** `Left` names the level last reported at each place of a
sequence of reports. Each change differs from what was left before it, and what
is left at the end is the table's level (`LevelsTold`); a change is appended by the step
that writes the table, which is why the two agree. `Sending` says that the report
under way is the last change made. A fault skips one report, and without one the
reports sent are a prefix of the changes (`PrefixNext`).

**The baseline.** What a recursive definition computes for every sequence takes
an induction, and the induction theorems of the library have a form that no
backend instantiates. `SetInduction` replaces them: a set of naturals that holds
0 and every successor is all of them, since a least number outside it would have
a predecessor inside. With it `Sums`, a recursive function, exists for every
sequence (`SumsExist`), adds the last value to the total of the others
(`TotalOfAppend`), and is additive over the squares of deviations
(`TotalOfDeviations`). `Moments` is the invariant: `m2` times n is n·Σx² − (Σx)².
Welford's update keeps it because its division is exact (`UpdateKeepsMoments`),
and it is the definition of the variance, multiplied out (`MomentsDescribe`).

**The windows and their snapshots.** `AgentInv` says where the agent is: what it
committed it has handled, what it has handled it has aggregated, and only a fault
sets it back. A fault repeats at most the events there are, which bounds the
messages of the topic (`EveryMessageCounts`), so that `rows` has a place for each.
`TableInv` adds that a counted window has a member, as `best` must be its energy.

These hold for windows outside `crossed` only, and what has to be known is that such
a window is not reached through another one: it refers to its own record, no other
window does, and the changelog agrees with it (`StoreInv`). An event handled across
windows makes them share a record, but both are in `crossed` from then on
(`HandleKeepsStore`). For the others there is `OwnInv`: every record, changelog entry
and snapshot counts at most the aggregations there were and has the energy of some
iteration of its own experiment for its best, because sharing never leaves the
experiment.

**The rows.** `RowsAccounted` counts messages that the running process has passed.
When it ends, those it has only taken, and those behind the committed offset that
the next process will not read, must be counted too. `Unexplained` is the set of
all of them, less what is under way: an end adds at most the message that was
being inserted. For the doubled ones, a process adds one row to a message at
most, and has done so only where its position has passed (`RowsInv`).

**The rolling window.** `WindowIsRecent` is inductive given the types and
`SinkInv`, but it counts:
the place of a result in the window is told by how many newer ones of its backend
there are. One more result makes each count grow by one, and the `deque`, at its
limit, moves every place by one.

**The executor.** `ExecutorAccounted` is nearly inductive: that a simulation which
holds a place is awaited, the probe's or given up is its own induction hypothesis.
`PlacesInv` adds that no entry occurs twice, so that what ends leaves the executor
for good, and that each is the VQE loop or a running simulation of the worker's
loop, where the only one of the experiment under execution is the awaited one.
`TurnInv` gives the worker's turn: every job is a probe's or of an experiment that
was taken (`Owned`), whoever waits, waits for a job of its own on the loop of its
kind, and the probe's job belongs to the calibration. An experiment is taken once,
so an earlier one's simulation never becomes the running one's. `QueueInv` says that
a queued job is the one the task waits for or the probe: only what runs is given up,
hence what begins to run is not yet anybody else's. What a circuit computes plays no
part.

**The phase.** `PhaseIsRead` rests on a fact about circuits of any size, by an
induction over their gates (`NumberInduction`, `GatesReach`: whatever satisfies the
recursion of `Gates` is what `Gates` computes). The register before the block of
qubit t − pos is known entry by entry (`AfterBlocks`, and `InBlock` within it): the
qubits already read are basis states whose values are the lowest bits of k, the
others carry k·2^j 2^t-ths of a turn. The block's controlled phases take from its
qubit the part of k that has been read, what remains is 0 or half a turn
(`NextBit`), and H makes the next bit of it. The swaps turn the register round, and
`Estimate`, the integer of the bitstring, undoes that (`BitsOf`). The forward
transform is the same argument in the other direction. That the answer is read
from that register is `AnswersInv`: a job of a phase estimation or of a search
simulates the circuit of its own request, its counts are none or the simulation's,
and the answer is made of them.

**The searches.** Behind `SearchAmplifies` are circuits on any number of qubits,
followed amplitude by amplitude. `Shows` is what is known of a vector: it is real and
proportional to a function from basis states to integers. `Makes` says that a list
of gates turns every vector that shows one function into one that shows another, and
it composes (`MakesJoin`). H on every qubit is a transform that is linear and, up to
2^n, its own inverse (`TransformTwice`); its entry for state 0 is the sum of the
amplitudes (`TransformSums`). X on the qubits that read 0, the multi-controlled Z
and X again negate the one state that the string names (`SelectionMakes`). So the
oracle negates each marked state once if none is listed twice (`OracleMakes`), and
the phase oracle the states whose bits satisfy the expression (`SatOracleMakes`).
The diffuser is such a selection, of state 0, between two transforms: inversion
about the mean (`DiffuserMakes`). A vector with one amplitude on the wanted and one
on the other states stays of that form, and a round is one turn of the rotation
(`PatternSums`, `RoundMakes`, `RoundsMake`). Strings and basis states name each
other (`StringsName`), so counting them gives the weights of the histogram
(`SumOfTwo`, `HistogramAmplifies`).

**The store and the topic.** `EventsMatchStore` is about the past: an event says
what the store showed when it was published. It is kept because nothing that
follows an announced answer can differ from it, and for that one has to look at
all answers still to be worked on, in their order: those in the queue and the one
in the consumer's hands. `TakenBack` is that sequence, and `QueueInv` says of it
that a terminal answer is its task's last and only. It survives a redelivery,
since the message under work goes back to the place it is counted at.
`PostInv` adds that the request handler writes nothing once the task is given
out, unless its publish raised although the broker took it: hence the proviso,
without which `pipeline` shows the contrary. `ConsumerInv` says what the consumer
knows between its awaits, `AccountInv` where each answer is.

**The index.** The induction hypothesis is that the rows are those of the
committed events, or of one more when the row was written and the commit is not
known. A replay then meets rows made from the event it replays, never from a later
one. The topic only grows (`EventsGrow`), so a projection stays one.

**Freshness.** `FreshInv` gives each phase of a healthy worker a budget: the row's
age plus the time left in the phase is at most 2 cycles when it is about to
sleep, an interval more while it sleeps, and a cycle more from the moment its
next probe begins until it saves. A save of another worker may put a row of up to a
cycle's age there, which each budget has room for; so the largest, three cycles
and an interval, is what the freshness window must hold.

**Waits.** `ExhaustionNeedsFailure` needs to know of a waiting task that a fresh
row is on its way. `Served` says so for a task whose first wait saw no failure
since: a healthy worker exists, or some cycle under way ends early enough, its
remaining time and the waits already counted together being at most a cycle and
what is left of the present wait; or a loop is about to be woken. When all waits
are used up the last two contradict `CycleTime < WaitDelay * MaxWaits`, so the
worker is healthy, and the row that is read then is fresh.

**Only model-checked.** Liveness under fairness, which is beyond the prover:
`EveryTaskEnds`, `EventuallyAnswered`, `EventuallyFinal`, `EveryVqeDecided`,
`EveryWaitEnds` and `AnswersBecomeSearchable`. And what the circuits on state vectors
compute. `SearchSucceeds` compares a rotation by an angle with the number of rounds
that π/4·√(N/M) gives, so a proof for every N needs bounds on sines; the energies
of `EnergyIsExpectation` are counted in 512ths, which are exact for the sizes of
section 3 and not beyond.

## 6. Observations outside the properties

Reading the code against its documents for the models turned these up. They are
not checked here, because no line states the opposite in a checkable form, or
because they are the modelled behaviour itself.

* An exception while a result is processed ends the consumer for the rest of the
  process's life, without a log of its own (`api/main.py:104-116`); results then
  pile up in the queue until the API restarts.
* `experiments.py:71-75` takes an exception of the publish to mean that the task
  never reached the orchestrator. A lost publisher confirm says nothing of the
  kind: the record is marked failed and the experiment runs. `pipeline`
  runs with such publishes; the late result then overwrites the failure.
* The breaker's docstring promises a single trial call when half-open
  (`polling.py:58-60`), but `is_open` closes it for everybody (78-87). An open
  breaker stops the wait, not the submission before it. No code in the
  repository passes a shared breaker in, so today every call has its own.
* `retry_policy.py` counts retries per copy. A crash between the publish of a
  retry copy and the ack of the original leaves both, each with retries of its
  own, so one task may be executed more often than 1 + MAX_RETRIES times. What
  holds is `ExecutionsArePaid`: one execution, and one more per disruption.
* `circuit_breaker_trips`, which `vqe-metrics.md:30` counts, is never incremented.
* `hw_sw_interaction_loop.md:40-41` speaks of retries for transient errors during
  polling; `poll_status` errors are raised at once (`polling.py:163-167`).
* A Bell job that ends FAILED has no counts and yields an error rate of 0, which
  passes the gate. `Measure` keeps this: such an observation is good.
* An unknown algorithm fails in `execute_task` and is answered `failed`; the
  document (`orchestration.md:65`) sends it to the dead-letter queue.
* A state that is listed twice in `marked_states` is negated twice, so the search
  amplifies nothing; and if more than half of the states are marked,
  `optimal_iterations` still makes one round, which leads away from them.
  `SearchAmplifies` excludes the former, `SearchSucceeds` both.
* The answer to a VQE run whose simulation failed carries the text of a bare
  `AssertionError`, which is empty.
* `AerBackend` keeps every job in `_jobs` for as long as it lives, and a queued
  job can hardly be cancelled: it becomes RUNNING before it has a thread.
* With the in-memory store the indexer violates its foreign key at the first event
  and ends; started again, it meets the same event.
* `algorithms/qft_qpe.py` is a copy of the backends' base module, used by nothing.
* `AerBackend.cancel` does not stop a running simulation, and its job may
  overwrite the cancelled status. `CancelledIfQueued`, the faulty variant that
  behaves like it, breaks `AbandonedJobsStop`.
* A handler that outlives its connection may announce a wait after the other
  copy's answer, and nothing follows that announcement: the record then stays
  `waiting_for_calibration`. `EventuallyFinal` excludes such handlers.
* The hysteresis is meant to ignore a single bad sample (`faust_app.py:40-41`),
  but its samples are window averages: one high rate can keep the average of its
  window above the threshold for the next samples too, and raise an alert alone.
* A crash between an alert table's write and its send loses the report for good:
  the replayed event no longer crosses the level (`faust_app.py:427-448`).
  `TransitionsAccounted` allows one missing report for each fault.
* Replayed events are counted again by all tables, window sums and streaks
  included; a single bad sample handled three times raises an alert.
* `process_vqe_iteration` reads its record at `.now()` and writes it at the
  event's window (`faust_app.py:566`, 583). Where `.now()` means the window of the
  clock, an event handled after its window has ended is counted in the aggregate of
  the later window, which then replaces that of its own: the best energy and the count
  of both are wrong, without any fault, although the docstring (259-261) says that
  `best_energy` is the least energy observed in the window. `VqeTelemetry` allows this
  reading. `AggregatesAreSound` without its exception of `crossed` windows is violated
  by one event, published in the first window and handled in the second.

## 7. Not modelled

* **Angles, phases and samples beyond the exact ones**: rotation angles that are
  no multiples of π/2, phases that t qubits cannot express, finite shots, noise.
  They take real arithmetic, and statistics in place of properties of a run.
  `run_qpe` with another unitary or eigenstate is reachable from no request.
* **What PySCF and Qiskit Nature compute**, COBYLA's choice of parameters, and the
  embedding: external, left open or abstract.
* **Timings, retry counts and metrics of a cost call**, `PollingMetrics`, the mock
  backend's random counts: nobody decides on them.
* **Read-only routes, schemas and the dashboards' pages**: they change no state.
* **Migrations, scripts, demos and infrastructure**; services that are empty
  templates (fast-control, telemetry-ingest, orchestration).
* **Other work of the default executor**: what libraries hand to it, such as the
  name lookups of a connection that is opened again, is short and no simulation.

Some hazards have no property, because the code does not exclude them and no line
of the repository says what should hold instead. A request handler that dies between
its save and its publish leaves a QUEUED record for ever: the code accepts this by
saving first, and has no sweep. After a lost publisher confirm the handler's FAILED
and the consumer's outcome may overwrite each other. A consumer whose message raises
drops it, and takes no other until it is restarted. An indexer without the durable
store dies at its first event. A Bell job that failed yields the error rate 0 and
lets VQE through. A cancelled queued job runs all the same, and jobs are never
forgotten. A VQE task whose simulation never ends does not end either:
`EveryTaskEnds` assumes of VQE tasks that simulations do.

What could still be proved: that the index follows the events inside `Pipeline`
too, where completion events may contradict one another; and that the energy of a
VQE cost call is the expectation of the Hamiltonian for any number of qubits, once
energies are counted in fractions that are exact for every size.
