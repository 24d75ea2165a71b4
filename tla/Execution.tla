------------------------------- MODULE Execution ------------------------------
(* What a worker does between taking an experiment and answering it:           *)
(* execute_task (orchestrator/app/tasks/run_experiment.py), the algorithms of  *)
(* quantum_core/execution.py, the VQE loop (loops/vqe_loop.py) and AerBackend, *)
(* whose jobs run on the threads of the event loop's default executor and go   *)
(* on when their caller has given up.  The calibration loop of the same process *)
(* (tasks/calibration.py, started by worker.py) submits its Bell circuits to    *)
(* the same AerBackend on the same event loop.  Crashes, redeliveries, the gate *)
(* and what a probe measures are TaskWorker's and CalibrationGate's;            *)
(* wait_for_result is here what it comes to with AerBackend, which raises no    *)
(* transient error (WaitForResult has the rest); the history of a VQE run is    *)
(* published by VqeTelemetry.  What libraries hand to the executor, such as the *)
(* name lookups of a connection that is opened again, is left out.              *)
EXTENDS SearchCircuits, PhaseEstimation, VqeCircuits, Canonical, BellProbe

CONSTANTS
    Experiments,     \* experiments the worker takes, one at a time
    Requests,        \* for each of them, the requests it may carry
    Molecules,       \* for each name get_molecule knows, its Hamiltonian
    Points,          \* parameter vectors COBYLA may ask for after the first
    MaxIterations,   \* max_iterations of the optimizer
    Threads,         \* threads of the worker's default executor
    MaxFailures,     \* bound: simulations that raise
    MaxProbes,       \* bound: calibration cycles
    Calibration,     \* the calibration loop, as the owner of a job
    Nobody,          \* "no experiment"
    Nothing          \* "no answer yet"

ASSUME ExecutionAssumption ==
    /\ {Nobody, Calibration} \cap Experiments = {}
    /\ Nobody # Calibration
    /\ \A e \in Experiments : \A r \in Requests[e] :
          /\ r # Nothing
          /\ r.algorithm = "qpe" => /\ r.num_counting_qubits \in Nat \ {0}
                                   /\ r.phi \in 0 .. Pow2[r.num_counting_qubits] - 1
          /\ r.algorithm = "grover" => r.marked_states \in Seq(Seq({0, 1, 2}))
          /\ r.algorithm = "sat_grover" => Len(r.variables) \in Nat \ {0}

VARIABLES
    running,   \* the experiment under execution
    request,   \* what each experiment asks for, once taken
    answer,    \* its result message
    stage,     \* where execute_task is: "idle", "wait" (for a job), "thread" (VQE,
               \* for a thread), "cost" (between cost calls), "term" (for a term's
               \* job), "drain" (a failed cost call, for the end of a simulation)
    jobs,      \* AerBackend._jobs, a job's number being its handle
    handle,    \* the job that the task, or its cost call, submitted last
    probe,     \* the job run_calibration waits for, or NoProbe between two cycles
    executor,  \* work handed to the default executor: job numbers, and VqeLoop;
               \* the first Threads of them have a thread
    iteration, \* the cost call under way: params, total and the current term
    history,   \* VQEIterationLog entries of the run under way
    failures,  \* simulations that raised so far
    abandoned  \* history: jobs of the worker's loop whose caller's deadline passed

task == <<running, request, answer, stage, handle, iteration, history>>
vars == <<task, jobs, probe, executor, failures, abandoned>>

VqeLoop == 0
NoProbe == 0
Completed(result) == [status |-> "completed", result |-> result]
Failed == [status |-> "failed", result |-> None]

\* Energies are in units of a ten-thousandth Hartree divided by Resolution, a
\* multiple of the weight of every histogram on three qubits or fewer.
Resolution == 512

NoIteration == [params |-> <<>>, total |-> 0, term |-> 0]

Init ==
    /\ running = Nobody
    /\ request = [e \in Experiments |-> Nothing]
    /\ answer = [e \in Experiments |-> Nothing]
    /\ stage = "idle"
    /\ jobs = <<>>
    /\ executor = <<>>
    /\ iteration = NoIteration
    /\ history = <<>>
    /\ failures = 0
    /\ handle = 0
    /\ probe = NoProbe
    /\ abandoned = {}

-------------------------------------------------------------------------------
(* AerBackend.                                                                 *)

GateCircuit(n, gates) == [kind |-> "gates", qubits |-> n, gates |-> gates]
PhaseCircuit(t, k) == [kind |-> "phase", qubits |-> t, phase |-> k]

\* External: AerSimulator.
Simulate(circuit) ==
    IF circuit.kind = "gates"
    THEN With(Evolve(circuit.qubits, circuit.gates), LAMBDA psi : Histogram(circuit.qubits, psi))
    ELSE [s \in {PhaseBits(circuit.qubits, circuit.phase)} |-> 1]

\* submit records the job and creates the task of _run_job; loop is the event
\* loop it belongs to, the worker's or that of a cost call.
Submit(owner, loop, circuit) ==
    jobs' = Append(jobs, [owner |-> owner, loop |-> loop, circuit |-> circuit,
                          status |-> "queued", counts |-> None])

Job == jobs[handle]
Waiting == stage \in {"wait", "term"}

\* _run_job begins, in the order its loop's jobs were submitted: RUNNING, whatever
\* the status was, before a thread is free.
StartJob(j) ==
    /\ jobs[j].status = "queued"
    /\ \A i \in 1 .. j - 1 : jobs[i].loop = jobs[j].loop => jobs[i].status # "queued"
    /\ jobs' = [jobs EXCEPT ![j].status = "running"]
    /\ executor' = IF jobs[j].loop = "worker" THEN Append(executor, j) ELSE executor
    /\ UNCHANGED <<task, probe, failures, abandoned>>

HasThread(x) == \E k \in 1 .. Len(executor) : k <= Threads /\ executor[k] = x

\* A simulation ends and _run_job resumes: COMPLETED, or FAILED without counts.
EndJob(j, ok) ==
    /\ jobs[j].status = "running"
    /\ IF jobs[j].loop = "worker" THEN HasThread(j) ELSE j = handle /\ stage = "term"
    /\ ~ok => failures < MaxFailures
    /\ jobs' = [jobs EXCEPT ![j].status = IF ok THEN "completed" ELSE "failed",
                            ![j].counts = IF ok THEN Simulate(jobs[j].circuit) ELSE None]
    /\ executor' = RemoveFirst(executor, j)
    /\ failures' = IF ok THEN failures ELSE failures + 1
    /\ UNCHANGED <<task, probe, abandoned>>

Finished(j) == jobs[j].status \in {"completed", "failed"}

-------------------------------------------------------------------------------
(* run_calibration_loop.                                                       *)

\* The interval passes, or a task asks: the Bell circuit is submitted.
StartProbe ==
    /\ probe = NoProbe
    /\ Cardinality({j \in DOMAIN jobs : jobs[j].owner = Calibration}) < MaxProbes
    /\ Submit(Calibration, "worker", GateCircuit(2, BellCircuit))
    /\ probe' = Len(jobs) + 1
    /\ UNCHANGED <<task, executor, failures, abandoned>>

\* wait_for_result sees a terminal status; the loop saves, publishes and waits.
PollProbe ==
    /\ probe # NoProbe
    /\ Finished(probe)
    /\ probe' = NoProbe
    /\ UNCHANGED <<task, jobs, executor, failures, abandoned>>

\* 30 seconds pass first: the cycle fails, and the simulation keeps its place.
TimeoutProbe ==
    /\ probe # NoProbe
    /\ jobs[probe].status # "queued"
    /\ abandoned' = abandoned \cup {probe}
    /\ probe' = NoProbe
    /\ UNCHANGED <<task, jobs, executor, failures>>

-------------------------------------------------------------------------------
(* execute_task, for one task at a time: a worker takes the next message when  *)
(* it has answered the one before.                                             *)

\* _publish_result of what was returned, or of what was raised.
Answer(e, a) ==
    /\ answer' = [answer EXCEPT ![e] = a]
    /\ running' = Nobody
    /\ stage' = "idle"

Launch(e, circuit) ==
    /\ Submit(e, "worker", circuit)
    /\ handle' = Len(jobs) + 1
    /\ running' = e
    /\ stage' = "wait"
    /\ UNCHANGED answer

Solutions(r) == CountSolutions(r.variables, r.expression)

\* run_grover; a problem without qubits has no circuit.
RunGrover(e, r) ==
    /\ r.algorithm = "grover"
    /\ LET n == IF r.marked_states = <<>> THEN 0 ELSE Len(r.marked_states[1])
       IN  IF n > 0 /\ ValidProblem(n, r.marked_states)
           THEN Launch(e, GateCircuit(n,
                    GroverCircuit(r.marked_states, n, OptimalIterations(n, Len(r.marked_states)))))
           ELSE Answer(e, Failed) /\ UNCHANGED <<jobs, handle>>
    /\ UNCHANGED executor

\* run_sat_grover: a name that is not a variable has no value in eval.
RunSat(e, r) ==
    /\ r.algorithm = "sat_grover"
    /\ LET n == Len(r.variables)
           known == ToSet(r.expression) \subseteq ToSet(r.variables) \cup {"~", "&", "|", "^"}
       IN  \/ ~known /\ Answer(e, Failed) /\ UNCHANGED <<jobs, handle>>
           \/ /\ known /\ Solutions(r) = {}
              /\ Answer(e, Completed([expression |-> r.expression, solutions |-> {}, counts |-> None]))
              /\ UNCHANGED <<jobs, handle>>
           \/ /\ known /\ Solutions(r) # {}
              /\ Launch(e, GateCircuit(n, SatCircuit(r.variables, r.expression,
                    OptimalIterations(n, Cardinality(Solutions(r))))))
    /\ UNCHANGED executor

RunQpe(e, r) ==
    /\ r.algorithm = "qpe"
    /\ Launch(e, PhaseCircuit(r.num_counting_qubits, r.phi))
    /\ UNCHANGED executor

\* run_in_executor of run_vqe_sync.
RunVqe(e, r) ==
    /\ r.algorithm = "vqe"
    /\ running' = e
    /\ stage' = "thread"
    /\ executor' = Append(executor, VqeLoop)
    /\ UNCHANGED <<answer, jobs, handle>>

ExecuteTask(e, r) ==
    /\ running = Nobody
    /\ request[e] = Nothing
    /\ request' = [request EXCEPT ![e] = r]
    /\ \/ RunGrover(e, r)
       \/ RunSat(e, r)
       \/ RunQpe(e, r)
       \/ RunVqe(e, r)
    /\ UNCHANGED <<iteration, history, probe, failures, abandoned>>

\* What the algorithm makes of a result.  It does not look at its status: a job
\* that failed has no counts, and the answer is "completed" all the same.
Outcome(r, counts) ==
    CASE r.algorithm = "grover" ->
            [marked_states |-> r.marked_states, counts |-> counts,
             iterations |-> OptimalIterations(Len(r.marked_states[1]), Len(r.marked_states))]
      [] r.algorithm = "sat_grover" ->
            [expression |-> r.expression, solutions |-> Solutions(r), counts |-> counts,
             iterations |-> OptimalIterations(Len(r.variables), Cardinality(Solutions(r)))]
      [] r.algorithm = "qpe" ->
            [true_phi |-> r.phi,
             results |-> IF counts = None THEN None ELSE [s \in DOMAIN counts |-> Estimate(s)]]

\* wait_for_result sees a terminal status.
Poll ==
    /\ stage = "wait"
    /\ Finished(handle)
    /\ Answer(running, Completed(Outcome(request[running], Job.counts)))
    /\ UNCHANGED <<request, jobs, handle, probe, executor, iteration, history, failures, abandoned>>

TimeoutOfSimulation ==
    /\ stage = "wait"
    /\ Job.status # "queued" /\ HasThread(handle)
    /\ Answer(running, Failed)
    /\ abandoned' = abandoned \cup {handle}
    /\ UNCHANGED <<request, jobs, handle, probe, executor, iteration, history, failures>>

\* The deadline passes first.  The job has begun by then, so cancel leaves it as
\* it is, and it keeps its place in the executor.
Timeout ==
    /\ stage = "wait"
    /\ Job.status # "queued"
    /\ Answer(running, Failed)
    /\ abandoned' = abandoned \cup {handle}
    /\ UNCHANGED <<request, jobs, handle, probe, executor, iteration, history, failures>>

-------------------------------------------------------------------------------
(* run_vqe, in a thread of the executor.                                       *)

Known == request[running].molecule \in DOMAIN Molecules
Molecule == Molecules[request[running].molecule]

ReturnHolding(a) ==
    /\ Answer(running, a)
    /\ iteration' = NoIteration
    /\ history' = <<>>
    /\ UNCHANGED executor

\* run_vqe_sync returns or raises: its thread is free.
Return(a) ==
    /\ Answer(running, a)
    /\ executor' = RemoveFirst(executor, VqeLoop)
    /\ iteration' = NoIteration
    /\ history' = <<>>

\* The first term from k on that is measured, and the weight of the identities
\* before it.
NextTerm(k) ==
    Min({i \in k .. Len(Molecule.terms) : Molecule.terms[i].qubits # NoQubits}
        \cup {Len(Molecule.terms) + 1})
Identities(k) ==
    Resolution * FoldLeft(LAMBDA sum, term : sum + term.coefficient, 0,
                          SubSeq(Molecule.terms, k, NextTerm(k) - 1))

\* evaluate_energy goes on at term k, `total` being the energy so far: it submits
\* the next circuit, or the cost call ends and is logged.
Evaluate(params, k, total) ==
    LET it == [params |-> params, total |-> total + Identities(k), term |-> NextTerm(k)]
    IN  IF it.term <= Len(Molecule.terms)
        THEN /\ iteration' = it
             /\ Submit(running, "cost", GateCircuit(Molecule.num_qubits,
                    MeasurementCircuit(params, Molecule.terms[it.term], Molecule)))
             /\ handle' = Len(jobs) + 1
             /\ stage' = "term"
             /\ UNCHANGED history
        ELSE /\ iteration' = NoIteration
             /\ history' = Append(history, [params |-> params, energy |-> it.total])
             /\ stage' = "cost"
             /\ UNCHANGED <<jobs, handle>>

\* get_molecule, then the first cost call, of the parameters 0.
StartVqe ==
    /\ stage = "thread"
    /\ HasThread(VqeLoop)
    /\ IF Known
       THEN /\ Evaluate([k \in 1 .. ParameterCount(Molecule.num_qubits) |-> 0], 1, 0)
            /\ UNCHANGED <<running, answer, executor>>
       ELSE Return(Failed) /\ UNCHANGED <<jobs, handle>>
    /\ UNCHANGED <<request, probe, failures, abandoned>>

\* COBYLA asks for the cost of another vector.
NextCost ==
    /\ stage = "cost"
    /\ Len(history) < MaxIterations
    /\ \E params \in Points :
          /\ Len(params) = ParameterCount(Molecule.num_qubits)
          /\ Evaluate(params, 1, 0)
    /\ UNCHANGED <<running, request, answer, probe, executor, failures, abandoned>>

\* The result of a term: its weighted expectation, or the failed assertion that
\* there are counts.
PollTerm ==
    /\ stage = "term"
    /\ Finished(handle)
    /\ LET term == Molecule.terms[iteration.term]
           shots == Shots(Job.counts)
       IN  IF Job.counts # None
           THEN /\ Evaluate(iteration.params, iteration.term + 1, iteration.total
                    + term.coefficient * SignedShots(Job.counts, term) * (Resolution \div shots))
                /\ UNCHANGED <<running, answer, executor>>
           ELSE Return(Failed) /\ UNCHANGED <<jobs, handle>>
    /\ UNCHANGED <<request, probe, failures, abandoned>>

\* A term's deadline passes: asyncio.run cancels _run_job, but waits for the
\* simulation's thread before it lets the error out.
TimeoutTerm ==
    /\ stage = "term"
    /\ Job.status # "queued"
    /\ stage' = "drain"
    /\ UNCHANGED <<running, request, answer, jobs, handle, probe, executor, iteration, history,
                   failures, abandoned>>

\* That simulation ends, or had ended; nobody reads what it found.
Drain ==
    /\ stage = "drain"
    /\ Return(Failed)
    /\ UNCHANGED <<request, jobs, handle, probe, failures, abandoned>>

\* COBYLA stops: x and fun are those of a vector it evaluated.
Finish ==
    /\ stage = "cost"
    /\ \E k \in DOMAIN history :
          Return(Completed([molecule |-> Molecule.name,
              total_energy |-> history[k].energy + Resolution * TotalEnergyOffset(Molecule),
              iterations_run |-> Len(history), history |-> history]))
    /\ UNCHANGED <<request, jobs, handle, probe, failures, abandoned>>

-------------------------------------------------------------------------------
Simulation == \E j \in DOMAIN jobs, ok \in BOOLEAN : EndJob(j, ok)

Next ==
    \/ \E e \in Experiments : \E r \in Requests[e] : ExecuteTask(e, r)
    \/ \E j \in DOMAIN jobs : StartJob(j)
    \/ Simulation
    \/ StartProbe
    \/ PollProbe
    \/ TimeoutProbe
    \/ Poll
    \/ Timeout
    \/ StartVqe
    \/ NextCost
    \/ PollTerm
    \/ TimeoutTerm
    \/ Drain
    \/ Finish

\* The event loops go round, and COBYLA, which is bounded, comes to its end.
Worker ==
    \/ \E j \in DOMAIN jobs : StartJob(j)
    \/ Poll \/ Timeout \/ StartVqe \/ NextCost \/ PollTerm \/ TimeoutTerm \/ Finish
Fairness == WF_vars(Worker)

Spec == Init /\ [][Next]_vars
FairSpec == Spec /\ Fairness

-------------------------------------------------------------------------------
(* Properties of the answers, over the experiments answered "completed".       *)

Of(algorithm) == {e \in Experiments : answer[e] # Nothing /\ request[e].algorithm = algorithm}
Searches ==
    {e \in Of("grover") \cup Of("sat_grover") :
        answer[e].status = "completed" /\ answer[e].result.counts # None}

QubitsOf(r) == IF r.algorithm = "grover" THEN Len(r.marked_states[1]) ELSE Len(r.variables)
Wanted(r) == IF r.algorithm = "grover" THEN ToSet(r.marked_states) ELSE Solutions(r)

\* A state marked twice is negated twice: such a request searches for nothing.
Distinct(r) == r.algorithm = "grover" => IsInjective(r.marked_states)

\* The textbook rotation: <<x, y>> are the amplitudes, up to a factor, of each of
\* the m wanted and of each of the other N - m states after k rounds.
Rotated(N, m, k) ==
    LET turn(a) == <<(N - 2 * m) * a[1] + 2 * (N - m) * a[2], (N - 2 * m) * a[2] - 2 * m * a[1]>>
        amplitudes[i \in 0 .. k] == IF i = 0 THEN <<1, 1>> ELSE With(amplitudes[i - 1], turn)
    IN  amplitudes[k]

\* Every search is an amplitude amplification: whatever the qubit order, the
\* oracle and the diffuser are made of, after the reported number of rounds the
\* histogram is the one the rotation by N and M predicts, outcome by outcome.
SearchAmplifies ==
    \A e \in Searches : Distinct(request[e]) =>
        LET r == request[e]
            N == Pow2[QubitsOf(r)]
            m == Cardinality(Wanted(r))
            a == Rotated(N, m, answer[e].result.iterations)
            norm == m * a[1] * a[1] + (N - m) * a[2] * a[2]
        IN  \A s \in BitStrings(QubitsOf(r)) :
                Within(answer[e].result.counts, {s}) * norm =
                    Shots(answer[e].result.counts) * (IF s \in Wanted(r) THEN a[1] * a[1] ELSE a[2] * a[2])

\* A search pays: with at most half of the states wanted, the number of rounds
\* that optimal_iterations chooses leaves at least half of the shots on them.
SearchSucceeds ==
    \A e \in Searches :
        LET r == request[e]
        IN  Distinct(r) /\ 2 * Cardinality(Wanted(r)) <= Pow2[QubitsOf(r)] =>
                2 * Within(answer[e].result.counts, Wanted(r)) >= Shots(answer[e].result.counts)

\* Phase estimation reads the phase of the request: for phi = k / 2^t (k is the
\* phi of the request here), the inverse
\* Fourier transform undoes the kicked-back phases of all controlled powers, and
\* the integer of the bitstring is k.
PhaseIsRead ==
    \A e \in Of("qpe") : answer[e].status = "completed" =>
        LET results == answer[e].result.results
        IN  results # None => {results[s] : s \in DOMAIN results} = {request[e].phi}

\* Every energy the VQE loop logs is the expectation of the Hamiltonian on the
\* ansatz state: the sum over the terms, measured one circuit at a time in rotated
\* bases, agrees with <psi|H|psi> calculated from the state alone.
EnergyIsExpectation ==
    \A k \in DOMAIN history :
        LET n == Molecule.num_qubits
            psi == Evolve(n, Ansatz(n, history[k].params, Molecule.initial_state))
            norm == FoldLeft(LAMBDA sum, a : sum + Norm2(a), 0, psi)
        IN  history[k].energy = FoldLeft(LAMBDA sum, term :
                sum + term.coefficient * Expectation(n, psi, term.qubits) * (Resolution \div norm),
                0, Molecule.terms)

\* The executor is given back: what is in it is the running VQE loop, the job the
\* task waits for, the job the calibration loop waits for, or a simulation whose
\* caller has given up, and then its experiment was answered "failed" or its cycle
\* is over.  So a task is held up by simulations only, and by no more of them than
\* one calibration probe and those that were given up.
ExecutorAccounted ==
    \A k \in DOMAIN executor :
        LET j == executor[k]
        IN  IF j = VqeLoop THEN stage \in {"thread", "cost", "term", "drain"}
            ELSE \/ stage = "wait" /\ j = handle
                 \/ j = probe
                 \/ /\ j \in abandoned
                    /\ jobs[j].owner = Calibration \/ answer[jobs[j].owner] = Failed

\* Every task comes to an answer.  A search or a phase estimation does even when
\* no simulation ever ends, with every thread of the executor held by tasks before
\* it and by calibration probes; VQE has no deadline of its own and needs the
\* simulations before it to end.
EveryTaskEnds ==
    LET busy == running # Nobody
        search == busy /\ request[running].algorithm # "vqe"
    IN  /\ search ~> ~busy
        /\ WF_vars(Simulation \/ Drain) => (busy ~> ~busy)

-------------------------------------------------------------------------------
(* Statements of the documentation that the code does not keep.                *)

\* The text that an experiment is indexed by tells its outcome: for VQE the energy,
\* the iteration count and the trajectory, for QPE the true and the estimated phase.
TextTellsOutcome ==
    \A e \in Of("vqe") \cup Of("qpe") : answer[e].status = "completed" =>
        (IF request[e].algorithm = "vqe"
         THEN {"Energy (Ha)", "Optimizer iterations", "Energy trajectory (Ha)"}
         ELSE {"True phase", "Estimated phase"})
            \subseteq DOMAIN CanonicalText(request[e].algorithm, "completed", request[e], answer[e].result)

\* A circuit that fails is recorded as a failed experiment: "completed" only if
\* each job of the experiment completed.
FailedJobsFail ==
    \A e \in Experiments : answer[e] # Nothing /\ answer[e].status = "completed" =>
        \A j \in DOMAIN jobs : jobs[j].owner = e => jobs[j].status = "completed"
===============================================================================
