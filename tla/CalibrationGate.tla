---------------------------- MODULE CalibrationGate ----------------------------
(* Calibration-aware execution: the loop every worker process runs beside its  *)
(* task consumer (services/orchestrator/app/tasks/calibration.py), the         *)
(* snapshot all of them share (calibration_store.py), and the gate that lets a *)
(* VQE task run, fails it or makes it wait (calibration_policy.py and          *)
(* handle_message in worker.py).                                               *)
(*                                                                             *)
(* Time passes in ticks.  An observation carries its age, so no clock has to   *)
(* be bounded; ages are counted up to Freshness + 1, that is "stale".  The     *)
(* task path around the gate is TaskWorker's.                                  *)
EXTENDS Naturals, FiniteSetsExt

CONSTANTS
    Workers,    \* worker.py processes; all probe the same backend
    Tasks,      \* VQE tasks
    Interval,   \* CALIBRATION_INTERVAL_S
    CycleTime,  \* a cycle's longest duration: the 30 s poll timeout, the
                \* snapshot's upsert and the Kafka send
    Freshness,  \* CALIBRATION_FRESHNESS_S
    WaitDelay,  \* CALIBRATION_WAIT_DELAY_S
    MaxWaits,   \* CALIBRATION_MAX_WAIT_ATTEMPTS
    MaxFaults,  \* bound: failed cycles and worker crashes
    NoRow,      \* the snapshot has no row for the backend
    NoTask      \* the worker is not at the gate

\* `good`: error_rate is below the rejection threshold.
Observation == [age : 0 .. Freshness + 1, good : BOOLEAN]

\* The defaults: 300 s, about 30 s, 600 s, 5 s and 12 attempts.
ASSUME CalibrationAssumption ==
    /\ {Interval, CycleTime, Freshness, WaitDelay, MaxWaits, MaxFaults} \subseteq Nat
    /\ Interval + 3 * CycleTime <= Freshness
    /\ CycleTime < WaitDelay * MaxWaits
    /\ NoRow \notin Observation
    /\ NoTask \notin Tasks

VARIABLES
    snapshot,  \* the row of backend_calibration_state
    loop,      \* where each run_calibration_loop is
    left,      \* ticks it may stay in its cycle, or will sleep
    obs,       \* the CalibrationResult of its cycle
    trigger,   \* calibration_trigger
    holding,   \* the VQE task each worker holds at the gate
    seen,      \* the row calibration_store.get returned
    state,     \* where each task is
    waits,     \* its x-calibration-wait-count header
    due,       \* ticks it stays in the wait queue
    asked,     \* history: the trigger was set since the last probe began
    newest,    \* history: age of the newest observation ever saved
    healthy,   \* history: a probe of this process was saved, and none has failed
    clean,     \* history: no cycle failed since the task began to wait
    faults     \* failed cycles and crashes so far, up to MaxFaults

loopVars == <<loop, left, obs, trigger, asked, healthy>>
gateVars == <<holding, seen>>
taskVars == <<state, waits, due, clean>>
vars == <<snapshot, newest, loopVars, gateVars, taskVars, faults>>

Decided == {"executed", "rejected", "exhausted"}

\* main() starts the loop, and the loop starts with a probe.
Init ==
    /\ snapshot = NoRow
    /\ loop = [w \in Workers |-> "probe"]
    /\ left = [w \in Workers |-> CycleTime]
    /\ obs = [w \in Workers |-> NoRow]
    /\ trigger = [w \in Workers |-> FALSE]
    /\ holding = [w \in Workers |-> NoTask]
    /\ seen = [w \in Workers |-> NoRow]
    /\ state = [t \in Tasks |-> "queued"]
    /\ waits = [t \in Tasks |-> 0]
    /\ due = [t \in Tasks |-> 0]
    /\ asked = [w \in Workers |-> FALSE]
    /\ newest = Freshness + 1
    /\ healthy = [w \in Workers |-> FALSE]
    /\ clean = [t \in Tasks |-> FALSE]
    /\ faults = 0

Fault == faults < MaxFaults /\ faults' = faults + 1

-------------------------------------------------------------------------------
(* run_calibration_loop.                                                       *)

\* The Bell job ended and wait_for_result returned: the timestamp is taken now.
\* A FAILED job is not an exception: it has no counts, so its error rate is 0 / 1
\* and the observation is good.
Measure(w) ==
    /\ loop[w] = "probe"
    /\ loop' = [loop EXCEPT ![w] = "save"]
    /\ \E good \in BOOLEAN : obs' = [obs EXCEPT ![w] = [age |-> 0, good |-> good]]
    /\ UNCHANGED <<snapshot, newest, left, trigger, asked, healthy, gateVars, taskVars, faults>>

\* Faulty variants, used to test the properties, are named for the definition
\* they precede and the slip; no action uses them.
UpsertedOnce(old, new) == IF old = NoRow THEN new ELSE old
UpsertedOldest(old, new) == IF old # NoRow /\ old.age > new.age THEN old ELSE new

\* ON CONFLICT DO UPDATE: the new row, whatever its observed_at.
Upserted(old, new) == new

\* state_store.save: the upsert of the backend's only row.
Save(w) ==
    /\ loop[w] = "save"
    /\ loop' = [loop EXCEPT ![w] = "publish"]
    /\ snapshot' = Upserted(snapshot, obs[w])
    /\ newest' = Min({newest, obs[w].age})
    /\ obs' = [obs EXCEPT ![w] = NoRow]
    /\ healthy' = [healthy EXCEPT ![w] = TRUE]
    /\ UNCHANGED <<left, trigger, asked, gateVars, taskVars, faults>>

Sleep(w) ==
    /\ loop' = [loop EXCEPT ![w] = "sleep"]
    /\ left' = [left EXCEPT ![w] = Interval]
    /\ obs' = [obs EXCEPT ![w] = NoRow]

PublishCalibrationClearing(w) ==
    /\ loop[w] = "publish"
    /\ Sleep(w)
    /\ trigger' = [trigger EXCEPT ![w] = FALSE]
    /\ UNCHANGED <<snapshot, newest, asked, healthy, gateVars, taskVars, faults>>

\* publish_calibration_result succeeds, or raises: the loop logs and goes on.
PublishCalibration(w) ==
    /\ loop[w] = "publish"
    /\ Sleep(w)
    /\ UNCHANGED <<snapshot, newest, trigger, asked, healthy, gateVars, taskVars, faults>>

\* The submit, the wait (timeout, circuit breaker) or the upsert raises.
CycleFails(w) ==
    /\ loop[w] \in {"probe", "save"}
    /\ Fault
    /\ Sleep(w)
    /\ healthy' = [healthy EXCEPT ![w] = FALSE]
    /\ clean' = [t \in Tasks |-> FALSE]
    /\ UNCHANGED <<snapshot, newest, trigger, asked, gateVars, state, waits, due>>

\* wait_for(trigger.wait(), interval) ends; the next cycle first clears the
\* event, so a request made from now on is for the cycle after it.
Wake(w) ==
    /\ loop[w] = "sleep"
    /\ trigger[w] \/ left[w] = 0
    /\ trigger' = [trigger EXCEPT ![w] = FALSE]
    /\ asked' = [asked EXCEPT ![w] = FALSE]
    /\ loop' = [loop EXCEPT ![w] = "probe"]
    /\ left' = [left EXCEPT ![w] = CycleTime]
    /\ UNCHANGED <<snapshot, newest, obs, healthy, gateVars, taskVars, faults>>

-------------------------------------------------------------------------------
(* The gate.                                                                   *)

\* A worker with no task in its hands gets one that is not in the wait queue.
Deliver(w, t) ==
    /\ loop[w] # "down"
    /\ holding[w] = NoTask
    /\ state[t] = "queued"
    /\ due[t] = 0
    /\ state' = [state EXCEPT ![t] = "gate"]
    /\ holding' = [holding EXCEPT ![w] = t]
    /\ UNCHANGED <<snapshot, newest, loopVars, seen, waits, due, clean, faults>>

\* The query of calibration_store.get runs; its answer is still on the way.
ReadSnapshot(w) ==
    /\ holding[w] # NoTask
    /\ state[holding[w]] = "gate"
    /\ seen' = [seen EXCEPT ![w] = snapshot]
    /\ state' = [state EXCEPT ![holding[w]] = "evaluate"]
    /\ UNCHANGED <<snapshot, newest, loopVars, holding, waits, due, clean, faults>>

\* CalibrationPolicy.evaluate, against the clock after the await.
Decision(o) ==
    IF o = NoRow THEN "wait_for_calibration"
    ELSE IF o.age > Freshness THEN "wait_for_calibration"
    ELSE IF o.good THEN "allow" ELSE "reject"

CanWait(t) == waits[t] < MaxWaits

Unasked(w, delay) == trigger[w]
\* calibration_trigger.set(), before the task is put into the wait queue.
Asked(w, delay) == trigger[w] \/ delay

\* handle_message acts on the decision; a task out of attempts fails.
Evaluate(w) ==
    LET t == holding[w]
        d == Decision(seen[w])
        delay == d = "wait_for_calibration" /\ CanWait(t)
    IN  /\ t # NoTask
        /\ state[t] = "evaluate"
        /\ state' = [state EXCEPT ![t] =
                        CASE d = "allow"  -> "executed"
                          [] d = "reject" -> "rejected"
                          [] delay        -> "queued"
                          [] OTHER        -> "exhausted"]
        /\ waits' = [waits EXCEPT ![t] = IF delay THEN @ + 1 ELSE @]
        /\ due' = [due EXCEPT ![t] = IF delay THEN WaitDelay ELSE @]
        /\ clean' = [clean EXCEPT ![t] = IF delay /\ waits[t] = 0 THEN TRUE ELSE @]
        /\ trigger' = [trigger EXCEPT ![w] = Asked(w, delay)]
        /\ asked' = [asked EXCEPT ![w] = @ \/ delay]
        /\ holding' = [holding EXCEPT ![w] = NoTask]
        /\ seen' = [seen EXCEPT ![w] = NoRow]
        /\ UNCHANGED <<snapshot, newest, loop, left, obs, healthy, faults>>

-------------------------------------------------------------------------------
(* Crashes and time.                                                           *)

GivenUp(w) == state
\* The broker takes the unacked task of a dead worker back.
GivenBack(w) == [t \in Tasks |-> IF t = holding[w] THEN "queued" ELSE state[t]]

\* The process dies: loop and trigger with it, and the task is redelivered.
Crash(w) ==
    /\ loop[w] # "down"
    /\ Fault
    /\ loop' = [loop EXCEPT ![w] = "down"]
    /\ obs' = [obs EXCEPT ![w] = NoRow]
    /\ trigger' = [trigger EXCEPT ![w] = FALSE]
    /\ asked' = [asked EXCEPT ![w] = FALSE]
    /\ healthy' = [healthy EXCEPT ![w] = FALSE]
    /\ clean' = [t \in Tasks |-> FALSE]
    /\ state' = GivenBack(w)
    /\ holding' = [holding EXCEPT ![w] = NoTask]
    /\ seen' = [seen EXCEPT ![w] = NoRow]
    /\ left' = [left EXCEPT ![w] = 0]
    /\ UNCHANGED <<snapshot, newest, waits, due>>

Restart(w) ==
    /\ loop[w] = "down"
    /\ loop' = [loop EXCEPT ![w] = "probe"]
    /\ left' = [left EXCEPT ![w] = CycleTime]
    /\ UNCHANGED <<snapshot, newest, obs, trigger, asked, healthy, gateVars, taskVars, faults>>

Older(age) == Min({age + 1, Freshness + 1})
Aged(o) == IF o = NoRow THEN NoRow ELSE [o EXCEPT !.age = Older(@)]
Less(n) == IF n = 0 THEN 0 ELSE n - 1

\* A tick waits for every cycle that has used up its time, for every sleeper
\* whose interval is over or whose event is set, and for the answer to a query:
\* reading one row takes less than a tick.
Tick ==
    /\ \A t \in Tasks : state[t] # "evaluate"
    /\ \A w \in Workers : loop[w] # "down" => left[w] > 0
    /\ \A w \in Workers : loop[w] = "sleep" => ~trigger[w]
    /\ snapshot' = Aged(snapshot)
    /\ newest' = Older(newest)
    /\ left' = [w \in Workers |-> Less(left[w])]
    /\ obs' = [w \in Workers |-> Aged(obs[w])]
    /\ due' = [t \in Tasks |-> Less(due[t])]
    /\ UNCHANGED <<loop, trigger, asked, healthy, gateVars, state, waits, clean, faults>>

-------------------------------------------------------------------------------
Cycle(w) == Measure(w) \/ Save(w) \/ PublishCalibration(w) \/ Wake(w)
Gate(w) == ReadSnapshot(w) \/ Evaluate(w)

Next ==
    \/ \E w \in Workers :
          \/ Cycle(w) \/ CycleFails(w)
          \/ Gate(w)
          \/ \E t \in Tasks : Deliver(w, t)
          \/ Crash(w) \/ Restart(w)
    \/ Tick

Spec == Init /\ [][Next]_vars

\* The event loop of a live process serves both coroutines, and time passes.
Fairness ==
    /\ WF_vars(Tick)
    /\ \A w \in Workers :
          /\ WF_vars(Cycle(w))
          /\ WF_vars(Gate(w))
          /\ WF_vars(\E t \in Tasks : Deliver(w, t))

FairSpec == Spec /\ Fairness

-------------------------------------------------------------------------------
(* Properties.                                                                 *)

\* A process whose probes do not fail keeps the shared snapshot fresh, whatever
\* the others do to the row: the interval, the cycle time and the late upsert of
\* a slower worker together stay within the freshness window.
FreshWhileHealthy ==
    (\E w \in Workers : healthy[w]) => snapshot # NoRow /\ snapshot.age <= Freshness

\* A VQE task runs out of waiting attempts only if some cycle failed, or some
\* worker died, after its first wait: the probe its wait triggered is saved
\* before the attempts are used up.
ExhaustionNeedsFailure ==
    \A t \in Tasks : state[t] = "exhausted" => ~clean[t]

\* No wakeup is lost: a loop that goes to sleep while a request has come since
\* its last probe began finds the event set, even one made during that probe.
NoLostWakeup ==
    \A w \in Workers : asked[w] /\ loop[w] = "sleep" => trigger[w]

\* Workers overwrite each other's row without comparing timestamps; the row is
\* nevertheless never more than a cycle older than the newest probe saved.
LagBounded ==
    snapshot # NoRow => snapshot.age <= newest + CycleTime

\* A VQE task does not wait for ever: as long as some worker stays up, it is
\* executed, rejected or given up.
EveryVqeDecided ==
    (\E w \in Workers : <>[](loop[w] # "down")) =>
        \A t \in Tasks : <>(state[t] \in Decided)

\* calibration-aware-execution.md:16-17: the snapshot contains the latest
\* observation of the backend.
SnapshotIsLatest ==
    snapshot # NoRow => snapshot.age <= newest
===============================================================================
