------------------------------ MODULE VqeTelemetry ------------------------------
(* Where the numbers of a VQE run go: publish_vqe_history of the orchestrator   *)
(* (services/orchestrator/app/tasks/vqe_metrics.py) puts them on the topic      *)
(* vqe-iteration-metrics, the Faust agent process_vqe_iteration of              *)
(* services/stream-analytics/app/faust_app.py aggregates them by window and     *)
(* publishes each aggregate on vqe-window-metrics, and the consumer             *)
(* (consumer.py, sinks/timescale_sink.py) inserts what it reads from both into  *)
(* TimescaleDB.  It reads calibration-results in the same way, and keeps the    *)
(* last rates of each backend in memory (rolling.py) to log their average.      *)
(*                                                                              *)
(* Kafka and Faust are external, with the same guarantees as in                 *)
(* CalibrationStream.  The agent reads its record at .now(), which may be the   *)
(* window of the event or that of the clock, and stores it at the window of the *)
(* event; the record is an object (store="memory://") that it changes in place. *)
(* So an event handled after its window has ended may make two windows refer to *)
(* one record.  The sums of an aggregate grow with its count and are            *)
(* represented by it.                                                           *)
EXTENDS Integers, Sequences, FiniteSets

CONSTANTS
    Experiments,
    Energies,       \* energies an iteration may report
    Backends, Rates,  \* backends that are calibrated, and their error rates
    WindowSize,     \* window_size of RollingErrorRate
    MaxPublished,   \* bound: messages for the consumer; an iteration makes two
    MaxWindows,     \* bound: tumbling windows
    MaxFaults,      \* bound: processes that end, and awaits that raise
    NoOffset,       \* the consumer group has committed nothing yet
    Nothing         \* the consumer is between two messages

Topics == {"vqe-iteration-metrics", "vqe-window-metrics", "calibration-results"}

ASSUME TelemetryAssumption ==
    /\ Energies \subseteq Int
    /\ {MaxPublished, MaxWindows, MaxFaults} \subseteq Nat
    /\ MaxWindows > 0
    /\ WindowSize \in Nat \ {0}
    /\ NoOffset \notin Nat
    /\ Nothing \notin Topics \X Nat

VARIABLES
    iterations,  \* the topic vqe-iteration-metrics
    results,     \* the topic calibration-results
    clock,       \* the current tumbling window
    sending,     \* the agent is at the await of vqe_window_topic.send
    next,        \* events it has handled
    committed,   \* its committed offset
    table,       \* vqe_window_state: the record an experiment's window refers to
    records,     \* the records, by the window they were made for
    changelog,   \* the changelog topic of the table: what was stored last
    crossed,     \* history: windows read or written by an event at another .now()
    snapshots,   \* the topic vqe-window-metrics
    up,          \* the consumer process runs
    position,    \* messages it has taken from each topic, or passed over
    offset,      \* the offsets its group has committed
    inserting,   \* the message it is inserting
    rolling,     \* RollingErrorRate._samples
    rows,        \* rows in TimescaleDB for each message
    high,        \* history: the last event that was ever aggregated
    aggregated,  \* history: aggregations so far
    began,       \* history: where the running process began to read
    origin,      \* history: messages before the last start without an offset
    failed,      \* history: messages whose insert raised
    stops,       \* history: how often the consumer ended
    faults       \* ended processes and raised awaits so far

sources == <<iterations, results, clock>>
store == <<table, records, changelog, crossed>>
agent == <<sending, next, committed, store, snapshots, high, aggregated>>
sink == <<up, position, offset, inserting, rolling, rows, began, origin, failed, stops>>
vars == <<sources, agent, sink, faults>>

Windows == 1 .. MaxWindows
Keys == Experiments \X Windows
\* VQEWindowState, with one count for all of its sums.
Empty == [count |-> 0, best |-> 0]

\* Messages on a topic.
Length(t) == CASE t = "vqe-iteration-metrics" -> Len(iterations)
               [] t = "vqe-window-metrics" -> Len(snapshots)
               [] t = "calibration-results" -> Len(results)

\* No message is more often than possible on a topic or in the tables: a
\* snapshot is sent at most once for each aggregation.
MaxMessages == MaxPublished * (MaxFaults + 1)
Messages == Topics \X (1 .. MaxMessages)

Init ==
    /\ iterations = <<>>
    /\ results = <<>>
    /\ clock = 1
    /\ sending = FALSE
    /\ next = 0
    /\ committed = 0
    /\ table = [k \in Keys |-> k]
    /\ records = [k \in Keys |-> Empty]
    /\ changelog = [k \in Keys |-> Empty]
    /\ crossed = {}
    /\ snapshots = <<>>
    /\ up = FALSE
    /\ position = [t \in Topics |-> 0]
    /\ offset = [t \in Topics |-> NoOffset]
    /\ inserting = Nothing
    /\ rolling = [b \in Backends |-> <<>>]
    /\ began = [t \in Topics |-> 0]
    /\ rows = [m \in Messages |-> 0]
    /\ high = 0
    /\ aggregated = 0
    /\ origin = [t \in Topics |-> 0]
    /\ failed = {}
    /\ stops = 0
    /\ faults = 0

Fault ==
    /\ faults < MaxFaults
    /\ faults' = faults + 1

--------------------------------------------------------------------------------
(* The orchestrator.                                                           *)

Room(n) == 2 * Len(iterations) + Len(results) + n <= MaxPublished

\* publish_vqe_history: one more entry of some run's history is on the topic.
\* After any of them it may give up the rest, because a send raised or the
\* process ended; a redelivered task runs, and publishes, again.
PublishIteration(e) ==
    /\ Room(2)
    /\ \E energy \in Energies :
           iterations' = Append(iterations,
                                [experiment |-> e, energy |-> energy, window |-> clock])
    /\ UNCHANGED <<results, clock, agent, sink, faults>>

\* publish_calibration_result of some worker.
PublishCalibration(b, rate) ==
    /\ Room(1)
    /\ results' = Append(results, [backend |-> b, rate |-> rate])
    /\ UNCHANGED <<iterations, clock, agent, sink, faults>>

\* A tumbling window ends.
Roll ==
    /\ clock < MaxWindows
    /\ clock' = clock + 1
    /\ UNCHANGED <<iterations, results, agent, sink, faults>>

--------------------------------------------------------------------------------
(* The agent process_vqe_iteration.                                            *)

Lesser(a, b) == IF a <= b THEN a ELSE b

\* A plausible slip: a best energy of 0.0 is taken for "none yet".
AggregateSentinel(state, energy) ==
    [count |-> state.count + 1,
     best  |-> IF state.best = 0 THEN energy ELSE Lesser(state.best, energy)]

\* One iteration enters the aggregate of its window.
Aggregate(state, energy) ==
    [count |-> state.count + 1,
     best  |-> IF state.count = 0 THEN energy ELSE Lesser(state.best, energy)]

Current == iterations[next + 1]
Key == <<Current.experiment, Current.window>>

\* The record read at the key now takes the event in, and is stored at Key.
Store(now) ==
    LET r == table[now]
    IN  /\ records' = [records EXCEPT ![r] = Aggregate(@, Current.energy)]
        /\ table' = [table EXCEPT ![Key] = r]
        /\ changelog' = [changelog EXCEPT ![Key] = Aggregate(records[r], Current.energy)]
        /\ crossed' = IF now = Key THEN crossed ELSE crossed \cup {now, Key}

\* The aggregate is updated and stored before the send is awaited.
Handle ==
    /\ ~sending
    /\ next < Len(iterations)
    /\ \E window \in {Current.window, clock} : Store(<<Current.experiment, window>>)
    /\ sending' = TRUE
    /\ high' = IF next < high THEN high ELSE next + 1
    /\ aggregated' = aggregated + 1
    /\ UNCHANGED <<sources, next, committed, snapshots, sink, faults>>

\* vqe_window_topic.send returns.
SendSnapshot ==
    /\ sending
    /\ snapshots' = Append(snapshots, [experiment |-> Current.experiment,
                                       count |-> records[table[Key]].count,
                                       best |-> records[table[Key]].best])
    /\ sending' = FALSE
    /\ next' = next + 1
    /\ UNCHANGED <<sources, committed, store, high, aggregated, sink, faults>>

\* The send raises: Faust starts the agent again, with this event or the next.
\* The records stay in the memory of the process.
SendRaises ==
    /\ sending
    /\ Fault
    /\ sending' = FALSE
    /\ next' \in {next, next + 1}
    /\ UNCHANGED <<sources, committed, store, snapshots, high, aggregated, sink>>

Commit ==
    /\ committed < next
    /\ committed' = next
    /\ UNCHANGED <<sources, sending, next, store, snapshots, high, aggregated, sink, faults>>

\* The Faust worker dies and is started again, with a record for each window,
\* as the changelog has it.
Crash ==
    /\ Fault
    /\ sending' = FALSE
    /\ next' = committed
    /\ table' = [k \in Keys |-> k]
    /\ records' = changelog
    /\ UNCHANGED <<sources, committed, changelog, crossed, snapshots, high, aggregated, sink>>

--------------------------------------------------------------------------------
(* consumer.py.                                                                *)

\* consumer.start(): from the committed offset on, or from the topic's end
\* (auto_offset_reset="latest") when there is none.
Start ==
    /\ ~up
    /\ up' = TRUE
    /\ position' = [t \in Topics |-> IF offset[t] = NoOffset THEN Length(t) ELSE offset[t]]
    /\ origin' = [t \in Topics |-> IF offset[t] = NoOffset THEN Length(t) ELSE origin[t]]
    /\ rolling' = [b \in Backends |-> <<>>]
    /\ began' = position'
    /\ UNCHANGED <<sources, agent, offset, inserting, rows, failed, stops, faults>>

\* A plausible slip: full one sample early.
AddSampleEarly(samples, rate) ==
    LET all == Append(samples, rate)
    IN  SubSeq(all, IF Len(all) >= WindowSize THEN 2 ELSE 1, Len(all))

\* deque(maxlen=window_size): the oldest sample makes room for the new one.
AddSample(samples, rate) ==
    LET all == Append(samples, rate)
    IN  SubSeq(all, IF Len(all) > WindowSize THEN 2 ELSE 1, Len(all))

\* The loop takes the next message of some topic, and a calibration result into
\* the rolling window of its backend, before it awaits the INSERT.
Take(t) ==
    /\ up
    /\ inserting = Nothing
    /\ position[t] < Length(t)
    /\ position' = [position EXCEPT ![t] = @ + 1]
    /\ inserting' = <<t, position[t] + 1>>
    /\ rolling' = IF t = "calibration-results"
                  THEN LET r == results[position[t] + 1]
                       IN  [rolling EXCEPT ![r.backend] = AddSample(@, r.rate)]
                  ELSE rolling
    /\ UNCHANGED <<sources, agent, up, offset, rows, began, origin, failed, stops, faults>>

\* The INSERT for the message's topic returns.
Insert ==
    /\ inserting # Nothing
    /\ rows' = [rows EXCEPT ![inserting] = @ + 1]
    /\ inserting' = Nothing
    /\ UNCHANGED <<sources, agent, up, position, offset, rolling, began, origin, failed, stops, faults>>

\* It raises, perhaps after the row was written; the exception is logged and
\* the loop goes on.
InsertRaises ==
    /\ inserting # Nothing
    /\ Fault
    /\ rows' \in {rows, [rows EXCEPT ![inserting] = @ + 1]}
    /\ failed' = failed \cup {inserting}
    /\ inserting' = Nothing
    /\ UNCHANGED <<sources, agent, up, position, offset, rolling, began, origin, stops>>

\* A plausible slip: what was fetched.
ConsumedFetched(t) == Length(t)

\* What aiokafka commits for a topic: the messages the loop has been given, the
\* one being inserted among them.
Consumed(t) == position[t]

\* aiokafka's timer commits, at any time.
AutoCommit ==
    /\ up
    /\ offset' = [t \in Topics |-> Consumed(t)]
    /\ UNCHANGED <<sources, agent, up, position, inserting, rolling, rows, began, origin, failed, stops, faults>>

\* The process ends: killed, or stopped, when consumer.stop() commits once more.
\* An insert under way may or may not have been carried out.
Stop ==
    /\ up
    /\ Fault
    /\ up' = FALSE
    /\ offset' \in {offset, [t \in Topics |-> Consumed(t)]}
    /\ rows' \in {rows} \cup {[rows EXCEPT ![m] = @ + 1] : m \in {inserting} \ {Nothing}}
    /\ inserting' = Nothing
    /\ stops' = stops + 1
    /\ position' = [t \in Topics |-> 0]
    /\ UNCHANGED <<sources, agent, rolling, began, origin, failed>>

Next ==
    \/ \E e \in Experiments : PublishIteration(e)
    \/ \E b \in Backends, rate \in Rates : PublishCalibration(b, rate)
    \/ Roll
    \/ Handle
    \/ SendSnapshot
    \/ SendRaises
    \/ Commit
    \/ Crash
    \/ Start
    \/ \E t \in Topics : Take(t)
    \/ Insert
    \/ InsertRaises
    \/ AutoCommit
    \/ Stop

Spec == Init /\ [][Next]_vars

--------------------------------------------------------------------------------
(* Properties.                                                                 *)

\* The events of a window that the agent has ever aggregated.
Members(e, w) ==
    {i \in 1 .. high : iterations[i].experiment = e /\ iterations[i].window = w}

\* faust_app.py:259-261: best_energy is the least energy of the window, for any
\* sign of the energies, and however often a fault makes the agent aggregate an
\* event again.  The counts do grow with every repetition, but never lose an
\* event, and without a fault they are exact.  A window that an event of another
\* one was counted in, or that an event was taken from, promises none of this.
AggregatesAreSound ==
    \A e \in Experiments, w \in Windows :
        LET state == records[table[<<e, w>>]]
            members == Members(e, w)
        IN  <<e, w>> \notin crossed =>
                /\ state.count >= Cardinality(members)
                /\ faults = 0 => state.count = Cardinality(members)
                /\ members # {} =>
                       /\ \E i \in members : iterations[i].energy = state.best
                       /\ \A i \in members : state.best <= iterations[i].energy

\* An aggregate counts no more events than were ever aggregated, and its best
\* energy is that of an iteration of its own experiment.
IsOf(e, state) ==
    /\ state.count \in 1 .. aggregated
    /\ \E i \in 1 .. high : iterations[i].experiment = e /\ iterations[i].energy = state.best

\* faust_app.py:548-550: whatever window an aggregate is stored at, and whatever
\* is restored after a crash, the energies of two experiments are never mixed,
\* and no snapshot is taken of a record that has counted nothing.
EnergiesAreOwn ==
    /\ \A k \in Keys : \A state \in {records[table[k]], changelog[k]} :
           state.count > 0 => IsOf(k[1], state)
    /\ \A n \in 1 .. Len(snapshots) : IsOf(snapshots[n].experiment, snapshots[n])

\* Each aggregation is published unless a fault came between: vqe-window-metrics
\* misses at most one snapshot for each fault.
SnapshotsAccounted ==
    LET atSend == IF sending THEN 1 ELSE 0
    IN  aggregated - Len(snapshots) \in atSend .. faults + atSend

\* What the topic vqe-window-metrics carries can be relied upon.
SnapshotsAreSound == AggregatesAreSound /\ EnergiesAreOwn /\ SnapshotsAccounted

\* A message the loop has left behind without a row.
Missing(m) == m[2] <= position[m[1]] /\ m # inserting /\ rows[m] = 0

\* consumer.py:5-7: the history survives a restart, but for the messages that
\* came before the first commit, those whose insert raised, and one for each
\* time the process ended.  No message has more rows than times it was read.
RowsAccounted ==
    /\ Cardinality({m \in Messages : Missing(m) /\ m[2] > origin[m[1]] /\ m \notin failed})
           <= stops
    /\ \A m \in Messages : rows[m] <= stops + 1

\* The results of a backend that the running process has read.
Own(b) ==
    {i \in began["calibration-results"] + 1 .. position["calibration-results"] :
        results[i].backend = b}

\* rolling.py:34-41: the average that is logged is that of the backend's last
\* results, up to WindowSize of them, among those the running process has read:
\* each once and in their order, whatever their inserts did and whatever other
\* messages came between; nothing of an earlier process is left in it.
WindowIsRecent ==
    up => \A b \in Backends :
        LET n == Len(rolling[b])
            newer(i) == Cardinality({j \in Own(b) : j > i})
        IN  /\ n = IF Cardinality(Own(b)) < WindowSize THEN Cardinality(Own(b)) ELSE WindowSize
            /\ \A i \in Own(b) :
                   newer(i) < n => rolling[b][n - newer(i)] = results[i].rate
================================================================================
