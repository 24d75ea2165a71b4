--------------------------- MODULE VqeTelemetryProofs ---------------------------
(* Theorems about VqeTelemetry, for any experiments, energies, backends and     *)
(* rates, any window size, and any bounds on messages, windows and faults.      *)
(*                                                                              *)
(* The two halves of the module do not need each other: AgentInv, StoreInv,     *)
(* TableInv and OwnInv are about the agent and its table, SinkInv, RowsInv and  *)
(* WindowIsRecent about the consumer.  Both need the types, and the consumer needs to know that no   *)
(* topic holds more messages than rows counts.                                  *)
EXTENDS VqeTelemetry, FiniteSetTheorems, TLAPS

C == "calibration-results"
Iteration == [experiment : Experiments, energy : Energies, window : Windows]
Result == [backend : Backends, rate : Rates]
State == [count : Nat, best : Int]
Snapshot == [experiment : Experiments, count : Nat, best : Int]

Types ==
    /\ iterations \in Seq(Iteration)
    /\ results \in Seq(Result)
    /\ clock \in Windows
    /\ sending \in BOOLEAN
    /\ next \in Nat
    /\ committed \in Nat
    /\ table \in [Keys -> Keys]
    /\ records \in [Keys -> State]
    /\ changelog \in [Keys -> State]
    /\ crossed \subseteq Keys
    /\ snapshots \in Seq(Snapshot)
    /\ up \in BOOLEAN
    /\ position \in [Topics -> Nat]
    /\ offset \in [Topics -> Nat \cup {NoOffset}]
    /\ inserting \in Messages \cup {Nothing}
    /\ rolling \in [Backends -> Seq(Rates)]
    /\ rows \in [Messages -> Nat]
    /\ high \in Nat
    /\ aggregated \in Nat
    /\ began \in [Topics -> Nat]
    /\ origin \in [Topics -> Nat]
    /\ failed \subseteq Messages
    /\ stops \in Nat
    /\ faults \in Nat

AtSend == IF sending THEN 1 ELSE 0

\* Where the agent is: what it has committed it has handled, what it has handled
\* it has aggregated, and only a fault sends it back.  A fault repeats at most
\* the events there are, which bounds the snapshots.
AgentInv ==
    /\ 2 * Len(iterations) + Len(results) <= MaxPublished
    /\ faults <= MaxFaults
    /\ committed <= next
    /\ next + AtSend <= high
    /\ high <= Len(iterations)
    /\ faults = 0 => high = next + AtSend
    /\ Len(snapshots) <= next + MaxPublished * faults
    /\ SnapshotsAccounted

\* A record stays with its experiment.  A window that no event was handled
\* across refers to its own record, no other window refers to it, and the
\* changelog holds what it holds.
StoreInv ==
    /\ \A k \in Keys : table[k][1] = k[1]
    /\ \A k \in Keys : k \notin crossed =>
           /\ changelog[k] = records[k]
           /\ \A l \in Keys : table[l] = k <=> l = k

\* AggregatesAreSound for one window, which needs to know that a counted window
\* has a member: a best energy is the energy of one.
SoundAt(e, w) ==
    LET state == records[table[<<e, w>>]]
        members == Members(e, w)
    IN  /\ state.count >= Cardinality(members)
        /\ faults = 0 => state.count = Cardinality(members)
        /\ members # {} =>
               /\ \E i \in members : iterations[i].energy = state.best
               /\ \A i \in members : state.best <= iterations[i].energy
        /\ state.count > 0 => members # {}

TableInv ==
    \A e \in Experiments, w \in Windows : <<e, w>> \notin crossed => SoundAt(e, w)

\* EnergiesAreOwn holds of the records no window refers to as well; the one that
\* is being sent has counted an event.
OwnInv ==
    /\ \A k \in Keys : \A state \in {records[k], changelog[k]} :
           state.count > 0 => IsOf(k[1], state)
    /\ \A n \in 1 .. Len(snapshots) : IsOf(snapshots[n].experiment, snapshots[n])
    /\ sending => records[table[Key]].count > 0

\* Where the consumer is.
SinkInv ==
    /\ inserting # Nothing => up /\ inserting[2] <= position[inserting[1]]
    /\ ~up => \A t \in Topics : position[t] = 0
    /\ up => began[C] <= position[C] /\ position[C] <= Len(results)
    /\ offset[C] # NoOffset => offset[C] <= Len(results)

\* The messages that no process will insert any more, or has under way, and that
\* only the end of a process can explain: those the running process has passed,
\* and those the next one will not read.
Passed(m) ==
    \/ m[2] <= position[m[1]]
    \/ offset[m[1]] # NoOffset /\ m[2] <= offset[m[1]]
Unexplained ==
    {m \in Messages : Passed(m) /\ rows[m] = 0 /\ m[2] > origin[m[1]] /\ m \notin failed}

\* A process that ends leaves at most the message it was inserting.  Each
\* process inserts a message once, so the running one has added a row at most to
\* what it has left behind.
RowsInv ==
    /\ Cardinality(Unexplained \ {inserting}) <= stops
    /\ \A m \in Messages :
           rows[m] <= stops + IF up /\ m[2] <= position[m[1]] /\ m # inserting THEN 1 ELSE 0

IInv == Types /\ AgentInv /\ StoreInv /\ TableInv /\ OwnInv /\ SinkInv /\ RowsInv /\ WindowIsRecent
--------------------------------------------------------------------------------
(* Lemmas about the operators of the model.                                    *)

\* A topic holds some number of messages.
LEMMA TopicLength ==
    ASSUME Types, NEW t \in Topics
    PROVE  Length(t) \in Nat
<1>1. /\ iterations \in Seq(Iteration) /\ snapshots \in Seq(Snapshot)
      /\ results \in Seq(Result)
  BY DEF Types
<1>2. {Len(iterations), Len(snapshots), Len(results)} \subseteq Nat
  BY <1>1
<1> QED
  BY <1>2 DEF Length, Topics

\* rows counts every message there can be: the faults allow each event to be
\* aggregated, and its snapshot sent, MaxFaults times more.
LEMMA EveryMessageCounts ==
    ASSUME Types, AgentInv, NEW t \in Topics
    PROVE  Length(t) <= MaxMessages
<1>1. /\ {Len(iterations), Len(results), Len(snapshots), next, high, faults} \subseteq Nat
      /\ {MaxPublished, MaxFaults} \subseteq Nat
      /\ AtSend \in {0, 1}
  BY TelemetryAssumption DEF Types, AtSend
<1>2. MaxPublished * (MaxFaults + 1) = MaxPublished * MaxFaults + MaxPublished
  BY <1>1
<1>3. /\ MaxPublished * faults \in Nat
      /\ MaxPublished * MaxFaults \in Nat
      /\ MaxPublished * faults <= MaxPublished * MaxFaults
  <2>1. faults <= MaxFaults
    BY DEF AgentInv
  <2>2. \A p \in Nat, a \in Nat, b \in Nat :
            a <= b => p * a \in Nat /\ p * b \in Nat /\ p * a <= p * b
    OBVIOUS
  <2> QED
    BY <1>1, <2>1, <2>2
<1>4. /\ Len(iterations) <= MaxPublished
      /\ Len(results) <= MaxPublished
      /\ next <= MaxPublished
  BY <1>1 DEF AgentInv
<1>5. Len(snapshots) <= MaxPublished * MaxFaults + MaxPublished
  BY <1>1, <1>3, <1>4 DEF AgentInv
<1> QED
  BY <1>1, <1>2, <1>3, <1>4, <1>5 DEF Length, Topics, MaxMessages

\* The messages are finitely many.
LEMMA MessagesAreFinite == IsFiniteSet(Messages)
<1>1. IsFiniteSet(1 .. MaxMessages)
  <2>1. MaxMessages \in Nat
    BY TelemetryAssumption DEF MaxMessages
  <2> QED
    BY <2>1, FS_Interval
<1>2. IsFiniteSet(Topics)
  <2>1. /\ IsFiniteSet({})
        /\ IsFiniteSet({"vqe-iteration-metrics"})
    BY FS_EmptySet, FS_Singleton
  <2>2. IsFiniteSet({"vqe-iteration-metrics", "vqe-window-metrics"})
    <3>1. {"vqe-iteration-metrics", "vqe-window-metrics"}
              = {"vqe-iteration-metrics"} \cup {"vqe-window-metrics"}
      OBVIOUS
    <3> QED
      BY <2>1, <3>1, FS_AddElement
  <2>3. Topics = {"vqe-iteration-metrics", "vqe-window-metrics"} \cup {C}
    BY DEF Topics, C
  <2> QED
    BY <2>2, <2>3, FS_AddElement
<1> QED
  BY <1>1, <1>2, FS_Product DEF Messages

\* AddSample drops the oldest sample of a full window and keeps the order.
LEMMA SampleAdded ==
    ASSUME NEW samples \in Seq(Rates), NEW rate \in Rates,
           Len(samples) <= WindowSize
    PROVE  LET added == AddSample(samples, rate)
               full == Len(samples) = WindowSize
           IN  /\ added \in Seq(Rates)
               /\ Len(added) = IF full THEN WindowSize ELSE Len(samples) + 1
               /\ added[Len(added)] = rate
               /\ \A k \in 1 .. Len(added) - 1 :
                      added[k] = samples[IF full THEN k + 1 ELSE k]
<1>1. WindowSize \in Nat \ {0}
  BY TelemetryAssumption
<1>2. PICK all \in Seq(Rates) : all = Append(samples, rate)
  <2>1. Append(samples, rate) \in Seq(Rates)
    OBVIOUS
  <2> QED
    BY <2>1
<1>3. /\ Len(all) = Len(samples) + 1
      /\ all[Len(samples) + 1] = rate
      /\ \A k \in 1 .. Len(samples) : all[k] = samples[k]
  BY <1>2
<1>4. CASE Len(samples) = WindowSize
  <2>1. AddSample(samples, rate) = SubSeq(all, 2, WindowSize + 1)
    BY <1>1, <1>2, <1>3, <1>4 DEF AddSample
  <2> QED
    BY <1>1, <1>3, <1>4, <2>1
<1>5. CASE Len(samples) # WindowSize
  <2>1. AddSample(samples, rate) = SubSeq(all, 1, Len(samples) + 1)
    BY <1>1, <1>2, <1>3, <1>5 DEF AddSample
  <2> QED
    BY <1>1, <1>3, <1>5, <2>1
<1> QED
  BY <1>4, <1>5

--------------------------------------------------------------------------------
(* Types.                                                                      *)

\* Every handler keeps the types.
LEMMA TypesKept ==
    ASSUME Types, AgentInv, [Next]_vars
    PROVE  Types'
<1> USE TelemetryAssumption
<1>1. ASSUME NEW e \in Experiments, PublishIteration(e)
      PROVE  Types'
  BY <1>1 DEF Types, PublishIteration, agent, store, sink, Iteration
<1>2. ASSUME NEW b \in Backends, NEW rate \in Rates, PublishCalibration(b, rate)
      PROVE  Types'
  BY <1>2 DEF Types, PublishCalibration, agent, store, sink, Result
<1>3. CASE Roll
  BY <1>3 DEF Types, Roll, agent, store, sink, Windows
<1>4. CASE Handle
  <2>1. /\ Current \in Iteration
        /\ clock \in Windows
    BY <1>4 DEF Types, Handle, Current
  <2>2. PICK window \in Windows : Store(<<Current.experiment, window>>)
    BY <1>4, <2>1 DEF Handle, Iteration
  <2>3. PICK now \in Keys : now = <<Current.experiment, window>> /\ Store(now)
    BY <2>1, <2>2 DEF Iteration, Keys
  <2>4. /\ Key \in Keys
        /\ Current.energy \in Int
    BY <2>1 DEF Iteration, Keys, Key
  <2>5. \A state \in State : Aggregate(state, Current.energy) \in State
    BY <2>4 DEF Aggregate, Lesser, State
  <2>6. PICK r \in Keys : r = table[now]
    BY DEF Types
  <2>7. /\ records' = [records EXCEPT ![r] = Aggregate(@, Current.energy)]
        /\ table' = [table EXCEPT ![Key] = r]
        /\ changelog' = [changelog EXCEPT ![Key] = Aggregate(records[r], Current.energy)]
        /\ crossed' \in {crossed, crossed \cup {now, Key}}
    BY <2>3, <2>6 DEF Store
  <2>8. records[r] \in State
    BY DEF Types
  <2>9. /\ records' \in [Keys -> State]
        /\ changelog' \in [Keys -> State]
    BY <2>5, <2>7, <2>8 DEF Types
  <2>10. /\ table' \in [Keys -> Keys]
         /\ crossed' \subseteq Keys
    BY <2>3, <2>4, <2>7 DEF Types
  <2> QED
    BY <1>4, <2>9, <2>10 DEF Types, Handle, sources, sink
<1>5. CASE SendSnapshot
  <2>1. Current \in Iteration
    BY <1>5 DEF Types, SendSnapshot, Current, AgentInv, AtSend
  <2>2. Key \in Keys
    BY <2>1 DEF Iteration, Keys, Key
  <2>3. records[table[Key]] \in State
    BY <2>2 DEF Types
  <2>4. [experiment |-> Current.experiment, count |-> records[table[Key]].count,
         best |-> records[table[Key]].best] \in Snapshot
    BY <2>1, <2>3 DEF Snapshot, Iteration, State
  <2>5. snapshots' \in Seq(Snapshot) /\ next' \in Nat
    BY <1>5, <2>4 DEF Types, SendSnapshot
  <2> QED
    BY <1>5, <2>5 DEF Types, SendSnapshot, sources, sink, store
<1>6. CASE SendRaises
  <2>1. next' \in Nat /\ faults' \in Nat
    BY <1>6 DEF Types, SendRaises, Fault
  <2>2. /\ UNCHANGED <<sources, sink, store, committed, snapshots, high, aggregated>>
        /\ sending' \in BOOLEAN
    BY <1>6 DEF SendRaises
  <2> QED
    BY <2>1, <2>2 DEF Types, sources, sink, store
<1>7. CASE Commit
  BY <1>7 DEF Types, Commit, sources, sink, store
<1>8. CASE Crash
  <2>1. next' \in Nat /\ faults' \in Nat
    BY <1>8 DEF Types, Crash, Fault
  <2>2. /\ table' \in [Keys -> Keys]
        /\ records' \in [Keys -> State]
    BY <1>8 DEF Types, Crash
  <2> QED
    BY <1>8, <2>1, <2>2 DEF Types, Crash, sources, sink
<1>9. CASE Start
  <2>1. \A t \in Topics : Length(t) \in Nat
    BY TopicLength
  <2>2. position' \in [Topics -> Nat] /\ origin' \in [Topics -> Nat]
    BY <1>9, <2>1 DEF Start, Types
  <2> QED
    BY <1>9, <2>2 DEF Types, Start, sources, agent, store
<1>10. ASSUME NEW t \in Topics, Take(t)
       PROVE  Types'
  <2>1. Length(t) \in Nat /\ Length(t) <= MaxMessages
    BY TopicLength, EveryMessageCounts
  <2>2. <<t, position[t] + 1>> \in Messages
    <3>1. position[t] \in Nat /\ position[t] < Length(t)
      BY <1>10 DEF Take, Types
    <3>2. MaxMessages \in Nat
      BY DEF MaxMessages
    <3>3. position[t] + 1 \in 1 .. MaxMessages
      BY <2>1, <3>1, <3>2
    <3> QED
      BY <3>3 DEF Messages
  <2>3. rolling' \in [Backends -> Seq(Rates)]
    <3>1. CASE t = C
      <4>1. Length(t) = Len(results)
        BY <3>1 DEF Length, C
      <4>2. position[t] + 1 \in 1 .. Len(results)
        BY <1>10, <4>1 DEF Take, Types
      <4>3. PICK r \in Result : r = results[position[t] + 1]
        BY <4>2 DEF Types
      <4>4. AddSample(rolling[r.backend], r.rate) \in Seq(Rates)
        <5>1. rolling[r.backend] \in Seq(Rates) /\ r.rate \in Rates
          BY DEF Types, Result
        <5>2. PICK all \in Seq(Rates) : all = Append(rolling[r.backend], r.rate)
          <6>1. Append(rolling[r.backend], r.rate) \in Seq(Rates)
            BY <5>1
          <6> QED
            BY <6>1
        <5>3. \A i \in {1, 2} : SubSeq(all, i, Len(all)) \in Seq(Rates)
          OBVIOUS
        <5> QED
          BY <5>2, <5>3 DEF AddSample
      <4> QED
        BY <1>10, <3>1, <4>3, <4>4 DEF Take, Types, C, Result
    <3>2. CASE t # C
      BY <1>10, <3>2 DEF Take, Types, C
    <3> QED
      BY <3>1, <3>2
  <2>4. position' \in [Topics -> Nat]
    BY <1>10 DEF Types, Take
  <2> QED
    BY <1>10, <2>2, <2>3, <2>4 DEF Types, Take, sources, agent, store
<1>11. CASE Insert
  <2>1. rows' \in [Messages -> Nat]
    BY <1>11 DEF Types, Insert
  <2> QED
    BY <1>11, <2>1 DEF Types, Insert, sources, agent, store
<1>12. CASE InsertRaises
  <2>1. inserting \in Messages
    BY <1>12 DEF Types, InsertRaises
  <2>2. [rows EXCEPT ![inserting] = @ + 1] \in [Messages -> Nat]
    BY <2>1 DEF Types
  <2>3. rows' \in [Messages -> Nat] /\ failed' \subseteq Messages
    BY <1>12, <2>1, <2>2 DEF Types, InsertRaises
  <2>4. faults' \in Nat
    BY <1>12 DEF Types, InsertRaises, Fault
  <2> QED
    BY <1>12, <2>3, <2>4 DEF Types, InsertRaises, sources, agent, store
<1>13. CASE AutoCommit
  <2>1. offset' \in [Topics -> Nat \cup {NoOffset}]
    BY <1>13 DEF Types, AutoCommit, Consumed
  <2> QED
    BY <1>13, <2>1 DEF Types, AutoCommit, sources, agent, store
<1>14. CASE Stop
  <2>1. /\ offset' \in [Topics -> Nat \cup {NoOffset}]
        /\ position' \in [Topics -> Nat]
    BY <1>14 DEF Types, Stop, Consumed
  <2>2. rows' \in [Messages -> Nat]
    <3>1. \A m \in Messages : [rows EXCEPT ![m] = @ + 1] \in [Messages -> Nat]
      BY DEF Types
    <3>2. \A m \in {inserting} \ {Nothing} : m \in Messages
      BY DEF Types
    <3>3. rows \in [Messages -> Nat]
      BY DEF Types
    <3>4. rows' \in {rows} \cup {[rows EXCEPT ![m] = @ + 1] : m \in {inserting} \ {Nothing}}
      BY <1>14 DEF Stop
    <3> QED
      BY <3>1, <3>2, <3>3, <3>4
  <2>3. faults' \in Nat /\ stops' \in Nat
    BY <1>14 DEF Types, Stop, Fault
  <2> QED
    BY <1>14, <2>1, <2>2, <2>3 DEF Types, Stop, sources, agent, store
<1>15. CASE UNCHANGED vars
  BY <1>15 DEF Types, vars, sources, agent, store, sink
<1> QED
  BY <1>1, <1>2, <1>3, <1>4, <1>5, <1>6, <1>7, <1>8, <1>9, <1>10, <1>11, <1>12, <1>13,
     <1>14, <1>15 DEF Next
--------------------------------------------------------------------------------
(* The agent and its table.                                                    *)

\* The bounds and counts of the agent: only Handle, SendSnapshot, SendRaises,
\* Commit and Crash touch them, and only PublishIteration lengthens its topic.
LEMMA AgentKept ==
    ASSUME Types, AgentInv, [Next]_vars
    PROVE  AgentInv'
<1>1. /\ Len(iterations) \in Nat /\ Len(results) \in Nat /\ Len(snapshots) \in Nat
      /\ next \in Nat /\ committed \in Nat /\ high \in Nat /\ aggregated \in Nat
      /\ faults \in Nat /\ MaxPublished \in Nat /\ MaxFaults \in Nat
      /\ sending \in BOOLEAN
  BY TelemetryAssumption DEF Types
<1>2. PICK spare \in Nat : spare = MaxPublished * faults
  BY <1>1
<1>3. MaxPublished * (faults + 1) = spare + MaxPublished
  BY <1>1, <1>2
<1>4. /\ 2 * Len(iterations) + Len(results) <= MaxPublished
      /\ faults <= MaxFaults
      /\ committed <= next
      /\ next + AtSend <= high
      /\ high <= Len(iterations)
      /\ faults = 0 => high = next + AtSend
      /\ Len(snapshots) <= next + spare
      /\ aggregated - Len(snapshots) \in AtSend .. faults + AtSend
  BY <1>2 DEF AgentInv, SnapshotsAccounted, AtSend
<1>5. next <= MaxPublished
  BY <1>1, <1>4 DEF AtSend
<1>6. CASE \/ \E e \in Experiments : PublishIteration(e)
           \/ \E b \in Backends, rate \in Rates : PublishCalibration(b, rate)
  <2>1. /\ Len(iterations') \in Nat /\ Len(results') \in Nat
        /\ Len(iterations') >= Len(iterations)
        /\ 2 * Len(iterations') + Len(results') <= MaxPublished
    <3>1. ASSUME NEW e \in Experiments, PublishIteration(e)
          PROVE  /\ Len(iterations') = Len(iterations) + 1
                 /\ results' = results
                 /\ 2 * Len(iterations) + Len(results) + 2 <= MaxPublished
      BY <3>1 DEF PublishIteration, Room, Types
    <3>2. ASSUME NEW b \in Backends, NEW rate \in Rates, PublishCalibration(b, rate)
          PROVE  /\ iterations' = iterations
                 /\ Len(results') = Len(results) + 1
                 /\ 2 * Len(iterations) + Len(results) + 1 <= MaxPublished
      BY <3>2 DEF PublishCalibration, Room, Types
    <3>3. CASE \E e \in Experiments : PublishIteration(e)
      BY <1>1, <3>1, <3>3
    <3>4. CASE \E b \in Backends, rate \in Rates : PublishCalibration(b, rate)
      BY <1>1, <3>2, <3>4
    <3> QED
      BY <1>6, <3>3, <3>4
  <2>2. UNCHANGED <<agent, faults>>
    BY <1>6 DEF PublishIteration, PublishCalibration
  <2> QED
    BY <1>1, <1>4, <2>1, <2>2 DEF AgentInv, SnapshotsAccounted, AtSend, agent
<1>7. CASE Handle
  <2>1. /\ UNCHANGED <<iterations, results, next, committed, snapshots, faults>>
        /\ ~sending /\ sending'
        /\ next < Len(iterations)
        /\ high' = IF next < high THEN high ELSE next + 1
        /\ aggregated' = aggregated + 1
    BY <1>7 DEF Handle, sources
  <2>2. Len(snapshots') <= next' + MaxPublished * faults'
    BY <1>2, <1>4, <2>1
  <2>3. AtSend = 0 /\ AtSend' = 1
    BY <2>1 DEF AtSend
  <2>4. /\ next' + AtSend' <= high'
        /\ high' <= Len(iterations')
        /\ faults' = 0 => high' = next' + AtSend'
    BY <1>1, <1>4, <2>1, <2>3
  <2>5. SnapshotsAccounted'
    BY <1>1, <1>4, <2>1 DEF SnapshotsAccounted, AtSend
  <2> QED
    BY <1>4, <2>1, <2>2, <2>4, <2>5 DEF AgentInv
<1>8. CASE SendSnapshot
  <2>1. /\ UNCHANGED <<iterations, results, high, committed, aggregated, faults>>
        /\ sending /\ ~sending'
        /\ next' = next + 1
        /\ Len(snapshots') = Len(snapshots) + 1
    BY <1>8 DEF SendSnapshot, sources, Types
  <2> QED
    BY <1>1, <1>2, <1>4, <2>1 DEF AgentInv, SnapshotsAccounted, AtSend
<1>9. CASE SendRaises \/ Crash
  <2>1. /\ UNCHANGED <<iterations, results, high, committed, aggregated, snapshots>>
        /\ ~sending'
        /\ \/ sending /\ next' \in {next, next + 1}
           \/ next' = committed
        /\ faults < MaxFaults
        /\ faults' = faults + 1
    <3>1. CASE SendRaises
      BY <3>1 DEF SendRaises, Fault, sources
    <3>2. CASE Crash
      BY <3>2 DEF Crash, Fault, sources
    <3> QED
      BY <1>9, <3>1, <3>2
  <2>2. next' \in Nat /\ committed <= next' /\ next' <= next + AtSend
    BY <1>1, <1>4, <2>1 DEF AtSend
  <2>3. MaxPublished * faults' = spare + MaxPublished
    BY <1>3, <2>1
  <2>4. /\ Len(snapshots) <= next' + (spare + MaxPublished)
        /\ next' <= high
    BY <1>1, <1>4, <1>5, <2>2 DEF AtSend
  <2>5. aggregated - Len(snapshots) \in 0 .. faults + 1
    BY <1>1, <1>4 DEF AtSend
  <2>6. faults' <= MaxFaults /\ faults' # 0
    BY <1>1, <2>1
  <2>7. SnapshotsAccounted'
    BY <2>1, <2>5 DEF SnapshotsAccounted
  <2> QED
    <3>1. /\ next' + AtSend' <= high'
          /\ Len(snapshots') <= next' + MaxPublished * faults'
      <4>1. AtSend' = 0
        BY <2>1 DEF AtSend
      <4>2. next' + AtSend' <= high'
        BY <2>1, <2>2, <2>4, <4>1
      <4>3. Len(snapshots') <= next' + MaxPublished * faults'
        BY <2>1, <2>3, <2>4
      <4> QED
        BY <4>2, <4>3
    <3> QED
      BY <1>1, <1>4, <2>1, <2>2, <2>6, <2>7, <3>1 DEF AgentInv
<1>10. CASE Commit
  BY <1>1, <1>4, <1>10 DEF Commit, sources, AgentInv, SnapshotsAccounted, AtSend
<1>11. CASE UNCHANGED <<iterations, results, agent>> /\ faults' \in {faults, faults + 1} /\ faults' <= MaxFaults
  <2>1. UNCHANGED <<iterations, results, sending, next, committed, snapshots, high, aggregated>>
    BY <1>11 DEF agent
  <2>2. CASE faults' = faults
    BY <2>1, <2>2 DEF AgentInv, SnapshotsAccounted, AtSend
  <2>3. CASE faults' = faults + 1
    <3>1. MaxPublished * faults' = spare + MaxPublished
      BY <1>3, <2>3
    <3> QED
      BY <1>1, <1>4, <1>11, <2>1, <2>3, <3>1 DEF AgentInv, SnapshotsAccounted, AtSend
  <2> QED
    BY <1>11, <2>2, <2>3
<1>12. CASE \/ Roll
            \/ Start
            \/ \E t \in Topics : Take(t)
            \/ Insert
            \/ AutoCommit
            \/ UNCHANGED vars
  <2>1. UNCHANGED <<iterations, results, agent, faults>>
    BY <1>12 DEF Roll, Start, Take, Insert, AutoCommit, vars, sources
  <2> QED
    BY <1>4, <1>11, <2>1
<1>13. CASE InsertRaises \/ Stop
  <2>1. UNCHANGED <<iterations, results, agent>> /\ faults < MaxFaults /\ faults' = faults + 1
    BY <1>13 DEF InsertRaises, Stop, Fault, sources
  <2> QED
    BY <1>1, <1>11, <2>1
<1> QED
  BY <1>6, <1>7, <1>8, <1>9, <1>10, <1>12, <1>13 DEF Next

\* What an event does to the store: the record r that it finds at some window of
\* its experiment takes it in, and is stored at its own.
LEMMA EventStored ==
    ASSUME Types, AgentInv, StoreInv, Handle
    PROVE  /\ Key \in Keys
           /\ Current \in Iteration
           /\ \E now \in Keys, r \in Keys :
                  /\ r = table[now]
                  /\ r[1] = Current.experiment
                  /\ records' = [records EXCEPT ![r] = Aggregate(@, Current.energy)]
                  /\ table' = [table EXCEPT ![Key] = r]
                  /\ changelog' = [changelog EXCEPT ![Key] = Aggregate(records[r], Current.energy)]
                  /\ crossed' = IF now = Key THEN crossed ELSE crossed \cup {now, Key}
<1>1. /\ Current \in Iteration
      /\ clock \in Windows
  BY DEF Types, Handle, Current
<1>2. Key \in Keys
  BY <1>1 DEF Iteration, Keys, Key
<1>3. PICK window \in Windows : Store(<<Current.experiment, window>>)
  BY <1>1 DEF Handle, Iteration
<1>4. PICK now \in Keys : now = <<Current.experiment, window>> /\ Store(now)
  BY <1>1, <1>3 DEF Iteration, Keys
<1>5. PICK r \in Keys : r = table[now]
  BY DEF Types
<1>6. r[1] = Current.experiment
  BY <1>4, <1>5 DEF StoreInv
<1> QED
  BY <1>1, <1>2, <1>4, <1>5, <1>6 DEF Store

\* A window that the event leaves uncrossed is its own, and has taken it in, or
\* has kept its record.
LEMMA HandleKeepsStore ==
    ASSUME Types, AgentInv, StoreInv, Handle
    PROVE  /\ StoreInv'
           /\ \A k \in Keys : k \notin crossed' =>
                  /\ k \notin crossed
                  /\ records'[k] = IF k = Key THEN Aggregate(records[k], Current.energy)
                                              ELSE records[k]
<1>1. Key \in Keys /\ Current \in Iteration /\ Key[1] = Current.experiment
  BY EventStored DEF Key
<1>2. PICK now \in Keys, r \in Keys :
          /\ r = table[now]
          /\ r[1] = Current.experiment
          /\ records' = [records EXCEPT ![r] = Aggregate(@, Current.energy)]
          /\ table' = [table EXCEPT ![Key] = r]
          /\ changelog' = [changelog EXCEPT ![Key] = Aggregate(records[r], Current.energy)]
          /\ crossed' = IF now = Key THEN crossed ELSE crossed \cup {now, Key}
  BY EventStored
<1>3. \A k \in Keys : table'[k][1] = k[1]
  BY <1>1, <1>2 DEF StoreInv, Types
<1>4. ASSUME NEW k \in Keys, k \notin crossed'
      PROVE  /\ k \notin crossed
             /\ changelog'[k] = records'[k]
             /\ \A l \in Keys : table'[l] = k <=> l = k
             /\ records'[k] = IF k = Key THEN Aggregate(records[k], Current.energy) ELSE records[k]
  <2>1. k \notin crossed /\ (k = Key => now = Key) /\ (k = now => now = Key)
    BY <1>2, <1>4
  <2>2. /\ changelog[k] = records[k]
        /\ \A l \in Keys : table[l] = k <=> l = k
    BY <2>1 DEF StoreInv
  <2>3. r = k <=> k = Key
    BY <1>2, <2>1, <2>2
  <2>4. records'[k] = IF k = Key THEN Aggregate(records[k], Current.energy) ELSE records[k]
    BY <1>2, <2>3 DEF Types
  <2>5. changelog'[k] = records'[k]
    BY <1>2, <2>2, <2>3, <2>4 DEF Types
  <2>6. \A l \in Keys : table'[l] = k <=> l = k
    BY <1>2, <2>2, <2>3 DEF Types
  <2> QED
    BY <2>1, <2>4, <2>5, <2>6
<1> QED
  BY <1>3, <1>4 DEF StoreInv

\* What the handlers other than that of an event leave of the store: only a
\* crash touches it, and makes a record for each window of what was stored last.
LEMMA OthersKeepStore ==
    ASSUME [Next]_vars, ~Handle
    PROVE  /\ UNCHANGED <<changelog, crossed, high, aggregated>>
           /\ \/ UNCHANGED <<table, records>>
              \/ table' = [k \in Keys |-> k] /\ records' = changelog /\ ~sending'
           /\ ~SendSnapshot => UNCHANGED snapshots
           /\ faults' \in {faults, faults + 1}
<1>1. CASE \/ \E e \in Experiments : PublishIteration(e)
           \/ \E b \in Backends, rate \in Rates : PublishCalibration(b, rate)
           \/ Roll
  BY <1>1 DEF PublishIteration, PublishCalibration, Roll, agent, store
<1>2. CASE SendSnapshot \/ Commit
  BY <1>2 DEF SendSnapshot, Commit, store
<1>3. CASE SendRaises
  BY <1>3 DEF SendRaises, Fault, store
<1>4. CASE Crash
  BY <1>4 DEF Crash, Fault
<1>5. CASE \/ Start \/ Insert \/ AutoCommit
           \/ \E t \in Topics : Take(t)
           \/ UNCHANGED vars
  BY <1>5 DEF Start, Insert, AutoCommit, Take, vars, agent, store
<1>6. CASE InsertRaises \/ Stop
  BY <1>6 DEF InsertRaises, Stop, Fault, agent, store
<1> QED
  BY <1>1, <1>2, <1>3, <1>4, <1>5, <1>6 DEF Next

\* Events stay on their topic.
LEMMA IterationsGrow ==
    ASSUME Types, AgentInv, [Next]_vars
    PROVE  /\ Len(iterations') \in Nat
           /\ Len(iterations') >= Len(iterations)
           /\ \A j \in 1 .. Len(iterations) : iterations'[j] = iterations[j]
<1>1. ASSUME NEW e \in Experiments, PublishIteration(e)
      PROVE  /\ Len(iterations') = Len(iterations) + 1
             /\ \A j \in 1 .. Len(iterations) : iterations'[j] = iterations[j]
  BY <1>1 DEF PublishIteration, Types
<1>2. CASE \E e \in Experiments : PublishIteration(e)
  BY <1>1, <1>2 DEF Types
<1>3. CASE UNCHANGED iterations
  BY <1>3 DEF Types
<1>4. CASE Roll \/ \E b \in Backends, rate \in Rates : PublishCalibration(b, rate)
  BY <1>3, <1>4 DEF Roll, PublishCalibration
<1>5. CASE Handle \/ SendSnapshot \/ SendRaises \/ Commit \/ Crash
  BY <1>3, <1>5 DEF Handle, SendSnapshot, SendRaises, Commit, Crash, sources
<1>6. CASE \/ Start \/ Insert \/ InsertRaises \/ AutoCommit \/ Stop
           \/ \E t \in Topics : Take(t)
           \/ UNCHANGED vars
  BY <1>3, <1>6 DEF Start, Insert, InsertRaises, AutoCommit, Stop, Take, vars, sources
<1> QED
  BY <1>2, <1>4, <1>5, <1>6 DEF Next

\* Every step keeps the records with their experiments, and the windows that
\* were not crossed with their own.
LEMMA StoreKept ==
    ASSUME Types, AgentInv, StoreInv, [Next]_vars
    PROVE  StoreInv'
<1>1. CASE Handle
  BY <1>1, HandleKeepsStore
<1>2. CASE ~Handle
  BY <1>2, OthersKeepStore DEF StoreInv
<1> QED
  BY <1>1, <1>2

\* The members of a window are finitely many.
LEMMA MembersAreFinite ==
    ASSUME Types, NEW e \in Experiments, NEW w \in Windows
    PROVE  IsFiniteSet(Members(e, w)) /\ Cardinality(Members(e, w)) \in Nat
<1>1. IsFiniteSet(1 .. high)
  BY FS_Interval DEF Types
<1>2. Members(e, w) \subseteq 1 .. high
  BY DEF Members
<1> QED
  BY <1>1, <1>2, FS_Subset, FS_CardinalityType

\* The least energy of some events.
Least(best, energy, events) ==
    /\ \E j \in events : energy[j] = best
    /\ \A j \in events : best <= energy[j]

\* A window of n members and the members, here of any set of events, keep
\* together when one more event, perhaps a member already, is aggregated.
LEMMA AggregateIsSound ==
    ASSUME NEW energy \in [Nat -> Int], NEW old \in SUBSET Nat, IsFiniteSet(old),
           NEW i \in Nat, NEW state \in [count : Nat, best : Int],
           state.count >= Cardinality(old),
           state.count > 0 => old # {},
           old # {} => Least(state.best, energy, old),
           NEW new, new = Aggregate(state, energy[i]),
           NEW members, members = old \cup {i}
    PROVE  /\ new.count >= Cardinality(members)
           /\ i \notin old => Cardinality(members) = Cardinality(old) + 1
           /\ Least(new.best, energy, members)
<1>1. new.count = state.count + 1
  BY DEF Aggregate
<1>2. /\ Cardinality(old) \in Nat
      /\ Cardinality(members) = IF i \in old THEN Cardinality(old) ELSE Cardinality(old) + 1
  BY FS_CardinalityType, FS_AddElement
<1>3. CASE state.count = 0
  <2>1. old = {}
    BY <1>2, <1>3, FS_EmptySet
  <2>2. new.best = energy[i]
    BY <1>3 DEF Aggregate
  <2> QED
    BY <1>1, <1>2, <1>3, <2>1, <2>2 DEF Least
<1>4. CASE state.count # 0
  <2>1. old # {}
    BY <1>4
  <2>2. new.best = Lesser(state.best, energy[i])
    BY <1>4 DEF Aggregate
  <2>3. /\ new.best \in {state.best, energy[i]}
        /\ new.best <= state.best
        /\ new.best <= energy[i]
        /\ new.best \in Int /\ state.best \in Int
    BY <2>2 DEF Lesser
  <2>4. \E j \in members : energy[j] = new.best
    BY <2>1, <2>3 DEF Least
  <2>5. \A j \in members : new.best <= energy[j]
    BY <2>1, <2>3 DEF Least
  <2> QED
    BY <1>1, <1>2, <2>4, <2>5 DEF Least
<1> QED
  BY <1>3, <1>4
\* An event enters the aggregate of its own window, and is then among its
\* members; the other windows are left as they are.
LEMMA HandleKeepsTable ==
    ASSUME Types, AgentInv, StoreInv, TableInv, Handle, Types'
    PROVE  TableInv'
<1>1. /\ next \in Nat /\ high \in Nat /\ next <= high /\ high <= Len(iterations)
      /\ iterations \in Seq(Iteration) /\ Len(iterations) \in Nat
      /\ next + 1 \in 1 .. Len(iterations)
      /\ faults = 0 => high = next
      /\ faults \in Nat
  <2>1. /\ next \in Nat /\ high \in Nat /\ faults \in Nat
        /\ iterations \in Seq(Iteration)
    BY DEF Types
  <2>2. ~sending /\ next < Len(iterations)
    BY DEF Handle
  <2>3. /\ next <= high /\ high <= Len(iterations)
        /\ faults = 0 => high = next
    BY <2>1, <2>2 DEF AgentInv, AtSend
  <2> QED
    BY <2>1, <2>2, <2>3
<1>2. /\ iterations' = iterations /\ faults' = faults
      /\ high' = IF next < high THEN high ELSE next + 1
  BY DEF Handle, sources
<1>3. PICK i \in 1 .. Len(iterations) : i = next + 1
  BY <1>1
<1>4. PICK now \in Iteration : now = iterations[i] /\ now = Current
  BY <1>1, <1>3 DEF Current
<1>5. Key = <<now.experiment, now.window>>
  BY <1>4 DEF Key
<1>6. PICK energy \in [Nat -> Int] :
          \A j \in 1 .. Len(iterations) : energy[j] = iterations[j].energy
  <2> DEFINE f == [j \in Nat |-> IF j \in 1 .. Len(iterations) THEN iterations[j].energy ELSE 0]
  <2>1. \A j \in 1 .. Len(iterations) : iterations[j] \in Iteration
    BY <1>1
  <2>2. \A j \in 1 .. Len(iterations) : iterations[j].energy \in Int
    BY <2>1, TelemetryAssumption DEF Iteration
  <2>3. f \in [Nat -> Int]
    BY <2>2
  <2>4. \A j \in 1 .. Len(iterations) : f[j] = iterations[j].energy
    BY <1>1
  <2> HIDE DEF f
  <2> QED
    BY <2>3, <2>4
<1>7. SUFFICES ASSUME NEW e \in Experiments, NEW w \in Windows,
                      NEW k \in Keys, k = <<e, w>>, k \notin crossed'
               PROVE  SoundAt(e, w)'
  <2>1. ASSUME NEW x \in Experiments, NEW y \in Windows
        PROVE  <<x, y>> \in Keys
    BY DEF Keys
  <2> QED
    BY <1>7, <2>1 DEF TableInv
<1>8. PICK old \in SUBSET Nat : old = Members(e, w)
  <2>1. Members(e, w) \in SUBSET Nat
    BY <1>1 DEF Members
  <2> QED
    BY <2>1
<1>9. /\ k \notin crossed
      /\ table[k] = k /\ table'[k] = k
      /\ records'[k] = IF k = Key THEN Aggregate(records[k], Current.energy) ELSE records[k]
  BY <1>7, HandleKeepsStore DEF StoreInv
<1>10. PICK state \in [count : Nat, best : Int] : state = records[k]
  BY DEF Types, State
<1>11. /\ \A j \in old : j \in 1 .. high
       /\ \A j \in old : energy[j] = iterations[j].energy
       /\ IsFiniteSet(old) /\ Cardinality(old) \in Nat
  <2>1. \A j \in old : j \in 1 .. high /\ j \in 1 .. Len(iterations)
    BY <1>1, <1>8 DEF Members
  <2>2. IsFiniteSet(old) /\ Cardinality(old) \in Nat
    BY <1>8, MembersAreFinite
  <2> QED
    BY <1>6, <2>1, <2>2
<1>12. /\ state.count >= Cardinality(old)
       /\ faults = 0 => state.count = Cardinality(old)
       /\ old # {} => Least(state.best, energy, old)
       /\ state.count > 0 => old # {}
  <2>1. SoundAt(e, w)
    BY <1>7, <1>9 DEF TableInv
  <2>2. records[table[<<e, w>>]] = state
    BY <1>7, <1>9, <1>10
  <2> QED
    BY <1>8, <1>11, <2>1, <2>2 DEF SoundAt, Least
<1>13. CASE Key = k
  <2>1. now.experiment = e /\ now.window = w
    BY <1>5, <1>7, <1>13
  <2>2. Members(e, w)' = old \cup {i}
    <3>1. Members(e, w)' = {j \in 1 .. high' : iterations[j].experiment = e /\ iterations[j].window = w}
      BY <1>2 DEF Members
    <3>2. CASE next < high
      <4>1. i \in 1 .. high /\ high' = high
        BY <1>1, <1>2, <1>3, <3>2
      <4> QED
        BY <1>4, <1>8, <2>1, <3>1, <4>1 DEF Members
    <3>3. CASE ~(next < high)
      <4>1. i = high + 1 /\ high' = high + 1
        BY <1>1, <1>2, <1>3, <3>3
      <4>2. 1 .. high' = (1 .. high) \cup {i}
        BY <1>1, <4>1
      <4> QED
        BY <1>4, <1>8, <2>1, <3>1, <4>2 DEF Members
    <3> QED
      BY <3>2, <3>3
  <2>3. records'[table'[<<e, w>>]] = Aggregate(state, energy[i])
    <3>1. Current.energy = energy[i]
      BY <1>4, <1>6
    <3> QED
      BY <1>7, <1>9, <1>10, <1>13, <3>1
  <2>4. faults = 0 => i \notin old
    BY <1>1, <1>3, <1>11
  <2>5. PICK new : new = Aggregate(state, energy[i])
    OBVIOUS
  <2>6. PICK members : members = old \cup {i}
    OBVIOUS
  <2>7. /\ new.count = state.count + 1
        /\ new.count >= Cardinality(members)
        /\ i \notin old => Cardinality(members) = Cardinality(old) + 1
        /\ Least(new.best, energy, members)
    <3>1. i \in Nat
      BY <1>3
    <3>2. IsFiniteSet(old) /\ state.count >= Cardinality(old)
      BY <1>11, <1>12
    <3>3. (state.count > 0 => old # {}) /\ (old # {} => Least(state.best, energy, old))
      BY <1>12
    <3>4. new.count >= Cardinality(members)
      BY <2>5, <2>6, <3>1, <3>2, <3>3, AggregateIsSound
    <3>5. i \notin old => Cardinality(members) = Cardinality(old) + 1
      BY <2>5, <2>6, <3>1, <3>2, <3>3, AggregateIsSound
    <3>6. Least(new.best, energy, members)
      BY <2>5, <2>6, <3>1, <3>2, <3>3, AggregateIsSound
    <3>7. new.count = state.count + 1
      BY <2>5 DEF Aggregate
    <3> QED
      BY <3>4, <3>5, <3>6, <3>7
  <2>8. /\ \A j \in members : energy[j] = iterations[j].energy
        /\ members # {}
    BY <1>3, <1>6, <1>11, <2>6
  <2>9. faults = 0 => new.count = Cardinality(members)
    BY <1>12, <2>4, <2>7
  <2> QED
    BY <1>2, <2>2, <2>3, <2>5, <2>6, <2>7, <2>8, <2>9 DEF Least, SoundAt
<1>14. CASE Key # k
  <2>1. ~(now.experiment = e /\ now.window = w)
    BY <1>5, <1>7, <1>14
  <2>2. Members(e, w)' = old
    <3>1. Members(e, w)' = {j \in 1 .. high' : iterations[j].experiment = e /\ iterations[j].window = w}
      BY <1>2 DEF Members
    <3>2. 1 .. high \subseteq 1 .. high' /\ 1 .. high' \subseteq (1 .. high) \cup {i}
      BY <1>1, <1>2, <1>3
    <3> QED
      BY <1>4, <1>8, <2>1, <3>1, <3>2 DEF Members
  <2>3. records'[table'[<<e, w>>]] = state
    BY <1>7, <1>9, <1>10, <1>14
  <2> QED
    BY <1>2, <1>11, <1>12, <2>2, <2>3 DEF Least, SoundAt
<1> QED
  BY <1>13, <1>14

\* No other handler changes what an uncrossed window counts, or the events it
\* counted.
LEMMA TableKept ==
    ASSUME Types, AgentInv, StoreInv, TableInv, [Next]_vars
    PROVE  TableInv'
<1>1. CASE Handle
  BY <1>1, HandleKeepsTable, TypesKept
<1>2. SUFFICES ASSUME ~Handle
               PROVE  TableInv'
  BY <1>1
<1>3. /\ UNCHANGED <<crossed, high>>
      /\ faults' = 0 => faults = 0
  BY <1>2, OthersKeepStore DEF Types
<1>4. \A j \in 1 .. high : iterations'[j] = iterations[j]
  BY IterationsGrow DEF Types, AgentInv
<1>5. \A e \in Experiments, w \in Windows : Members(e, w)' = Members(e, w)
  BY <1>3, <1>4 DEF Members
<1>6. \A k \in Keys : k \notin crossed =>
          records'[table'[k]] = records[table[k]] /\ records'[k] = records[k]
  BY <1>2, OthersKeepStore DEF StoreInv
<1>7. SUFFICES ASSUME NEW e \in Experiments, NEW w \in Windows,
                      NEW k \in Keys, k = <<e, w>>, k \notin crossed
               PROVE  SoundAt(e, w)'
  <2>1. ASSUME NEW x \in Experiments, NEW y \in Windows
        PROVE  <<x, y>> \in Keys
    BY DEF Keys
  <2> QED
    BY <1>3, <1>7, <2>1 DEF TableInv
<1>8. SoundAt(e, w)
  BY <1>7 DEF TableInv
<1>9. records'[table'[<<e, w>>]] = records[table[<<e, w>>]]
  BY <1>6, <1>7
<1>10. \A i \in Members(e, w) : iterations'[i] = iterations[i]
  BY <1>4 DEF Members
<1> QED
  BY <1>3, <1>5, <1>8, <1>9, <1>10 DEF SoundAt

\* What is of an experiment stays so while events and aggregations are added.
LEMMA IsOfStays ==
    ASSUME Types, AgentInv, Types', [Next]_vars, high <= high', aggregated <= aggregated',
           NEW e, NEW state, IsOf(e, state)
    PROVE  IsOf(e, state)'
<1>1. /\ state.count \in 1 .. aggregated
      /\ \E i \in 1 .. high : iterations[i].experiment = e /\ iterations[i].energy = state.best
  BY DEF IsOf
<1>2. \A j \in 1 .. high : iterations'[j] = iterations[j] /\ j \in 1 .. high'
  <2>1. /\ high \in Nat /\ high' \in Nat /\ Len(iterations) \in Nat
        /\ high <= Len(iterations)
    BY DEF Types, AgentInv
  <2>2. \A j \in 1 .. Len(iterations) : iterations'[j] = iterations[j]
    BY IterationsGrow
  <2> QED
    BY <2>1, <2>2
<1>3. state.count \in 1 .. aggregated'
  <2>1. aggregated \in Nat /\ aggregated' \in Nat
    BY DEF Types
  <2> QED
    BY <1>1, <2>1
<1> QED
  BY <1>1, <1>2, <1>3 DEF IsOf

\* An event adds itself to a record of its own experiment.
LEMMA AddedIsOf ==
    ASSUME Types, AgentInv, Types', Handle,
           NEW e, e = Current.experiment, NEW energy, energy = Current.energy,
           NEW state \in State, state.count > 0 => IsOf(e, state),
           NEW new, new = Aggregate(state, energy)
    PROVE  new.count > 0 /\ IsOf(e, new)'
<1>1. /\ next \in Nat /\ high \in Nat /\ aggregated \in Nat /\ next <= high
      /\ high' = IF next < high THEN high ELSE next + 1
      /\ aggregated' = aggregated + 1
      /\ iterations' = iterations
  BY DEF Types, AgentInv, Handle, sources, AtSend
<1>2. /\ new.count = state.count + 1
      /\ new.best \in {state.best, energy}
      /\ state.count = 0 => new.best = energy
  BY DEF Aggregate, Lesser
<1>3. state.count \in Nat
  BY DEF State
<1>4. PICK last \in 1 .. high' : last = next + 1
  BY <1>1
<1>5. iterations[last] = Current
  BY <1>4 DEF Current
<1>6. new.count \in 1 .. aggregated'
  BY <1>1, <1>2, <1>3 DEF IsOf
<1>7. \E i \in 1 .. high' : iterations[i].experiment = e /\ iterations[i].energy = new.best
  <2>1. CASE new.best = energy
    BY <1>4, <1>5, <2>1
  <2>2. CASE new.best # energy
    <3>1. new.best = state.best /\ state.count > 0
      BY <1>2, <1>3, <2>2
    <3>2. PICK i \in 1 .. high :
              iterations[i].experiment = e /\ iterations[i].energy = state.best
      BY <3>1 DEF IsOf
    <3>3. i \in 1 .. high'
      BY <1>1
    <3> QED
      BY <3>1, <3>2, <3>3
  <2> QED
    BY <2>1, <2>2
<1> QED
  BY <1>1, <1>2, <1>3, <1>6, <1>7 DEF IsOf

\* Records, the changelog and the snapshots keep to the energies of their
\* experiment.
LEMMA OwnKept ==
    ASSUME Types, AgentInv, StoreInv, OwnInv, Types', AgentInv', [Next]_vars
    PROVE  OwnInv'
<1>1. CASE Handle
  <2>1. Key \in Keys /\ Current \in Iteration /\ Key[1] = Current.experiment
    BY <1>1, EventStored DEF Key
  <2>2. PICK now \in Keys, r \in Keys :
            /\ r = table[now]
            /\ r[1] = Current.experiment
            /\ records' = [records EXCEPT ![r] = Aggregate(@, Current.energy)]
            /\ table' = [table EXCEPT ![Key] = r]
            /\ changelog' = [changelog EXCEPT ![Key] = Aggregate(records[r], Current.energy)]
            /\ crossed' = IF now = Key THEN crossed ELSE crossed \cup {now, Key}
    BY <1>1, EventStored
  <2>3. PICK e, energy, state, new :
            /\ e = Current.experiment
            /\ energy = Current.energy
            /\ state = records[r]
            /\ new = Aggregate(state, energy)
    OBVIOUS
  <2>4. new.count > 0 /\ IsOf(e, new)'
    <3>1. state \in State
      BY <2>3 DEF Types
    <3>2. state.count > 0 => IsOf(e, state)
      BY <2>2, <2>3 DEF OwnInv
    <3> QED
      BY <1>1, <2>3, <3>1, <3>2, AddedIsOf
  <2>5. high <= high' /\ aggregated <= aggregated'
    BY <1>1 DEF Handle, Types, AgentInv, AtSend
  <2>6. ASSUME NEW k \in Keys, NEW kept \in {records[k], changelog[k]}, kept.count > 0
        PROVE  IsOf(k[1], kept)'
    BY <2>5, <2>6, IsOfStays DEF OwnInv
  <2>7. ASSUME NEW k \in Keys, NEW later \in {records'[k], changelog'[k]}
        PROVE  \/ later = new /\ k[1] = e
               \/ later \in {records[k], changelog[k]}
    BY <2>1, <2>2, <2>3, <2>7 DEF Types
  <2>8. ASSUME NEW k \in Keys, NEW later \in {records'[k], changelog'[k]}, later.count > 0
        PROVE  IsOf(k[1], later)'
    BY <2>4, <2>6, <2>7, <2>8
  <2>9. Key' = Key /\ snapshots' = snapshots
    BY <1>1 DEF Handle, Key, Current, sources
  <2>10. records'[table'[Key]].count > 0
    BY <2>1, <2>2, <2>3, <2>4 DEF Types
  <2>11. ASSUME NEW n \in 1 .. Len(snapshots)
         PROVE  IsOf(snapshots[n].experiment, snapshots[n])'
    <3>1. PICK x, sent : x = snapshots[n].experiment /\ sent = snapshots[n]
      OBVIOUS
    <3>2. IsOf(x, sent)
      BY <3>1 DEF OwnInv
    <3>3. IsOf(x, sent)'
      BY <2>5, <3>2, IsOfStays
    <3> QED
      BY <2>9, <3>1, <3>3
  <2> QED
    BY <2>8, <2>9, <2>10, <2>11 DEF OwnInv
<1>2. CASE ~Handle
  <2>1. /\ high <= high' /\ aggregated <= aggregated'
        /\ changelog' = changelog
        /\ records' = records \/ records' = changelog
    BY <1>2, OthersKeepStore DEF Types
  <2>2. \A k \in Keys : \A state \in {records[k], changelog[k]} :
            state.count > 0 => IsOf(k[1], state)'
    BY <2>1, IsOfStays DEF OwnInv
  <2>3. \A k \in Keys : \A state \in {records'[k], changelog'[k]} :
            state.count > 0 => IsOf(k[1], state)'
    BY <2>1, <2>2
  <2>4. ASSUME NEW n \in 1 .. Len(snapshots), snapshots'[n] = snapshots[n]
        PROVE  IsOf(snapshots[n].experiment, snapshots[n])'
    <3>1. PICK e, state : e = snapshots[n].experiment /\ state = snapshots[n]
      OBVIOUS
    <3>2. IsOf(e, state)
      BY <3>1 DEF OwnInv
    <3>3. IsOf(e, state)'
      BY <2>1, <3>2, IsOfStays
    <3> QED
      BY <2>4, <3>1, <3>3
  <2>5. \A n \in 1 .. Len(snapshots') : IsOf(snapshots[n].experiment, snapshots[n])'
    <3>1. CASE ~SendSnapshot
      BY <1>2, <2>4, <3>1, OthersKeepStore
    <3>2. CASE SendSnapshot
      <4>1. /\ Current \in Iteration
            /\ sending
        BY <3>2 DEF Types, SendSnapshot, Current, AgentInv, AtSend
      <4>2. Key \in Keys /\ Key[1] = Current.experiment
        BY <4>1 DEF Iteration, Keys, Key
      <4>3. PICK r \in Keys : r = table[Key] /\ r[1] = Current.experiment
        BY <4>2 DEF Types, StoreInv
      <4>4. PICK e, state : e = r[1] /\ state = records[r]
        OBVIOUS
      <4>5. state.count > 0
        BY <4>1, <4>3, <4>4 DEF OwnInv
      <4>6. IsOf(e, state)'
        BY <2>2, <4>4, <4>5
      <4>7. PICK sent \in Snapshot :
                /\ snapshots' = Append(snapshots, sent)
                /\ sent.experiment = e /\ sent.count = state.count /\ sent.best = state.best
        <5>1. state \in State
          BY <4>4 DEF Types
        <5>2. [experiment |-> e, count |-> state.count, best |-> state.best] \in Snapshot
          BY <4>1, <4>3, <4>4, <5>1 DEF Snapshot, State, Iteration
        <5> QED
          BY <3>2, <4>3, <4>4, <5>2 DEF SendSnapshot
      <4>8. IsOf(e, sent)'
        BY <4>6, <4>7 DEF IsOf
      <4>9. SUFFICES ASSUME NEW n \in 1 .. Len(snapshots')
                     PROVE  IsOf(snapshots[n].experiment, snapshots[n])'
        OBVIOUS
      <4>10. /\ Len(snapshots') = Len(snapshots) + 1
             /\ Len(snapshots) \in Nat
             /\ snapshots'[Len(snapshots) + 1] = sent
             /\ \A m \in 1 .. Len(snapshots) : snapshots'[m] = snapshots[m]
        <5>1. snapshots \in Seq(Snapshot)
          BY DEF Types
        <5> QED
          BY <4>7, <5>1
      <4>11. CASE n \in 1 .. Len(snapshots)
        BY <2>4, <4>10, <4>11
      <4>12. CASE n = Len(snapshots) + 1
        BY <4>7, <4>8, <4>10, <4>12
      <4> QED
        BY <4>9, <4>10, <4>11, <4>12
    <3> QED
      BY <3>1, <3>2
  <2>6. sending' => records'[table'[Key']].count > 0
    <3> SUFFICES ASSUME sending'
                 PROVE  records'[table'[Key']].count > 0
      OBVIOUS
    <3>1. sending /\ UNCHANGED <<next, table, records>>
      <4>1. UNCHANGED <<table, records>>
        BY <1>2, OthersKeepStore
      <4>2. sending /\ UNCHANGED next
        BY <1>2 DEF Next, PublishIteration, PublishCalibration, Roll, SendSnapshot, SendRaises,
                    Commit, Crash, Start, Take, Insert, InsertRaises, AutoCommit, Stop, vars, agent
      <4> QED
        BY <4>1, <4>2
    <3>2. next + 1 \in 1 .. Len(iterations)
      BY <3>1 DEF Types, AgentInv, AtSend
    <3>3. iterations'[next + 1] = iterations[next + 1]
      BY <3>2, IterationsGrow
    <3>4. Key' = Key
      BY <3>1, <3>3 DEF Key, Current
    <3> QED
      BY <3>1, <3>4 DEF OwnInv
  <2> QED
    BY <2>3, <2>5, <2>6 DEF OwnInv
<1> QED
  BY <1>1, <1>2
--------------------------------------------------------------------------------
(* The consumer.                                                               *)

\* The topics only grow.
LEMMA ResultsGrow ==
    ASSUME Types, [Next]_vars
    PROVE  /\ Len(results') \in Nat
           /\ Len(results') >= Len(results)
           /\ \A i \in 1 .. Len(results) : results'[i] = results[i]
<1>1. ASSUME NEW b \in Backends, NEW rate \in Rates, PublishCalibration(b, rate)
      PROVE  /\ Len(results') = Len(results) + 1
             /\ \A i \in 1 .. Len(results) : results'[i] = results[i]
  BY <1>1 DEF PublishCalibration, Types
<1>2. CASE \E b \in Backends, rate \in Rates : PublishCalibration(b, rate)
  BY <1>1, <1>2 DEF Types
<1>3. CASE UNCHANGED results
  BY <1>3 DEF Types
<1>4. CASE Roll \/ \E e \in Experiments : PublishIteration(e)
  BY <1>3, <1>4 DEF Roll, PublishIteration
<1>5. CASE Handle \/ SendSnapshot \/ SendRaises \/ Commit \/ Crash
  BY <1>3, <1>5 DEF Handle, SendSnapshot, SendRaises, Commit, Crash, sources
<1>6. CASE \/ Start \/ Insert \/ InsertRaises \/ AutoCommit \/ Stop
           \/ \E t \in Topics : Take(t)
           \/ UNCHANGED vars
  BY <1>3, <1>6 DEF Start, Insert, InsertRaises, AutoCommit, Stop, Take, vars, sources
<1> QED
  BY <1>2, <1>4, <1>5, <1>6 DEF Next

\* The handlers of the producers and of the agent leave the consumer alone.
LEMMA OthersLeaveSink ==
    ASSUME \/ \E e \in Experiments : PublishIteration(e)
           \/ \E b \in Backends, rate \in Rates : PublishCalibration(b, rate)
           \/ Roll \/ Handle \/ SendSnapshot \/ SendRaises \/ Commit \/ Crash
           \/ UNCHANGED vars
    PROVE  UNCHANGED <<up, position, offset, inserting, rolling, rows, began, origin, failed, stops>>
BY DEF PublishIteration, PublishCalibration, Roll, Handle, SendSnapshot, SendRaises, Commit,
       Crash, vars, sink

\* The consumer inserts what it has taken, and reads no further than the topic.
LEMMA SinkKept ==
    ASSUME Types, SinkInv, [Next]_vars
    PROVE  SinkInv'
<1>1. /\ Len(results) \in Nat /\ Len(results') \in Nat
      /\ Len(results) <= Len(results')
  BY ResultsGrow DEF Types
<1>2. C \in Topics /\ Length(C) = Len(results)
  BY DEF C, Topics, Length
<1>3. /\ position \in [Topics -> Nat] /\ began \in [Topics -> Nat]
      /\ offset \in [Topics -> Nat \cup {NoOffset}]
      /\ inserting \in Messages \cup {Nothing}
      /\ NoOffset \notin Nat
      /\ up \in BOOLEAN
  BY TelemetryAssumption DEF Types
<1>4. CASE UNCHANGED <<up, position, offset, inserting, began>>
  BY <1>1, <1>2, <1>3, <1>4 DEF SinkInv
<1>5. CASE Start
  <2>1. /\ ~up /\ up'
        /\ inserting' = inserting /\ offset' = offset
        /\ began' = position'
        /\ position'[C] = IF offset[C] = NoOffset THEN Len(results) ELSE offset[C]
    BY <1>2, <1>5 DEF Start
  <2>2. position'[C] \in Nat /\ position'[C] <= Len(results)
    BY <1>1, <1>2, <1>3, <2>1 DEF SinkInv
  <2>3. inserting = Nothing
    BY <2>1 DEF SinkInv
  <2> QED
    BY <1>1, <1>2, <1>3, <2>1, <2>2, <2>3 DEF SinkInv
<1>6. ASSUME NEW t \in Topics, Take(t)
      PROVE  SinkInv'
  <2>1. /\ up /\ up'
        /\ UNCHANGED <<offset, began>>
        /\ position[t] < Length(t)
        /\ position' = [position EXCEPT ![t] = @ + 1]
        /\ inserting' = <<t, position[t] + 1>>
    BY <1>6 DEF Take
  <2>2. position'[t] = position[t] + 1
    BY <1>3, <2>1
  <2>3. began[C] <= position'[C] /\ position'[C] <= Len(results)
    BY <1>1, <1>2, <1>3, <2>1 DEF SinkInv
  <2> QED
    BY <1>1, <1>2, <1>3, <2>1, <2>2, <2>3 DEF SinkInv
<1>7. CASE Insert \/ InsertRaises
  <2>1. UNCHANGED <<up, position, offset, began>> /\ inserting' = Nothing
    BY <1>7 DEF Insert, InsertRaises
  <2> QED
    BY <1>1, <1>2, <1>3, <2>1 DEF SinkInv
<1>8. CASE AutoCommit
  <2>1. /\ up
        /\ UNCHANGED <<up, position, inserting, began>>
        /\ offset'[C] = position[C]
    BY <1>2, <1>8 DEF AutoCommit, Consumed
  <2> QED
    BY <1>1, <1>2, <1>3, <2>1 DEF SinkInv
<1>9. CASE Stop
  <2>1. /\ up /\ ~up'
        /\ inserting' = Nothing
        /\ offset'[C] \in {offset[C], position[C]}
        /\ \A t \in Topics : position'[t] = 0
    BY <1>2, <1>9 DEF Stop, Consumed
  <2>2. offset'[C] # NoOffset => offset'[C] <= Len(results)
    BY <1>1, <1>2, <1>3, <2>1 DEF SinkInv
  <2>3. offset'[C] # NoOffset => offset'[C] <= Len(results')
    BY <1>1, <1>2, <1>3, <2>1, <2>2
  <2> QED
    BY <2>1, <2>3 DEF SinkInv
<1> QED
  BY <1>4, <1>5, <1>6, <1>7, <1>8, <1>9, OthersLeaveSink DEF Next
\* A row is missing only because a process ended: a message that is passed gets
\* its row, or is among the failed, before the loop goes on.
LEMMA UnexplainedKept ==
    ASSUME Types, Types', SinkInv, [Next]_vars,
           Cardinality(Unexplained \ {inserting}) <= stops
    PROVE  Cardinality(Unexplained' \ {inserting'}) <= stops'
<1>1. PICK old \in SUBSET Messages : old = Unexplained \ {inserting}
  <2>1. Unexplained \ {inserting} \in SUBSET Messages
    BY DEF Unexplained
  <2> QED
    BY <2>1
<1>2. PICK new \in SUBSET Messages : new = Unexplained' \ {inserting'}
  <2>1. Unexplained' \ {inserting'} \in SUBSET Messages
    BY DEF Unexplained
  <2> QED
    BY <2>1
<1>3. IsFiniteSet(old) /\ IsFiniteSet(new) /\ Cardinality(old) \in Nat
  BY MessagesAreFinite, FS_Subset, FS_CardinalityType
<1>4. ASSUME new \subseteq old, stops' = stops
      PROVE  Cardinality(new) <= stops'
  <2>1. Cardinality(new) \in Nat /\ Cardinality(new) <= Cardinality(old)
    BY <1>3, <1>4, FS_Subset, FS_CardinalityType
  <2> QED
    BY <1>1, <1>3, <1>4, <2>1 DEF Types
<1>5. SUFFICES ASSUME NEW m \in new,
                      ~Stop
               PROVE  m \in old /\ stops' = stops
  <2>1. CASE Stop
    <3>1. /\ stops' = stops + 1
          /\ \A t \in Topics : position'[t] = 0 /\ offset'[t] \in {offset[t], position[t]}
          /\ origin' = origin /\ failed' = failed
          /\ rows' \in {rows} \cup {[rows EXCEPT ![n] = @ + 1] : n \in {inserting} \ {Nothing}}
      BY <2>1 DEF Stop, Consumed
    <3>2. \A n \in Messages : n[1] \in Topics /\ n[2] \in Nat /\ n[2] > 0
      BY TelemetryAssumption DEF Messages, MaxMessages
    <3>3. \A n \in Messages : rows'[n] = 0 => rows[n] = 0
      BY <3>1 DEF Types
    <3>4. \A n \in Messages : Passed(n)' => Passed(n)
      <4> SUFFICES ASSUME NEW n \in Messages, Passed(n)'
                   PROVE  Passed(n)
        OBVIOUS
      <4>1. /\ position'[n[1]] = 0
            /\ offset'[n[1]] \in {offset[n[1]], position[n[1]]}
        BY <3>1, <3>2
      <4>2. ~(n[2] <= position'[n[1]])
        BY <3>2, <4>1
      <4> QED
        BY <4>1, <4>2 DEF Passed
    <3>5. new \subseteq old \cup {inserting}
      BY <1>1, <1>2, <3>1, <3>3, <3>4 DEF Unexplained
    <3>6. /\ IsFiniteSet(old \cup {inserting})
          /\ Cardinality(old \cup {inserting}) \in {Cardinality(old), Cardinality(old) + 1}
      BY <1>3, FS_AddElement
    <3>7. Cardinality(new) \in Nat /\ Cardinality(new) <= Cardinality(old \cup {inserting})
      BY <1>3, <3>5, <3>6, FS_Subset, FS_CardinalityType
    <3> QED
      BY <1>1, <1>2, <1>3, <3>1, <3>6, <3>7 DEF Types
  <2>2. CASE ~Stop
    <3>1. CASE new = {}
      <4>1. Cardinality(new) = 0 /\ stops' \in Nat
        BY <3>1, FS_EmptySet DEF Types
      <4> QED
        BY <1>2, <4>1
    <3>2. CASE new # {}
      BY <1>2, <1>4, <1>5, <2>2, <3>2
    <3> QED
      BY <3>1, <3>2
  <2> QED
    BY <2>1, <2>2
<1>6. /\ m \in Messages /\ m # Nothing
      /\ m[1] \in Topics /\ m[2] \in Nat
      /\ m \in Topics \X Nat /\ m = <<m[1], m[2]>>
  <2>1. m \in Messages
    BY <1>2
  <2>2. m \in Topics \X Nat
    BY <2>1, TelemetryAssumption DEF Messages, MaxMessages
  <2> QED
    BY <2>1, <2>2, TelemetryAssumption
<1>7. /\ Passed(m)' /\ rows'[m] = 0 /\ m[2] > origin'[m[1]] /\ m \notin failed'
      /\ m # inserting'
  BY <1>2 DEF Unexplained
<1>8. ASSUME Passed(m), rows[m] = 0, m[2] > origin[m[1]], m \notin failed, m # inserting
      PROVE  m \in old
  BY <1>1, <1>6, <1>8 DEF Unexplained
<1>9. CASE UNCHANGED <<position, offset, inserting, rows, origin, failed, stops>>
  BY <1>7, <1>8, <1>9 DEF Passed
<1>10. CASE Start
  <2>1. /\ position'[m[1]] = IF offset[m[1]] = NoOffset THEN Length(m[1]) ELSE offset[m[1]]
        /\ origin'[m[1]] = IF offset[m[1]] = NoOffset THEN Length(m[1]) ELSE origin[m[1]]
        /\ UNCHANGED <<offset, inserting, rows, failed, stops>>
    BY <1>6, <1>10 DEF Start
  <2>2. Length(m[1]) \in Nat
    BY <1>6, TopicLength
  <2>3. CASE offset[m[1]] = NoOffset
    <3>1. m[2] <= Length(m[1]) /\ m[2] > Length(m[1])
      BY <1>7, <2>1, <2>3 DEF Passed
    <3> QED
      BY <1>6, <2>2, <3>1
  <2>4. CASE offset[m[1]] # NoOffset
    BY <1>7, <1>8, <2>1, <2>4 DEF Passed
  <2> QED
    BY <2>3, <2>4
<1>11. ASSUME NEW t \in Topics, Take(t)
       PROVE  m \in old /\ stops' = stops
  <2>1. /\ inserting = Nothing
        /\ inserting' = <<t, position[t] + 1>>
        /\ position' = [position EXCEPT ![t] = @ + 1]
        /\ UNCHANGED <<offset, rows, origin, failed, stops>>
    BY <1>11 DEF Take
  <2>2. m[2] <= position'[m[1]] => m[2] <= position[m[1]]
    <3>1. CASE m[1] = t
      <4>1. m[2] # position[t] + 1
        BY <1>6, <1>7, <2>1, <3>1
      <4>2. position[t] \in Nat /\ position'[t] = position[t] + 1
        BY <2>1 DEF Types
      <4> QED
        BY <1>6, <3>1, <4>1, <4>2
    <3>2. CASE m[1] # t
      BY <1>6, <2>1, <3>2 DEF Types
    <3> QED
      BY <3>1, <3>2
  <2>3. Passed(m)
    BY <1>7, <2>1, <2>2 DEF Passed
  <2> QED
    BY <1>6, <1>7, <1>8, <2>1, <2>3
<1>12. CASE Insert
  <2>1. /\ inserting # Nothing
        /\ rows' = [rows EXCEPT ![inserting] = @ + 1]
        /\ UNCHANGED <<position, offset, origin, failed, stops>>
    BY <1>12 DEF Insert
  <2>2. rows \in [Messages -> Nat] /\ inserting \in Messages
    BY <2>1 DEF Types
  <2>3. m # inserting
    <3>1. rows'[inserting] = rows[inserting] + 1 /\ rows[inserting] \in Nat
      BY <2>1, <2>2
    <3> QED
      BY <1>7, <3>1
  <2>4. rows[m] = 0
    BY <1>6, <1>7, <2>1, <2>2, <2>3
  <2> QED
    BY <1>7, <1>8, <2>1, <2>3, <2>4 DEF Passed
<1>13. CASE InsertRaises
  <2>1. /\ rows' \in {rows, [rows EXCEPT ![inserting] = @ + 1]}
        /\ failed' = failed \cup {inserting}
        /\ UNCHANGED <<position, offset, origin, stops>>
    BY <1>13 DEF InsertRaises
  <2>2. m # inserting /\ m \notin failed
    BY <1>7, <2>1
  <2>3. rows[m] = 0
    BY <1>6, <1>7, <2>1, <2>2 DEF Types
  <2> QED
    BY <1>7, <1>8, <2>1, <2>2, <2>3 DEF Passed
<1>14. CASE AutoCommit
  <2>1. /\ offset'[m[1]] = position[m[1]]
        /\ UNCHANGED <<position, inserting, rows, origin, failed, stops>>
    BY <1>6, <1>14 DEF AutoCommit, Consumed
  <2> QED
    BY <1>7, <1>8, <2>1 DEF Passed
<1> QED
  BY <1>5, <1>9, <1>10, <1>11, <1>12, <1>13, <1>14, OthersLeaveSink DEF Next

\* The rows of a message that the running process has left behind may be one
\* more than the processes that ended; no other message has as many.
RowsBound(m) == stops + IF up /\ m[2] <= position[m[1]] /\ m # inserting THEN 1 ELSE 0

\* Each process inserts a message once.
LEMMA RowsKept ==
    ASSUME Types, Types', SinkInv, [Next]_vars,
           NEW m \in Messages, rows[m] <= RowsBound(m)
    PROVE  rows'[m] <= RowsBound(m)'
<1>1. /\ rows[m] \in Nat /\ rows'[m] \in Nat /\ stops \in Nat /\ stops' \in Nat
      /\ rows \in [Messages -> Nat]
      /\ up \in BOOLEAN /\ up' \in BOOLEAN
  BY DEF Types
<1>2. /\ m # Nothing
      /\ m[1] \in Topics /\ m[2] \in Nat
      /\ m = <<m[1], m[2]>>
  <2>1. m \in Topics \X Nat
    BY TelemetryAssumption DEF Messages, MaxMessages
  <2> QED
    BY <2>1, TelemetryAssumption
<1>3. CASE UNCHANGED <<up, position, inserting, rows, stops>>
  BY <1>3 DEF RowsBound
<1>4. CASE Start
  <2>1. ~up /\ UNCHANGED <<rows, stops>>
    BY <1>4 DEF Start
  <2> QED
    BY <1>1, <2>1 DEF RowsBound
<1>5. ASSUME NEW t \in Topics, Take(t)
      PROVE  rows'[m] <= RowsBound(m)'
  <2>1. /\ up /\ up'
        /\ inserting = Nothing
        /\ inserting' = <<t, position[t] + 1>>
        /\ position' = [position EXCEPT ![t] = @ + 1]
        /\ UNCHANGED <<rows, stops>>
    BY <1>5 DEF Take
  <2>2. position[t] \in Nat /\ position'[t] = position[t] + 1
    BY <2>1 DEF Types
  <2>3. m[2] <= position[m[1]] <=> m[2] <= position'[m[1]] /\ m # inserting'
    <3>1. CASE m[1] = t
      BY <1>2, <2>1, <2>2, <3>1
    <3>2. CASE m[1] # t
      BY <1>2, <2>1, <3>2 DEF Types
    <3> QED
      BY <3>1, <3>2
  <2> QED
    BY <1>2, <2>1, <2>3 DEF RowsBound
<1>6. CASE Insert \/ InsertRaises
  <2>1. /\ inserting # Nothing
        /\ rows' \in {rows, [rows EXCEPT ![inserting] = @ + 1]}
        /\ inserting' = Nothing
        /\ UNCHANGED <<up, position, stops>>
    BY <1>6 DEF Insert, InsertRaises
  <2>2. CASE m = inserting
    <3>1. up /\ m[2] <= position[m[1]]
      BY <2>1, <2>2 DEF SinkInv
    <3>2. RowsBound(m) = stops /\ RowsBound(m)' = stops + 1
      BY <1>1, <1>2, <2>1, <2>2, <3>1 DEF RowsBound
    <3>3. rows'[m] <= rows[m] + 1
      BY <1>1, <2>1, <2>2
    <3> QED
      BY <1>1, <3>2, <3>3
  <2>3. CASE m # inserting
    <3>1. rows'[m] = rows[m]
      BY <1>1, <2>1, <2>3
    <3>2. RowsBound(m)' = RowsBound(m)
      BY <1>2, <2>1, <2>3 DEF RowsBound
    <3> QED
      BY <3>1, <3>2
  <2> QED
    BY <2>2, <2>3
<1>7. CASE AutoCommit
  BY <1>3, <1>7 DEF AutoCommit
<1>8. CASE Stop
  <2>1. /\ rows' \in {rows} \cup {[rows EXCEPT ![n] = @ + 1] : n \in {inserting} \ {Nothing}}
        /\ ~up'
        /\ stops' = stops + 1
    BY <1>8 DEF Stop
  <2>2. RowsBound(m)' = stops + 1
    BY <1>1, <2>1 DEF RowsBound
  <2>3. CASE m = inserting
    <3>1. RowsBound(m) = stops
      BY <1>1, <2>3 DEF RowsBound
    <3>2. rows'[m] <= rows[m] + 1
      BY <1>1, <2>1
    <3> QED
      BY <1>1, <2>2, <3>1, <3>2
  <2>4. CASE m # inserting
    <3>1. rows'[m] = rows[m]
      BY <1>1, <2>1, <2>4
    <3>2. RowsBound(m) \in {stops, stops + 1}
      BY <1>1 DEF RowsBound
    <3> QED
      BY <1>1, <2>2, <3>1, <3>2
  <2> QED
    BY <2>3, <2>4
<1> QED
  BY <1>3, <1>4, <1>5, <1>6, <1>7, <1>8, OthersLeaveSink DEF Next
\* What the running process has read of a backend, and how much of it is newer
\* than a result.
Newer(b, i) == {j \in Own(b) : j > i}

\* Both are finitely many.
LEMMA OwnAreFinite ==
    ASSUME Types, NEW b \in Backends, NEW i \in Nat
    PROVE  /\ IsFiniteSet(Own(b)) /\ Cardinality(Own(b)) \in Nat
           /\ IsFiniteSet(Newer(b, i)) /\ Cardinality(Newer(b, i)) \in Nat
<1>1. IsFiniteSet(began[C] + 1 .. position[C])
  BY FS_Interval DEF Types, C, Topics
<1>2. Own(b) \subseteq began[C] + 1 .. position[C] /\ Newer(b, i) \subseteq Own(b)
  BY DEF Own, Newer, C
<1> QED
  BY <1>1, <1>2, FS_Subset, FS_CardinalityType

\* The window of a backend holds the rates of its last results.
WindowOf(b) ==
    /\ Len(rolling[b]) = IF Cardinality(Own(b)) < WindowSize THEN Cardinality(Own(b)) ELSE WindowSize
    /\ \A i \in Own(b) :
           Cardinality(Newer(b, i)) < Len(rolling[b]) =>
               rolling[b][Len(rolling[b]) - Cardinality(Newer(b, i))] = results[i].rate

\* A result that is taken enters the window of its backend as the newest, and
\* drives out the one that WindowSize others are newer than.
LEMMA TakeKeepsWindow ==
    ASSUME Types, Types', SinkInv, Take(C), NEW b \in Backends, WindowOf(b)
    PROVE  WindowOf(b)'
<1>1. PICK p \in Nat \ {0} : p = position[C] + 1
  <2>1. position[C] \in Nat
    BY DEF Types, C, Topics
  <2> QED
    BY <2>1
<1>2. /\ up
      /\ position[C] = p - 1 /\ position'[C] = p
      /\ began' = began /\ results' = results
      /\ began[C] \in Nat /\ began[C] < p /\ p <= Len(results)
  <2>1. C \in Topics /\ Length(C) = Len(results)
    BY DEF C, Topics, Length
  <2>2. position[C] \in Nat /\ began[C] \in Nat /\ Len(results) \in Nat
    BY <2>1 DEF Types
  <2>3. /\ up
        /\ position[C] < Len(results)
        /\ position' = [position EXCEPT ![C] = @ + 1]
        /\ began' = began /\ results' = results
    BY <2>1 DEF Take, sources
  <2>4. position'[C] = position[C] + 1
    BY <2>1, <2>3 DEF Types
  <2>5. began[C] <= position[C]
    BY <2>3 DEF SinkInv
  <2> QED
    BY <1>1, <2>2, <2>3, <2>4, <2>5
<1>3. PICK r \in Result : r = results[p]
  <2>1. p \in 1 .. Len(results) /\ results \in Seq(Result)
    BY <1>2 DEF Types
  <2> QED
    BY <2>1
<1>4. rolling' = [rolling EXCEPT ![r.backend] = AddSample(@, r.rate)]
  BY <1>1, <1>3 DEF Take, C
<1>5. r.backend \in Backends /\ r.rate \in Rates
  BY DEF Result
<1>6. WindowSize \in Nat \ {0}
  BY TelemetryAssumption
<1>7. \A i \in Own(b) : i \in Nat /\ i < p
  BY <1>2 DEF Own, C
<1>8. Own(b)' = {i \in began[C] + 1 .. p : results[i].backend = b}
  BY <1>2 DEF Own, C
<1>9. CASE r.backend # b
  <2>1. Own(b)' = Own(b)
    BY <1>2, <1>3, <1>8, <1>9 DEF Own, C
  <2>2. rolling'[b] = rolling[b]
    BY <1>4, <1>9 DEF Types
  <2>3. \A i \in Own(b) : Newer(b, i)' = Newer(b, i)
    BY <2>1 DEF Newer
  <2> QED
    BY <1>2, <2>1, <2>2, <2>3 DEF WindowOf
<1>10. CASE r.backend = b
  <2>1. Own(b)' = Own(b) \cup {p}
    <3>1. began[C] + 1 .. p = (began[C] + 1 .. p - 1) \cup {p}
      BY <1>2
    <3> QED
      BY <1>2, <1>3, <1>8, <1>10, <3>1 DEF Own, C
  <2>2. p \notin Own(b)
    BY <1>7
  <2>3. PICK k \in Nat : k = Cardinality(Own(b))
    BY OwnAreFinite
  <2>4. Cardinality(Own(b)') = k + 1
    BY <2>1, <2>2, <2>3, OwnAreFinite, FS_AddElement
  <2>5. PICK samples \in Seq(Rates) : samples = rolling[b]
    BY DEF Types
  <2>6. PICK n \in Nat : n = Len(samples)
    OBVIOUS
  <2>7. n = IF k < WindowSize THEN k ELSE WindowSize
    BY <2>3, <2>5, <2>6 DEF WindowOf
  <2>8. n <= WindowSize
    BY <1>6, <2>7
  <2>9. PICK added : added = AddSample(samples, r.rate)
    OBVIOUS
  <2>10. /\ added \in Seq(Rates)
         /\ Len(added) = IF n = WindowSize THEN WindowSize ELSE n + 1
         /\ added[Len(added)] = r.rate
         /\ \A i \in 1 .. Len(added) - 1 : added[i] = samples[IF n = WindowSize THEN i + 1 ELSE i]
    BY <1>5, <2>6, <2>8, <2>9, SampleAdded
  <2>11. rolling'[b] = added
    BY <1>4, <1>10, <2>5, <2>9 DEF Types
  <2>12. PICK l \in Nat \ {0} : l = Len(added)
    BY <1>6, <2>6, <2>10
  <2>13. l = IF k + 1 < WindowSize THEN k + 1 ELSE WindowSize
    BY <1>6, <2>7, <2>10, <2>12
  <2>14. SUFFICES ASSUME NEW i \in Own(b)',
                         Cardinality(Newer(b, i)') < l
                  PROVE  added[l - Cardinality(Newer(b, i)')] = results[i].rate
    BY <1>2, <2>4, <2>11, <2>12, <2>13 DEF WindowOf
  <2>15. CASE i = p
    <3>1. Newer(b, i)' = {}
      BY <1>1, <1>7, <2>1, <2>15 DEF Newer
    <3>2. Cardinality(Newer(b, i)') = 0
      BY <3>1, FS_EmptySet
    <3> QED
      BY <1>3, <2>10, <2>12, <2>15, <3>2
  <2>16. CASE i # p
    <3>1. i \in Own(b) /\ i \in Nat /\ i < p
      BY <1>7, <2>1, <2>16
    <3>2. Newer(b, i)' = Newer(b, i) \cup {p}
      BY <2>1, <3>1 DEF Newer
    <3>3. p \notin Newer(b, i)
      BY <2>2 DEF Newer
    <3>4. PICK c \in Nat : c = Cardinality(Newer(b, i))
      BY <3>1, OwnAreFinite
    <3>5. Cardinality(Newer(b, i)') = c + 1
      BY <3>1, <3>2, <3>3, <3>4, OwnAreFinite, FS_AddElement
    <3>6. c + 1 < l
      BY <2>14, <3>5
    <3>7. c < n /\ samples[n - c] = results[i].rate
      <4>1. c < n
        BY <1>6, <2>6, <2>10, <2>12, <3>6
      <4> QED
        BY <2>5, <2>6, <3>1, <3>4, <4>1 DEF WindowOf
    <3>8. l - (c + 1) \in 1 .. l - 1
      BY <3>6
    <3>9. n - c = IF n = WindowSize THEN l - (c + 1) + 1 ELSE l - (c + 1)
      BY <1>6, <2>10, <2>12
    <3>10. added[l - (c + 1)] = samples[n - c]
      BY <2>10, <2>12, <3>8, <3>9
    <3> QED
      BY <3>5, <3>7, <3>10
  <2> QED
    BY <2>15, <2>16
<1> QED
  BY <1>9, <1>10

\* The window changes with the results that are taken, and with a new process.
LEMMA WindowKept ==
    ASSUME Types, Types', SinkInv, SinkInv', WindowIsRecent, [Next]_vars
    PROVE  WindowIsRecent'
<1>1. WindowIsRecent = (up => \A b \in Backends : WindowOf(b))
  BY DEF WindowIsRecent, WindowOf, Newer
<1>2. WindowIsRecent' = (up' => \A b \in Backends : WindowOf(b)')
  BY DEF WindowIsRecent, WindowOf, Newer
<1>3. SUFFICES ASSUME up', NEW b \in Backends
               PROVE  WindowOf(b)'
  BY <1>2
<1>4. ASSUME up, UNCHANGED <<rolling, began>>, position'[C] = position[C]
      PROVE  WindowOf(b)'
  <2>1. /\ position[C] <= Len(results) /\ position[C] \in Nat
        /\ began[C] \in Nat
        /\ Len(results) \in Nat
    BY <1>4 DEF SinkInv, Types, C, Topics
  <2>2. \A i \in began[C] + 1 .. position[C] : results'[i] = results[i]
    BY <2>1, ResultsGrow
  <2>3. Own(b)' = Own(b)
    BY <1>4, <2>2 DEF Own, C
  <2>4. \A i \in Own(b) : results'[i] = results[i]
    BY <2>2 DEF Own, C
  <2>5. \A i \in Own(b) : Newer(b, i)' = Newer(b, i)
    BY <2>3 DEF Newer
  <2> QED
    BY <1>1, <1>4, <2>3, <2>4, <2>5 DEF WindowOf
<1>5. CASE UNCHANGED <<up, rolling, began, position>>
  BY <1>3, <1>4, <1>5
<1>6. CASE Start
  <2>1. began' = position' /\ rolling'[b] = <<>>
    BY <1>6 DEF Start
  <2>2. Own(b)' = {}
    <3>1. position'[C] \in Nat
      BY DEF Types, C, Topics
    <3> QED
      BY <2>1, <3>1 DEF Own, C
  <2>3. Cardinality(Own(b)') = 0
    BY <2>2, FS_EmptySet
  <2> QED
    BY <2>1, <2>2, <2>3, TelemetryAssumption DEF WindowOf
<1>7. ASSUME NEW t \in Topics, Take(t)
      PROVE  WindowOf(b)'
  <2>1. CASE t = C
    BY <1>1, <1>7, <2>1, TakeKeepsWindow DEF Take
  <2>2. CASE t # C
    BY <1>4, <1>7, <2>2 DEF Take, Types, C
  <2> QED
    BY <2>1, <2>2
<1>8. CASE Insert \/ InsertRaises \/ AutoCommit
  BY <1>5, <1>8 DEF Insert, InsertRaises, AutoCommit
<1>9. CASE Stop
  BY <1>3, <1>9 DEF Stop
<1> QED
  BY <1>5, <1>6, <1>7, <1>8, <1>9, OthersLeaveSink DEF Next

--------------------------------------------------------------------------------
(* Theorems.                                                                   *)

\* Before the first message everything is in order.
LEMMA InitEstablishes == Init => IInv
<1> SUFFICES ASSUME Init PROVE IInv
  OBVIOUS
<1>1. Types
  <2>1. 1 \in Windows
    BY TelemetryAssumption DEF Windows
  <2>2. Empty \in State
    BY DEF Empty, State
  <2>3. /\ <<>> \in Seq(Iteration) /\ <<>> \in Seq(Result) /\ <<>> \in Seq(Snapshot)
        /\ <<>> \in Seq(Rates)
    OBVIOUS
  <2>4. /\ rows \in [Messages -> Nat] /\ rolling \in [Backends -> Seq(Rates)]
        /\ table \in [Keys -> Keys]
        /\ records \in [Keys -> State] /\ changelog \in [Keys -> State]
    BY <2>2, <2>3 DEF Init
  <2>5. /\ position \in [Topics -> Nat] /\ began \in [Topics -> Nat]
        /\ origin \in [Topics -> Nat] /\ offset \in [Topics -> Nat \cup {NoOffset}]
    BY DEF Init
  <2> QED
    BY <2>1, <2>3, <2>4, <2>5 DEF Init, Types
<1>2. AgentInv
  <2>1. MaxPublished \in Nat /\ MaxFaults \in Nat /\ MaxPublished * 0 = 0
    BY TelemetryAssumption
  <2> QED
    <3>1. /\ Len(iterations) = 0 /\ Len(results) = 0 /\ Len(snapshots) = 0
          /\ next = 0 /\ committed = 0 /\ high = 0 /\ aggregated = 0 /\ faults = 0
          /\ AtSend = 0
      BY DEF Init, AtSend
    <3>2. SnapshotsAccounted
      BY <3>1 DEF SnapshotsAccounted, AtSend
    <3>3. MaxPublished * faults = 0
      BY <2>1, <3>1
    <3> QED
      BY <2>1, <3>1, <3>2, <3>3 DEF AgentInv
<1>3. TableInv
  <2> SUFFICES ASSUME NEW e \in Experiments, NEW w \in Windows
               PROVE  SoundAt(e, w)
    BY DEF TableInv
  <2>1. <<e, w>> \in Keys
    BY DEF Keys
  <2>2. records[table[<<e, w>>]].count = 0
    BY <2>1 DEF Init, Empty
  <2>3. Members(e, w) = {} /\ Cardinality(Members(e, w)) = 0
    <3>1. Members(e, w) = {}
      BY DEF Init, Members
    <3> QED
      BY <3>1, FS_EmptySet
  <2> QED
    BY <2>2, <2>3 DEF SoundAt
<1>7. StoreInv
  BY DEF Init, StoreInv
<1>8. OwnInv
  BY DEF Init, OwnInv, Empty
<1>4. SinkInv
  BY DEF Init, SinkInv, Topics, C
<1>5. RowsInv
  <2>1. \A m \in Messages : m[1] \in Topics /\ m[2] \in Nat /\ m[2] > 0
    BY TelemetryAssumption DEF Messages, MaxMessages
  <2>2. Unexplained = {}
    BY <2>1 DEF Init, Unexplained, Passed
  <2>3. Cardinality(Unexplained \ {inserting}) = 0
    BY <2>2, FS_EmptySet
  <2> QED
    BY <2>3 DEF Init, RowsInv
<1>6. WindowIsRecent
  BY DEF Init, WindowIsRecent
<1> QED
  BY <1>1, <1>2, <1>3, <1>4, <1>5, <1>6, <1>7, <1>8 DEF IInv

\* Every step keeps the invariant.
LEMMA NextKeeps == IInv /\ [Next]_vars => IInv'
<1> SUFFICES ASSUME IInv, [Next]_vars PROVE IInv'
  OBVIOUS
<1>1. Types' /\ AgentInv' /\ StoreInv' /\ TableInv'
  BY TypesKept, AgentKept, StoreKept, TableKept DEF IInv
<1>4. OwnInv'
  BY <1>1, OwnKept DEF IInv
<1>2. SinkInv' /\ WindowIsRecent'
  BY <1>1, SinkKept, WindowKept DEF IInv
<1>3. RowsInv'
  <2>1. Cardinality(Unexplained' \ {inserting'}) <= stops'
    BY <1>1, UnexplainedKept DEF IInv, RowsInv
  <2>2. \A m \in Messages : rows[m] <= RowsBound(m)
    BY DEF IInv, RowsInv, RowsBound
  <2>3. \A m \in Messages : rows'[m] <= RowsBound(m)'
    BY <1>1, <2>2, RowsKept DEF IInv
  <2> QED
    BY <2>1, <2>3 DEF RowsInv, RowsBound
<1> QED
  BY <1>1, <1>2, <1>3, <1>4 DEF IInv

\* What every theorem below rests on.
LEMMA Invariance == Spec => []IInv
<1> QED
  BY InitEstablishes, NextKeeps, PTL DEF Spec

\* faust_app.py: best_energy is the least energy of its window whatever is
\* aggregated again, and the counts lose nothing, as long as no event is handled
\* across the window; no energy gets into the aggregate of another experiment
\* even then, and vqe-window-metrics misses one snapshot for each fault at most.
THEOREM SnapshotsCanBeTrusted == Spec => []SnapshotsAreSound
<1>1. IInv => EnergiesAreOwn
  <2> SUFFICES ASSUME IInv PROVE EnergiesAreOwn
    OBVIOUS
  <2>1. ASSUME NEW k \in Keys, NEW state \in {records[table[k]], changelog[k]}, state.count > 0
        PROVE  IsOf(k[1], state)
    <3>1. table[k] \in Keys /\ table[k][1] = k[1]
      BY DEF IInv, Types, StoreInv
    <3> QED
      BY <2>1, <3>1 DEF IInv, OwnInv
  <2> QED
    BY <2>1 DEF EnergiesAreOwn, IInv, OwnInv
<1>2. IInv => AggregatesAreSound
  BY DEF IInv, TableInv, SoundAt, AggregatesAreSound
<1>3. IInv => SnapshotsAreSound
  BY <1>1, <1>2 DEF IInv, AgentInv, SnapshotsAreSound
<1> QED
  BY <1>3, Invariance, PTL

\* consumer.py: each end of the process loses one message at most, and adds one
\* row of a message at most.
THEOREM HistorySurvivesRestarts == Spec => []RowsAccounted
<1>1. IInv => RowsAccounted
  <2> SUFFICES ASSUME IInv PROVE RowsAccounted
    OBVIOUS
  <2> DEFINE lost == {m \in Messages : Missing(m) /\ m[2] > origin[m[1]] /\ m \notin failed}
  <2>1. lost \subseteq Unexplained \ {inserting}
    BY DEF Missing, Unexplained, Passed
  <2>2. Unexplained \ {inserting} \subseteq Messages
    BY DEF Unexplained
  <2>3. IsFiniteSet(Unexplained \ {inserting})
    BY <2>2, MessagesAreFinite, FS_Subset
  <2>4. /\ Cardinality(lost) \in Nat
        /\ Cardinality(Unexplained \ {inserting}) \in Nat
        /\ Cardinality(lost) <= Cardinality(Unexplained \ {inserting})
    BY <2>1, <2>3, FS_Subset, FS_CardinalityType
  <2>5. Cardinality(lost) <= stops
    <3> HIDE DEF lost
    <3> QED
      BY <2>4 DEF IInv, RowsInv, Types
  <2>6. \A m \in Messages : rows[m] <= stops + 1
    BY DEF IInv, RowsInv, Types
  <2> QED
    BY <2>5, <2>6 DEF RowsAccounted
<1> QED
  BY <1>1, Invariance, PTL

\* rolling.py: the logged average is that of the last results of its backend
\* that the running process has read, up to window_size of them.
THEOREM WindowsStayRecent == Spec => []WindowIsRecent
<1>1. IInv => WindowIsRecent
  BY DEF IInv
<1> QED
  BY <1>1, Invariance, PTL
================================================================================
