------------------------- MODULE CalibrationGateProofs -------------------------
(* Proofs about calibration and the gate for any numbers of workers and tasks, *)
(* and any times that satisfy CalibrationAssumption: what the interval, the    *)
(* cycle time, the freshness window and the waiting attempts together ensure.  *)
EXTENDS CalibrationGate, TLAPS

Phases == {"probe", "save", "publish", "sleep", "down"}
States == Decided \cup {"queued", "gate", "evaluate"}

TypeInv ==
    /\ snapshot \in Observation \cup {NoRow}
    /\ loop \in [Workers -> Phases]
    /\ left \in [Workers -> Nat]
    /\ obs \in [Workers -> Observation \cup {NoRow}]
    /\ trigger \in [Workers -> BOOLEAN]
    /\ holding \in [Workers -> Tasks \cup {NoTask}]
    /\ seen \in [Workers -> Observation \cup {NoRow}]
    /\ state \in [Tasks -> States]
    /\ waits \in [Tasks -> 0 .. MaxWaits]
    /\ due \in [Tasks -> Nat]
    /\ asked \in [Workers -> BOOLEAN]
    /\ newest \in 0 .. Freshness + 1
    /\ healthy \in [Workers -> BOOLEAN]
    /\ clean \in [Tasks -> BOOLEAN]

\* A task at the gate is in the hands of one live worker, and its wait is over.
HandInv ==
    \A w \in Workers : holding[w] # NoTask =>
        /\ loop[w] # "down"
        /\ state[holding[w]] \in {"gate", "evaluate"}
        /\ due[holding[w]] = 0
        /\ \A v \in Workers : v # w => holding[v] # holding[w]

\* A cycle's remaining time bounds the age of what it measured.
CycleInv ==
    \A w \in Workers :
        /\ loop[w] \in {"probe", "save", "publish"} => left[w] <= CycleTime
        /\ loop[w] = "sleep" => left[w] <= Interval
        /\ loop[w] = "save" => obs[w] # NoRow /\ obs[w].age + left[w] <= CycleTime
        /\ loop[w] = "publish" => healthy[w]
        /\ healthy[w] => loop[w] # "down"
        /\ asked[w] => trigger[w]

\* The age the row may reach before a healthy worker in this phase saves again.
Budget(phase) ==
    CASE phase = "publish" -> 2 * CycleTime
      [] phase = "sleep" -> 2 * CycleTime + Interval
      [] OTHER -> 3 * CycleTime + Interval

FreshInv ==
    \A w \in Workers : healthy[w] =>
        snapshot # NoRow /\ snapshot.age + left[w] <= Budget(loop[w])

\* A task that waits has a healthy worker, or one whose probe, begun or just called
\* for, will be saved within the time its waits take.
Served(t) ==
    \/ \E w \in Workers : healthy[w]
    \/ \E w \in Workers : /\ loop[w] \in {"probe", "save"}
                          /\ left[w] + waits[t] * WaitDelay <= CycleTime + due[t]
    \/ \E w \in Workers : /\ loop[w] = "sleep" /\ trigger[w]
                          /\ waits[t] * WaitDelay <= due[t]

WaitInv ==
    \A t \in Tasks : clean[t] =>
        /\ waits[t] > 0
        /\ Served(t)
        /\ state[t] # "exhausted"
        /\ \A w \in Workers :
            holding[w] = t /\ state[t] = "evaluate" /\ waits[t] = MaxWaits =>
                seen[w] # NoRow /\ seen[w].age <= Freshness

IInv == TypeInv /\ HandInv /\ CycleInv /\ FreshInv /\ LagBounded /\ WaitInv

\* The limits and times are numbers; every task that waits at all may wait.
LEMMA Numbers ==
    /\ Interval \in Nat /\ CycleTime \in Nat /\ Freshness \in Nat
    /\ WaitDelay \in Nat /\ MaxWaits \in Nat /\ MaxFaults \in Nat
    /\ Interval + 3 * CycleTime <= Freshness
    /\ CycleTime < WaitDelay * MaxWaits
BY CalibrationAssumption

\* The smaller of two numbers.
LEMMA MinOfTwo ==
    ASSUME NEW a \in Nat, NEW b \in Nat
    PROVE  Min({a, b}) = IF a <= b THEN a ELSE b
<1>1. \E m \in {a, b} : \A y \in {a, b} : m <= y
    OBVIOUS
<1>2. Min({a, b}) \in {a, b} /\ \A y \in {a, b} : Min({a, b}) <= y
    BY <1>1, Zenon DEF Min
<1>. QED
    BY <1>2

\* Ageing adds one, up to "stale".
LEMMA OlderAge ==
    ASSUME NEW a \in 0 .. Freshness + 1
    PROVE  Older(a) = (IF a <= Freshness THEN a + 1 ELSE Freshness + 1)
           /\ Older(a) \in 0 .. Freshness + 1
BY Numbers, MinOfTwo DEF Older

\* An observation that ages stays one, with the age counted on.
LEMMA AgedObservation ==
    ASSUME NEW o \in Observation
    PROVE  Aged(o) \in Observation /\ Aged(o) # NoRow /\ Aged(o).age = Older(o.age)
           /\ o.age \in 0 .. Freshness + 1
<1>1. o # NoRow /\ o.age \in 0 .. Freshness + 1 /\ o.good \in BOOLEAN
    BY CalibrationAssumption DEF Observation
<1>2. Aged(o) = [o EXCEPT !.age = Older(o.age)]
    BY <1>1 DEF Aged
<1>3. Older(o.age) \in 0 .. Freshness + 1
    BY <1>1, OlderAge
<1>4. Aged(o) \in Observation
    BY <1>2, <1>3 DEF Observation
<1>5. Aged(o).age = Older(o.age)
    BY <1>2 DEF Observation
<1>. QED
    BY <1>1, <1>4, <1>5, CalibrationAssumption

\* Ageing an observation, or none, gives an observation or none.
LEMMA AgedTyped ==
    ASSUME NEW o \in Observation \cup {NoRow}
    PROVE  Aged(o) \in Observation \cup {NoRow} /\ (Aged(o) = NoRow <=> o = NoRow)
BY AgedObservation, CalibrationAssumption DEF Aged

\* A countdown goes down by one and stops at zero.
LEMMA LessOne ==
    ASSUME NEW n \in Nat
    PROVE  Less(n) \in Nat /\ Less(n) <= n /\ (n > 0 => Less(n) = n - 1) /\ (n = 0 => Less(n) = 0)
BY DEF Less

\* The initial state.
LEMMA InvInit == Init => IInv
<1>. SUFFICES ASSUME Init PROVE IInv
    OBVIOUS
<1>. USE Numbers
<1>1. TypeInv
    BY DEF Init, TypeInv, Phases, States
<1>2. HandInv
    BY DEF Init, HandInv
<1>3. CycleInv
    BY DEF Init, CycleInv
<1>4. FreshInv /\ LagBounded /\ WaitInv
    BY DEF Init, FreshInv, LagBounded, WaitInv
<1>. QED
    BY <1>1, <1>2, <1>3, <1>4 DEF IInv

-------------------------------------------------------------------------------
\* The measurement: nothing is saved yet, and the time left is the same.
LEMMA MeasureStep ==
    ASSUME IInv, NEW w \in Workers, Measure(w)
    PROVE  IInv'
<1>. USE Numbers
<1>1. /\ loop[w] = "probe" /\ loop' = [loop EXCEPT ![w] = "save"]
      /\ loop \in [Workers -> Phases] /\ left \in [Workers -> Nat]
      /\ obs \in [Workers -> Observation \cup {NoRow}]
      /\ UNCHANGED <<snapshot, newest, left, trigger, asked, healthy, holding, seen,
                     state, waits, due, clean, faults>>
    BY DEF Measure, gateVars, taskVars, IInv, TypeInv
<1>2. PICK good \in BOOLEAN : obs' = [obs EXCEPT ![w] = [age |-> 0, good |-> good]]
    BY DEF Measure
<1>. DEFINE o == [age |-> 0, good |-> good]
<1>3. o \in Observation /\ o # NoRow /\ o.age = 0
    BY CalibrationAssumption DEF Observation
<1>. HIDE DEF o
<1>4. /\ obs'[w] = o /\ loop'[w] = "save"
      /\ \A v \in Workers : v # w => obs'[v] = obs[v] /\ loop'[v] = loop[v]
    BY <1>1, <1>2 DEF o
<1>5. TypeInv'
    <2>1. obs' \in [Workers -> Observation \cup {NoRow}]
        BY <1>1, <1>2, <1>3 DEF o
    <2>2. loop' \in [Workers -> Phases]
        BY <1>1 DEF Phases
    <2>. QED
        BY <1>1, <2>1, <2>2 DEF IInv, TypeInv
<1>6. HandInv'
    BY <1>1, <1>4 DEF IInv, HandInv
<1>7. CycleInv'
    BY <1>1, <1>3, <1>4 DEF IInv, CycleInv
<1>8. FreshInv'
    <2>1. \A v \in Workers : Budget(loop'[v]) = Budget(loop[v])
        BY <1>1, <1>4 DEF Budget
    <2>. QED
        BY <1>1, <2>1 DEF IInv, FreshInv
<1>9. LagBounded'
    BY <1>1 DEF IInv, LagBounded
<1>10. WaitInv'
    <2>1. ASSUME NEW t \in Tasks, Served(t) PROVE Served(t)'
        BY <1>1, <1>4, <2>1 DEF Served
    <2>. QED
        BY <1>1, <2>1 DEF IInv, WaitInv
<1>. QED
    BY <1>5, <1>6, <1>7, <1>8, <1>9, <1>10 DEF IInv

\* The save: whatever it overwrites, the new row is at most a cycle old.
LEMMA SaveStep ==
    ASSUME IInv, NEW w \in Workers, Save(w)
    PROVE  IInv'
<1>. USE Numbers
<1>1. /\ loop[w] = "save" /\ loop' = [loop EXCEPT ![w] = "publish"]
      /\ snapshot' = obs[w] /\ newest' = Min({newest, obs[w].age})
      /\ obs' = [obs EXCEPT ![w] = NoRow] /\ healthy' = [healthy EXCEPT ![w] = TRUE]
      /\ loop \in [Workers -> Phases] /\ left \in [Workers -> Nat]
      /\ obs \in [Workers -> Observation \cup {NoRow}] /\ healthy \in [Workers -> BOOLEAN]
      /\ newest \in 0 .. Freshness + 1
      /\ UNCHANGED <<left, trigger, asked, holding, seen, state, waits, due, clean, faults>>
    BY DEF Save, Upserted, gateVars, taskVars, IInv, TypeInv
<1>2. /\ obs[w] \in Observation /\ obs[w] # NoRow /\ obs[w].age + left[w] <= CycleTime
      /\ obs[w].age \in 0 .. Freshness + 1
    BY <1>1, AgedObservation DEF IInv, CycleInv
<1>3. /\ loop'[w] = "publish" /\ healthy'[w] = TRUE /\ obs'[w] = NoRow
      /\ \A v \in Workers : v # w => loop'[v] = loop[v] /\ healthy'[v] = healthy[v] /\ obs'[v] = obs[v]
    BY <1>1
<1>4. newest' = (IF newest <= obs[w].age THEN newest ELSE obs[w].age)
    BY <1>1, <1>2, MinOfTwo
<1>5. TypeInv'
    <2>1. loop' \in [Workers -> Phases] /\ obs' \in [Workers -> Observation \cup {NoRow}]
          /\ healthy' \in [Workers -> BOOLEAN]
        BY <1>1 DEF Phases
    <2>. QED
        BY <1>1, <1>2, <1>4, <2>1 DEF IInv, TypeInv
<1>6. HandInv'
    BY <1>1, <1>3 DEF IInv, HandInv
<1>7. CycleInv'
    BY <1>1, <1>3 DEF IInv, CycleInv
<1>8. FreshInv'
    <2>. SUFFICES ASSUME NEW v \in Workers, healthy'[v]
                  PROVE  obs[w].age + left[v] <= Budget(loop'[v])
        BY <1>1, <1>2 DEF FreshInv
    <2>1. CASE v = w
        BY <1>1, <1>2, <1>3, <2>1 DEF Budget
    <2>2. CASE v # w
        <3>1. loop'[v] = loop[v] /\ loop[v] \in Phases \ {"down"} /\ left[v] \in Nat
            BY <1>1, <1>3, <2>2 DEF IInv, CycleInv
        <3>2. IF loop[v] = "sleep" THEN left[v] <= Interval ELSE left[v] <= CycleTime
            BY <3>1 DEF IInv, CycleInv, Phases
        <3>3. left[w] \in Nat /\ obs[w].age <= CycleTime
            BY <1>1, <1>2
        <3>. QED
            BY <1>2, <3>1, <3>2, <3>3 DEF Budget
    <2>. QED
        BY <2>1, <2>2
<1>9. LagBounded'
    <2>1. obs[w].age <= CycleTime /\ left[w] \in Nat
        BY <1>1, <1>2
    <2>. DEFINE a == obs[w].age
    <2>a. newest' = (IF newest <= a THEN newest ELSE a)
        BY <1>4
    <2>b. a \in Nat /\ a <= CycleTime
        BY <1>2, <2>1
    <2>c. newest \in Nat
        BY <1>1
    <2>2. a \in Nat /\ a <= CycleTime /\ newest \in Nat
          /\ newest' = (IF newest <= a THEN newest ELSE a)
        BY <2>a, <2>b, <2>c
    <2>. HIDE DEF a
    <2>3. a <= newest' + CycleTime
        BY <2>2
    <2>. QED
        BY <1>1, <2>3 DEF LagBounded, a
<1>10. WaitInv'
    <2>1. ASSUME NEW t \in Tasks PROVE Served(t)'
        BY <1>3 DEF Served
    <2>. QED
        BY <1>1, <2>1 DEF IInv, WaitInv
<1>. QED
    BY <1>5, <1>6, <1>7, <1>8, <1>9, <1>10 DEF IInv

\* The result is out: the loop goes to sleep for an interval, its event as it is.
LEMMA PublishCalibrationStep ==
    ASSUME IInv, NEW w \in Workers, PublishCalibration(w)
    PROVE  IInv'
<1>. USE Numbers
<1>1. /\ loop[w] = "publish" /\ loop' = [loop EXCEPT ![w] = "sleep"]
      /\ left' = [left EXCEPT ![w] = Interval] /\ obs' = [obs EXCEPT ![w] = NoRow]
      /\ loop \in [Workers -> Phases] /\ left \in [Workers -> Nat]
      /\ obs \in [Workers -> Observation \cup {NoRow}]
      /\ UNCHANGED <<snapshot, newest, trigger, asked, healthy, holding, seen,
                     state, waits, due, clean, faults>>
    BY DEF PublishCalibration, Sleep, gateVars, taskVars, IInv, TypeInv
<1>2. /\ loop'[w] = "sleep" /\ left'[w] = Interval /\ obs'[w] = NoRow
      /\ \A v \in Workers : v # w => /\ loop'[v] = loop[v] /\ left'[v] = left[v]
                                     /\ obs'[v] = obs[v]
    BY <1>1
<1>3. TypeInv'
    <2>1. loop' \in [Workers -> Phases] /\ left' \in [Workers -> Nat]
          /\ obs' \in [Workers -> Observation \cup {NoRow}]
        BY <1>1 DEF Phases
    <2>. QED
        BY <1>1, <2>1 DEF IInv, TypeInv
<1>4. HandInv'
    BY <1>1, <1>2 DEF IInv, HandInv
<1>5. CycleInv'
    BY <1>1, <1>2 DEF IInv, CycleInv
<1>6. FreshInv'
    <2>1. healthy[w] /\ left[w] \in Nat
        BY <1>1 DEF IInv, CycleInv
    <2>2. snapshot # NoRow /\ snapshot.age + left[w] <= 2 * CycleTime
        BY <1>1, <2>1 DEF IInv, FreshInv, Budget
    <2>3. snapshot.age \in Nat
        BY <2>2, AgedObservation DEF IInv, TypeInv
    <2>4. snapshot.age + left'[w] <= Budget(loop'[w])
        BY <1>2, <2>1, <2>2, <2>3 DEF Budget
    <2>. QED
        BY <1>1, <1>2, <2>2, <2>4 DEF IInv, FreshInv
<1>7. LagBounded'
    BY <1>1 DEF IInv, LagBounded
<1>8. WaitInv'
    <2>1. ASSUME NEW t \in Tasks, Served(t) PROVE Served(t)'
        BY <1>1, <1>2, <2>1 DEF Served
    <2>. QED
        BY <1>1, <2>1 DEF IInv, WaitInv
<1>. QED
    BY <1>3, <1>4, <1>5, <1>6, <1>7, <1>8 DEF IInv

\* A failed cycle gives up what was known of every waiting task.
LEMMA CycleFailsStep ==
    ASSUME IInv, NEW w \in Workers, CycleFails(w)
    PROVE  IInv'
<1>. USE Numbers
<1>1. /\ loop' = [loop EXCEPT ![w] = "sleep"]
      /\ left' = [left EXCEPT ![w] = Interval] /\ obs' = [obs EXCEPT ![w] = NoRow]
      /\ healthy' = [healthy EXCEPT ![w] = FALSE] /\ clean' = [t \in Tasks |-> FALSE]
      /\ loop[w] # "down"
      /\ loop \in [Workers -> Phases] /\ left \in [Workers -> Nat]
      /\ obs \in [Workers -> Observation \cup {NoRow}] /\ healthy \in [Workers -> BOOLEAN]
      /\ UNCHANGED <<snapshot, newest, trigger, asked, holding, seen, state, waits, due>>
    BY DEF CycleFails, Sleep, gateVars, IInv, TypeInv
<1>2. /\ loop'[w] = "sleep" /\ left'[w] = Interval /\ obs'[w] = NoRow /\ healthy'[w] = FALSE
      /\ \A v \in Workers : v # w => /\ loop'[v] = loop[v] /\ left'[v] = left[v]
                                     /\ obs'[v] = obs[v] /\ healthy'[v] = healthy[v]
    BY <1>1
<1>3. TypeInv'
    <2>1. loop' \in [Workers -> Phases] /\ left' \in [Workers -> Nat]
          /\ obs' \in [Workers -> Observation \cup {NoRow}]
          /\ healthy' \in [Workers -> BOOLEAN] /\ clean' \in [Tasks -> BOOLEAN]
        BY <1>1 DEF Phases
    <2>. QED
        BY <1>1, <2>1 DEF IInv, TypeInv
<1>4. HandInv'
    BY <1>1, <1>2 DEF IInv, HandInv
<1>5. CycleInv'
    BY <1>1, <1>2 DEF IInv, CycleInv
<1>6. FreshInv' /\ LagBounded'
    BY <1>1, <1>2 DEF IInv, FreshInv, LagBounded
<1>7. WaitInv'
    BY <1>1 DEF WaitInv
<1>. QED
    BY <1>3, <1>4, <1>5, <1>6, <1>7 DEF IInv

\* A called-for probe begins before time goes on.
LEMMA WakeStep ==
    ASSUME IInv, NEW w \in Workers, Wake(w)
    PROVE  IInv'
<1>. USE Numbers
<1>1. /\ loop[w] = "sleep" /\ loop' = [loop EXCEPT ![w] = "probe"]
      /\ left' = [left EXCEPT ![w] = CycleTime]
      /\ trigger' = [trigger EXCEPT ![w] = FALSE] /\ asked' = [asked EXCEPT ![w] = FALSE]
      /\ loop \in [Workers -> Phases] /\ left \in [Workers -> Nat]
      /\ trigger \in [Workers -> BOOLEAN] /\ asked \in [Workers -> BOOLEAN]
      /\ UNCHANGED <<snapshot, newest, obs, healthy, holding, seen, state, waits, due, clean,
                     faults>>
    BY DEF Wake, gateVars, taskVars, IInv, TypeInv
<1>2. /\ loop'[w] = "probe" /\ left'[w] = CycleTime /\ trigger'[w] = FALSE /\ asked'[w] = FALSE
      /\ \A v \in Workers : v # w => /\ loop'[v] = loop[v] /\ left'[v] = left[v]
                                     /\ trigger'[v] = trigger[v] /\ asked'[v] = asked[v]
    BY <1>1
<1>3. TypeInv'
    <2>1. loop' \in [Workers -> Phases] /\ left' \in [Workers -> Nat]
          /\ trigger' \in [Workers -> BOOLEAN] /\ asked' \in [Workers -> BOOLEAN]
        BY <1>1 DEF Phases
    <2>. QED
        BY <1>1, <2>1 DEF IInv, TypeInv
<1>4. HandInv'
    BY <1>1, <1>2 DEF IInv, HandInv
<1>5. CycleInv'
    BY <1>1, <1>2 DEF IInv, CycleInv
<1>6. FreshInv'
    <2>1. ASSUME healthy[w] PROVE snapshot # NoRow /\ snapshot.age + left'[w] <= Budget(loop'[w])
        <3>1. snapshot # NoRow /\ snapshot.age + left[w] <= 2 * CycleTime + Interval
            BY <1>1, <2>1 DEF IInv, FreshInv, Budget
        <3>2. snapshot.age \in Nat /\ left[w] \in Nat
            BY <1>1, <3>1, AgedObservation DEF IInv, TypeInv
        <3>. QED
            BY <1>2, <3>1, <3>2 DEF Budget
    <2>. QED
        BY <1>1, <1>2, <2>1 DEF IInv, FreshInv
<1>7. LagBounded'
    BY <1>1 DEF IInv, LagBounded
<1>8. WaitInv'
    <2>1. ASSUME NEW t \in Tasks, Served(t) PROVE Served(t)'
        <3>1. CASE \E v \in Workers : healthy[v]
            BY <1>1, <3>1 DEF Served
        <3>2. CASE \E v \in Workers : /\ loop[v] \in {"probe", "save"}
                                      /\ left[v] + waits[t] * WaitDelay <= CycleTime + due[t]
            BY <1>1, <1>2, <3>2 DEF Served
        <3>3. CASE \E v \in Workers : /\ loop[v] = "sleep" /\ trigger[v]
                                      /\ waits[t] * WaitDelay <= due[t]
            <4>1. PICK v \in Workers : /\ loop[v] = "sleep" /\ trigger[v]
                                       /\ waits[t] * WaitDelay <= due[t]
                BY <3>3
            <4>2. CASE v # w
                BY <1>1, <1>2, <4>1, <4>2 DEF Served
            <4>3. CASE v = w
                <5>. DEFINE k == waits[t] * WaitDelay
                <5>1. waits[t] \in Nat /\ due[t] \in Nat
                    BY DEF IInv, TypeInv
                <5>2. k \in Nat
                    BY <5>1
                <5>. HIDE DEF k
                <5>3. k <= due[t]
                    BY <4>1 DEF k
                <5>4. left'[w] + k <= CycleTime + due[t]
                    BY <1>2, <5>1, <5>2, <5>3
                <5>5. left'[w] + waits'[t] * WaitDelay <= CycleTime + due'[t]
                    BY <1>1, <5>4 DEF k
                <5>. QED
                    BY <1>2, <5>5 DEF Served
            <4>. QED
                BY <4>2, <4>3
        <3>. QED
            BY <2>1, <3>1, <3>2, <3>3 DEF Served
    <2>. QED
        BY <1>1, <2>1 DEF IInv, WaitInv
<1>. QED
    BY <1>3, <1>4, <1>5, <1>6, <1>7, <1>8 DEF IInv

-------------------------------------------------------------------------------
\* A delivery takes a task nobody holds.
LEMMA DeliverStep ==
    ASSUME IInv, NEW w \in Workers, NEW t \in Tasks, Deliver(w, t)
    PROVE  IInv'
<1>. USE Numbers
<1>1. /\ loop[w] # "down" /\ holding[w] = NoTask /\ state[t] = "queued" /\ due[t] = 0
      /\ state' = [state EXCEPT ![t] = "gate"] /\ holding' = [holding EXCEPT ![w] = t]
      /\ state \in [Tasks -> States] /\ holding \in [Workers -> Tasks \cup {NoTask}]
      /\ UNCHANGED <<snapshot, newest, loop, left, obs, trigger, asked, healthy, seen, waits,
                     due, clean, faults>>
    BY DEF Deliver, loopVars, IInv, TypeInv
<1>2. /\ holding'[w] = t /\ \A v \in Workers : v # w => holding'[v] = holding[v]
      /\ state'[t] = "gate" /\ \A u \in Tasks : u # t => state'[u] = state[u]
    BY <1>1
<1>3. \A v \in Workers : holding[v] # t
    BY <1>1, CalibrationAssumption DEF IInv, HandInv
<1>4. TypeInv'
    <2>1. state' \in [Tasks -> States] /\ holding' \in [Workers -> Tasks \cup {NoTask}]
        BY <1>1 DEF States
    <2>. QED
        BY <1>1, <2>1 DEF IInv, TypeInv
<1>5. HandInv'
    <2>. SUFFICES ASSUME NEW v \in Workers, holding'[v] # NoTask
                  PROVE  /\ loop[v] # "down"
                         /\ state'[holding'[v]] \in {"gate", "evaluate"}
                         /\ due[holding'[v]] = 0
                         /\ \A u \in Workers : u # v => holding'[u] # holding'[v]
        BY <1>1 DEF HandInv
    <2>1. CASE v = w
        BY <1>1, <1>2, <1>3, <2>1
    <2>2. CASE v # w
        <3>1. holding'[v] = holding[v] /\ holding[v] \in Tasks /\ holding[v] # t
            BY <1>1, <1>2, <1>3, <2>2
        <3>. QED
            BY <1>2, <3>1 DEF IInv, HandInv
    <2>. QED
        BY <2>1, <2>2
<1>6. CycleInv' /\ FreshInv' /\ LagBounded'
    BY <1>1 DEF IInv, CycleInv, FreshInv, LagBounded
<1>7. WaitInv'
    <2>1. ASSUME NEW u \in Tasks, Served(u) PROVE Served(u)'
        BY <1>1, <2>1 DEF Served
    <2>2. ASSUME NEW u \in Tasks, clean[u]
          PROVE  /\ state'[u] # "exhausted"
                 /\ \A v \in Workers :
                        holding'[v] = u /\ state'[u] = "evaluate" /\ waits[u] = MaxWaits =>
                            seen[v] # NoRow /\ seen[v].age <= Freshness
        <3>1. CASE u = t
            BY <1>2, <3>1
        <3>2. CASE u # t
            BY <1>2, <2>2, <3>2 DEF IInv, WaitInv
        <3>. QED
            BY <3>1, <3>2
    <2>. QED
        BY <1>1, <2>1, <2>2 DEF IInv, WaitInv
<1>. QED
    BY <1>4, <1>5, <1>6, <1>7 DEF IInv

\* When all waits are used up the row is fresh, and the reader sees it.
LEMMA ReadSnapshotStep ==
    ASSUME IInv, NEW w \in Workers, ReadSnapshot(w)
    PROVE  IInv'
<1>. USE Numbers
<1>. DEFINE t == holding[w]
<1>1. /\ t # NoTask /\ state[t] = "gate" /\ t \in Tasks
      /\ seen' = [seen EXCEPT ![w] = snapshot] /\ state' = [state EXCEPT ![t] = "evaluate"]
      /\ state \in [Tasks -> States] /\ seen \in [Workers -> Observation \cup {NoRow}]
      /\ snapshot \in Observation \cup {NoRow}
      /\ UNCHANGED <<snapshot, newest, loop, left, obs, trigger, asked, healthy, holding, waits,
                     due, clean, faults>>
    BY DEF ReadSnapshot, loopVars, IInv, TypeInv
<1>2. /\ seen'[w] = snapshot /\ \A v \in Workers : v # w => seen'[v] = seen[v]
      /\ state'[t] = "evaluate" /\ \A u \in Tasks : u # t => state'[u] = state[u]
    BY <1>1
<1>3. due[t] = 0 /\ \A v \in Workers : v # w => holding[v] # t
    BY <1>1 DEF IInv, HandInv
<1>4. TypeInv'
    <2>1. state' \in [Tasks -> States] /\ seen' \in [Workers -> Observation \cup {NoRow}]
        BY <1>1 DEF States
    <2>. QED
        BY <1>1, <2>1 DEF IInv, TypeInv
<1>5. HandInv'
    BY <1>1, <1>2 DEF IInv, HandInv, TypeInv
<1>6. CycleInv' /\ FreshInv' /\ LagBounded'
    BY <1>1 DEF IInv, CycleInv, FreshInv, LagBounded
<1>7. ASSUME clean[t], waits[t] = MaxWaits PROVE snapshot # NoRow /\ snapshot.age <= Freshness
    <2>1. MaxWaits * WaitDelay > CycleTime
        BY Numbers
    <2>2. Served(t)
        BY <1>1, <1>7 DEF IInv, WaitInv
    <2>3. \A v \in Workers : left[v] \in Nat
        BY DEF IInv, TypeInv
    <2>. DEFINE k == MaxWaits * WaitDelay
    <2>4. k \in Nat /\ k > CycleTime
        BY <2>1
    <2>. HIDE DEF k
    <2>5. \/ \E v \in Workers : healthy[v]
          \/ \E v \in Workers : left[v] + k <= CycleTime
          \/ k <= 0
        BY <1>3, <1>7, <2>2 DEF Served, k
    <2>6. PICK v \in Workers : healthy[v]
        BY <2>3, <2>4, <2>5
    <2>7. /\ snapshot # NoRow /\ snapshot.age + left[v] <= Budget(loop[v])
        BY <2>6 DEF IInv, FreshInv
    <2>8. Budget(loop[v]) <= 3 * CycleTime + Interval
        BY DEF Budget
    <2>9. snapshot.age \in Nat
        BY <1>1, <2>7, AgedObservation
    <2>10. Budget(loop[v]) \in Nat
        BY DEF Budget
    <2>. QED
        BY <2>3, <2>7, <2>8, <2>9, <2>10
<1>8. WaitInv'
    <2>1. ASSUME NEW u \in Tasks, Served(u) PROVE Served(u)'
        BY <1>1, <2>1 DEF Served
    <2>2. ASSUME NEW u \in Tasks, clean[u]
          PROVE  /\ state'[u] # "exhausted"
                 /\ \A v \in Workers :
                        holding[v] = u /\ state'[u] = "evaluate" /\ waits[u] = MaxWaits =>
                            seen'[v] # NoRow /\ seen'[v].age <= Freshness
        <3>1. CASE u = t
            BY <1>2, <1>3, <1>7, <2>2, <3>1
        <3>2. CASE u # t
            BY <1>2, <2>2, <3>2 DEF IInv, WaitInv
        <3>. QED
            BY <3>1, <3>2
    <2>. QED
        BY <1>1, <2>1, <2>2 DEF IInv, WaitInv
<1>. QED
    BY <1>4, <1>5, <1>6, <1>8 DEF IInv

\* The gate's decision: a wait calls for a probe, and a task whose probes did not
\* fail never finds the row stale when its waits are used up.
LEMMA EvaluateStep ==
    ASSUME IInv, NEW w \in Workers, Evaluate(w)
    PROVE  IInv'
<1>. USE Numbers
<1>a. PICK t \in Tasks : t = holding[w]
    BY CalibrationAssumption DEF Evaluate, IInv, TypeInv
<1>b. PICK d : d = Decision(seen[w])
    OBVIOUS
<1>c. PICK delay \in BOOLEAN : delay = (d = "wait_for_calibration" /\ CanWait(t))
    OBVIOUS
<1>1. /\ t # NoTask /\ state[t] = "evaluate" /\ t \in Tasks
      /\ holding[w] = t /\ d = Decision(seen[w])
      /\ delay <=> d = "wait_for_calibration" /\ CanWait(t)
      /\ state' = [state EXCEPT ![t] =
                        CASE d = "allow"  -> "executed"
                          [] d = "reject" -> "rejected"
                          [] delay        -> "queued"
                          [] OTHER        -> "exhausted"]
      /\ waits' = [waits EXCEPT ![t] = IF delay THEN @ + 1 ELSE @]
      /\ due' = [due EXCEPT ![t] = IF delay THEN WaitDelay ELSE @]
      /\ clean' = [clean EXCEPT ![t] = IF delay /\ waits[t] = 0 THEN TRUE ELSE @]
      /\ trigger' = [trigger EXCEPT ![w] = trigger[w] \/ delay]
      /\ asked' = [asked EXCEPT ![w] = @ \/ delay]
      /\ holding' = [holding EXCEPT ![w] = NoTask] /\ seen' = [seen EXCEPT ![w] = NoRow]
      /\ UNCHANGED <<snapshot, newest, loop, left, obs, healthy, faults>>
    BY <1>a, <1>b, <1>c DEF Evaluate, Asked, IInv, TypeInv
<1>2. /\ state \in [Tasks -> States] /\ waits \in [Tasks -> 0 .. MaxWaits] /\ due \in [Tasks -> Nat]
      /\ clean \in [Tasks -> BOOLEAN] /\ trigger \in [Workers -> BOOLEAN]
      /\ asked \in [Workers -> BOOLEAN] /\ holding \in [Workers -> Tasks \cup {NoTask}]
      /\ seen \in [Workers -> Observation \cup {NoRow}]
    BY DEF IInv, TypeInv
<1>3. \A u \in Tasks : u # t => /\ state'[u] = state[u] /\ waits'[u] = waits[u]
                                /\ due'[u] = due[u] /\ clean'[u] = clean[u]
    BY <1>1, <1>2
<1>4. /\ holding'[w] = NoTask
      /\ \A v \in Workers : v # w => /\ holding'[v] = holding[v] /\ holding[v] # t
                                     /\ seen'[v] = seen[v]
                                     /\ trigger'[v] = trigger[v] /\ asked'[v] = asked[v]
    <2>1. \A v \in Workers : v # w => holding[v] # t
        BY <1>1 DEF IInv, HandInv
    <2>. QED
        BY <1>1, <1>2, <2>1
<1>5. state'[t] \in {"executed", "rejected", "queued", "exhausted"}
    BY <1>1, <1>2
<1>6. /\ delay => /\ waits[t] < MaxWaits /\ waits'[t] = waits[t] + 1 /\ due'[t] = WaitDelay
                  /\ clean'[t] = (clean[t] \/ waits[t] = 0) /\ state'[t] = "queued"
                  /\ trigger'[w] = TRUE
      /\ ~delay => waits'[t] = waits[t] /\ due'[t] = due[t] /\ clean'[t] = clean[t]
    <2>1. ASSUME delay PROVE state'[t] = "queued" /\ waits[t] < MaxWaits
        BY <1>1, <1>2, <2>1 DEF CanWait
    <2>2. ASSUME delay PROVE waits'[t] = waits[t] + 1 /\ due'[t] = WaitDelay /\ trigger'[w] = TRUE
        BY <1>1, <1>2, <2>2
    <2>3. ASSUME delay PROVE clean'[t] = (clean[t] \/ waits[t] = 0)
        <3>1. CASE waits[t] = 0
            BY <1>1, <1>2, <2>3, <3>1
        <3>2. CASE waits[t] # 0
            BY <1>1, <1>2, <2>3, <3>2
        <3>. QED
            BY <3>1, <3>2
    <2>4. ASSUME ~delay PROVE waits'[t] = waits[t] /\ due'[t] = due[t] /\ clean'[t] = clean[t]
        BY <1>1, <1>2, <2>4
    <2>. QED
        BY <2>1, <2>2, <2>3, <2>4
<1>7. TypeInv'
    <2>1. state' \in [Tasks -> States]
        BY <1>1, <1>2, <1>5 DEF States, Decided
    <2>2. waits' \in [Tasks -> 0 .. MaxWaits] /\ due' \in [Tasks -> Nat]
        <3>1. CASE delay
            BY <1>1, <1>2, <1>6, <3>1
        <3>2. CASE ~delay
            BY <1>1, <1>2, <3>2
        <3>. QED
            BY <3>1, <3>2
    <2>3. clean' \in [Tasks -> BOOLEAN] /\ trigger' \in [Workers -> BOOLEAN]
          /\ asked' \in [Workers -> BOOLEAN]
        BY <1>1, <1>2
    <2>4. holding' \in [Workers -> Tasks \cup {NoTask}] /\ seen' \in [Workers -> Observation \cup {NoRow}]
        BY <1>1, <1>2
    <2>. QED
        BY <1>1, <2>1, <2>2, <2>3, <2>4 DEF IInv, TypeInv
<1>8. HandInv'
    BY <1>1, <1>2, <1>3, <1>4 DEF IInv, HandInv
<1>9. CycleInv'
    <2>1. asked'[w] => trigger'[w]
        <3>1. asked'[w] = (asked[w] \/ delay) /\ trigger'[w] = (trigger[w] \/ delay)
            BY <1>1, <1>2
        <3>. QED
            BY <3>1 DEF IInv, CycleInv
    <2>. QED
        BY <1>1, <1>4, <2>1 DEF IInv, CycleInv
<1>10. FreshInv' /\ LagBounded'
    BY <1>1 DEF IInv, FreshInv, LagBounded
<1>11. \A v \in Workers : trigger[v] => trigger'[v]
    BY <1>1, <1>2
<1>12. ASSUME NEW u \in Tasks, u # t, Served(u) PROVE Served(u)'
    BY <1>1, <1>3, <1>11, <1>12 DEF Served
<1>13. ASSUME ~delay, Served(t) PROVE Served(t)'
    BY <1>1, <1>6, <1>11, <1>13 DEF Served
<1>14. ASSUME delay, clean'[t] PROVE Served(t)'
    <2>1. waits[t] \in Nat /\ due[t] = 0
        BY <1>1, <1>2 DEF IInv, HandInv
    <2>2. CASE waits[t] = 0
        <3>1. waits'[t] * WaitDelay = WaitDelay /\ due'[t] = WaitDelay
            BY <1>6, <1>14, <2>2
        <3>2. CASE loop[w] \in {"probe", "save"}
            <4>1. left[w] <= CycleTime /\ left[w] \in Nat
                BY <3>2 DEF IInv, CycleInv, TypeInv
            <4>2. left'[w] + waits'[t] * WaitDelay <= CycleTime + due'[t]
                BY <1>1, <3>1, <4>1
            <4>. QED
                BY <1>1, <3>2, <4>2 DEF Served
        <3>3. CASE loop[w] = "publish"
            BY <1>1, <3>3 DEF IInv, CycleInv, Served
        <3>4. CASE loop[w] = "sleep"
            <4>1. waits'[t] * WaitDelay <= due'[t]
                BY <3>1
            <4>. QED
                BY <1>1, <1>6, <1>14, <3>4, <4>1 DEF Served
        <3>. QED
            BY <1>1, <3>2, <3>3, <3>4 DEF IInv, HandInv, TypeInv, Phases
    <2>3. CASE waits[t] # 0
        <3>1. clean[t] /\ Served(t)
            BY <1>1, <1>6, <1>14, <2>3 DEF IInv, WaitInv
        <3>. DEFINE k == waits[t] * WaitDelay
        <3>2. k \in Nat /\ (waits[t] + 1) * WaitDelay = k + WaitDelay
            BY <2>1
        <3>3. waits'[t] * WaitDelay = k + WaitDelay /\ due'[t] = WaitDelay
            BY <1>6, <1>14, <3>2
        <3>4. \A v \in Workers : left[v] \in Nat
            BY DEF IInv, TypeInv
        <3>. HIDE DEF k
        <3>5. \/ \E v \in Workers : healthy[v]
              \/ \E v \in Workers : loop[v] \in {"probe", "save"} /\ left[v] + k <= CycleTime
              \/ \E v \in Workers : loop[v] = "sleep" /\ trigger[v] /\ k <= 0
            BY <2>1, <3>1 DEF Served, k
        <3>6. CASE \E v \in Workers : healthy[v]
            BY <1>1, <3>6 DEF Served
        <3>7. CASE \E v \in Workers : loop[v] \in {"probe", "save"} /\ left[v] + k <= CycleTime
            <4>1. PICK v \in Workers : loop[v] \in {"probe", "save"} /\ left[v] + k <= CycleTime
                BY <3>7
            <4>2. left'[v] + waits'[t] * WaitDelay <= CycleTime + due'[t]
                BY <1>1, <3>2, <3>3, <3>4, <4>1
            <4>. QED
                BY <1>1, <4>1, <4>2 DEF Served
        <3>8. CASE \E v \in Workers : loop[v] = "sleep" /\ trigger[v] /\ k <= 0
            <4>1. PICK v \in Workers : loop[v] = "sleep" /\ trigger[v] /\ k <= 0
                BY <3>8
            <4>2. waits'[t] * WaitDelay <= due'[t]
                BY <3>2, <3>3, <4>1
            <4>. QED
                BY <1>1, <1>11, <4>1, <4>2 DEF Served
        <3>. QED
            BY <3>5, <3>6, <3>7, <3>8
    <2>. QED
        BY <2>2, <2>3
<1>15. ASSUME clean[t], ~delay PROVE state'[t] # "exhausted"
    <2>1. CASE d = "wait_for_calibration"
        <3>1. waits[t] = MaxWaits
            BY <1>2, <1>15, <2>1, <1>1 DEF CanWait
        <3>2. seen[w] # NoRow /\ seen[w].age <= Freshness
            BY <1>1, <1>15, <3>1 DEF IInv, WaitInv
        <3>3. seen[w].age \in Nat
            BY <1>2, <3>2, AgedObservation
        <3>. QED
            BY <1>b, <2>1, <3>2, <3>3, Numbers DEF Decision
    <2>2. CASE d # "wait_for_calibration"
        <3>1. d \in {"allow", "reject"}
            BY <1>b, <2>2 DEF Decision
        <3>. QED
            BY <1>1, <1>2, <3>1
    <2>. QED
        BY <2>1, <2>2
<1>16. WaitInv'
    <2>. SUFFICES ASSUME NEW u \in Tasks, clean'[u]
                  PROVE  /\ waits'[u] > 0
                         /\ Served(u)'
                         /\ state'[u] # "exhausted"
                         /\ \A v \in Workers :
                                holding'[v] = u /\ state'[u] = "evaluate" /\ waits'[u] = MaxWaits =>
                                    seen'[v] # NoRow /\ seen'[v].age <= Freshness
        BY DEF WaitInv
    <2>1. CASE u # t
        <3>1. clean[u] /\ u # NoTask
            BY <1>3, <2>1, CalibrationAssumption
        <3>2. \A v \in Workers : holding'[v] = u => holding[v] = u /\ seen'[v] = seen[v]
            BY <1>4, <3>1
        <3>. QED
            BY <1>3, <1>12, <2>1, <3>1, <3>2 DEF IInv, WaitInv
    <2>2. CASE u = t /\ delay
        <3>1. waits'[t] > 0
            BY <1>2, <1>1, <1>6, <2>2
        <3>. QED
            BY <1>6, <1>14, <2>2, <3>1
    <2>3. CASE u = t /\ ~delay
        <3>1. clean[t]
            BY <1>6, <2>3
        <3>2. waits[t] > 0 /\ Served(t)
            BY <1>1, <3>1 DEF IInv, WaitInv
        <3>. QED
            BY <1>5, <1>6, <1>13, <1>15, <2>3, <3>1, <3>2
    <2>. QED
        BY <2>1, <2>2, <2>3
<1>. QED
    BY <1>7, <1>8, <1>9, <1>10, <1>16 DEF IInv

-------------------------------------------------------------------------------
\* A crash gives the task in hand back and forgets what was known of waiting tasks.
LEMMA CrashStep ==
    ASSUME IInv, NEW w \in Workers, Crash(w)
    PROVE  IInv'
<1>. USE Numbers
<1>1. /\ loop[w] # "down" /\ loop' = [loop EXCEPT ![w] = "down"]
      /\ left' = [left EXCEPT ![w] = 0] /\ obs' = [obs EXCEPT ![w] = NoRow]
      /\ trigger' = [trigger EXCEPT ![w] = FALSE] /\ asked' = [asked EXCEPT ![w] = FALSE]
      /\ healthy' = [healthy EXCEPT ![w] = FALSE] /\ clean' = [t \in Tasks |-> FALSE]
      /\ state' = [t \in Tasks |-> IF t = holding[w] THEN "queued" ELSE state[t]]
      /\ holding' = [holding EXCEPT ![w] = NoTask] /\ seen' = [seen EXCEPT ![w] = NoRow]
      /\ UNCHANGED <<snapshot, newest, waits, due>>
    BY DEF Crash, GivenBack
<1>2. /\ loop \in [Workers -> Phases] /\ left \in [Workers -> Nat]
      /\ obs \in [Workers -> Observation \cup {NoRow}] /\ healthy \in [Workers -> BOOLEAN]
      /\ trigger \in [Workers -> BOOLEAN] /\ asked \in [Workers -> BOOLEAN]
      /\ holding \in [Workers -> Tasks \cup {NoTask}]
      /\ seen \in [Workers -> Observation \cup {NoRow}] /\ state \in [Tasks -> States]
    BY DEF IInv, TypeInv
<1>3. /\ loop'[w] = "down" /\ healthy'[w] = FALSE /\ asked'[w] = FALSE /\ holding'[w] = NoTask
      /\ \A v \in Workers : v # w =>
            /\ loop'[v] = loop[v] /\ left'[v] = left[v] /\ obs'[v] = obs[v]
            /\ healthy'[v] = healthy[v] /\ asked'[v] = asked[v] /\ trigger'[v] = trigger[v]
            /\ holding'[v] = holding[v]
    BY <1>1, <1>2
<1>4. TypeInv'
    <2>1. loop' \in [Workers -> Phases] /\ left' \in [Workers -> Nat]
          /\ obs' \in [Workers -> Observation \cup {NoRow}] /\ healthy' \in [Workers -> BOOLEAN]
        BY <1>1, <1>2 DEF Phases
    <2>2. trigger' \in [Workers -> BOOLEAN] /\ asked' \in [Workers -> BOOLEAN]
          /\ clean' \in [Tasks -> BOOLEAN]
        BY <1>1, <1>2
    <2>3. holding' \in [Workers -> Tasks \cup {NoTask}]
          /\ seen' \in [Workers -> Observation \cup {NoRow}]
        BY <1>1, <1>2
    <2>4. state' \in [Tasks -> States]
        BY <1>1, <1>2 DEF States
    <2>. QED
        BY <1>1, <2>1, <2>2, <2>3, <2>4 DEF IInv, TypeInv
<1>5. HandInv'
    <2>. SUFFICES ASSUME NEW v \in Workers, holding'[v] # NoTask
                  PROVE  /\ loop'[v] # "down"
                         /\ state'[holding'[v]] \in {"gate", "evaluate"}
                         /\ due[holding'[v]] = 0
                         /\ \A u \in Workers : u # v => holding'[u] # holding'[v]
        BY <1>1 DEF HandInv
    <2>1. v # w /\ holding'[v] = holding[v] /\ holding[v] \in Tasks
        BY <1>2, <1>3
    <2>2. /\ loop[v] # "down" /\ state[holding[v]] \in {"gate", "evaluate"}
          /\ due[holding[v]] = 0 /\ \A u \in Workers : u # v => holding[u] # holding[v]
        BY <2>1 DEF IInv, HandInv
    <2>3. state'[holding[v]] = state[holding[v]]
        BY <1>1, <2>1, <2>2
    <2>. QED
        BY <1>3, <2>1, <2>2, <2>3
<1>6. CycleInv'
    BY <1>1, <1>3 DEF IInv, CycleInv
<1>7. FreshInv' /\ LagBounded'
    BY <1>1, <1>3 DEF IInv, FreshInv, LagBounded
<1>8. WaitInv'
    BY <1>1 DEF WaitInv
<1>. QED
    BY <1>4, <1>5, <1>6, <1>7, <1>8 DEF IInv

\* A process that comes up begins with a cycle, of no known health.
LEMMA RestartStep ==
    ASSUME IInv, NEW w \in Workers, Restart(w)
    PROVE  IInv'
<1>. USE Numbers
<1>1. /\ loop[w] = "down" /\ loop' = [loop EXCEPT ![w] = "probe"]
      /\ left' = [left EXCEPT ![w] = CycleTime]
      /\ loop \in [Workers -> Phases] /\ left \in [Workers -> Nat]
      /\ UNCHANGED <<snapshot, newest, obs, trigger, asked, healthy, holding, seen,
                     state, waits, due, clean, faults>>
    BY DEF Restart, gateVars, taskVars, IInv, TypeInv
<1>2. /\ loop'[w] = "probe" /\ left'[w] = CycleTime
      /\ \A v \in Workers : v # w => loop'[v] = loop[v] /\ left'[v] = left[v]
    BY <1>1
<1>3. TypeInv'
    <2>1. loop' \in [Workers -> Phases] /\ left' \in [Workers -> Nat]
        BY <1>1 DEF Phases
    <2>. QED
        BY <1>1, <2>1 DEF IInv, TypeInv
<1>4. HandInv'
    BY <1>1, <1>2 DEF IInv, HandInv
<1>5. CycleInv'
    BY <1>1, <1>2 DEF IInv, CycleInv
<1>6. FreshInv' /\ LagBounded'
    BY <1>1, <1>2 DEF IInv, CycleInv, FreshInv, LagBounded
<1>7. WaitInv'
    <2>1. ASSUME NEW t \in Tasks, Served(t) PROVE Served(t)'
        BY <1>1, <1>2, <2>1 DEF Served
    <2>. QED
        BY <1>1, <2>1 DEF IInv, WaitInv
<1>. QED
    BY <1>3, <1>4, <1>5, <1>6, <1>7 DEF IInv

\* Time: what ages by one, a cycle's remaining time, or a wait, pays for.
LEMMA TickStep ==
    ASSUME IInv, Tick
    PROVE  IInv'
<1>. USE Numbers
<1>1. /\ \A t \in Tasks : state[t] # "evaluate"
      /\ \A w \in Workers : loop[w] # "down" => left[w] > 0
      /\ \A w \in Workers : loop[w] = "sleep" => ~trigger[w]
      /\ snapshot' = Aged(snapshot) /\ newest' = Older(newest)
      /\ left' = [w \in Workers |-> Less(left[w])]
      /\ obs' = [w \in Workers |-> Aged(obs[w])]
      /\ due' = [t \in Tasks |-> Less(due[t])]
      /\ UNCHANGED <<loop, trigger, asked, healthy, holding, seen, state, waits, clean, faults>>
    BY DEF Tick, gateVars
<1>2. /\ loop \in [Workers -> Phases] /\ left \in [Workers -> Nat]
      /\ obs \in [Workers -> Observation \cup {NoRow}] /\ due \in [Tasks -> Nat]
      /\ snapshot \in Observation \cup {NoRow} /\ newest \in 0 .. Freshness + 1
      /\ waits \in [Tasks -> 0 .. MaxWaits]
    BY DEF IInv, TypeInv
<1>3. \A w \in Workers : /\ left'[w] \in Nat /\ left'[w] <= left[w]
                         /\ loop[w] # "down" => left'[w] = left[w] - 1
    BY <1>1, <1>2, LessOne
<1>4. \A t \in Tasks : /\ due'[t] \in Nat /\ (due[t] = 0 => due'[t] = 0)
                       /\ due[t] <= due'[t] + 1
    BY <1>1, <1>2, LessOne
<1>5. ASSUME NEW o \in Observation
      PROVE  /\ Aged(o) # NoRow /\ o.age \in Nat /\ Aged(o).age \in Nat /\ Aged(o).age <= o.age + 1
             /\ Aged(o).age <= Freshness + 1
    <2>1. Aged(o) # NoRow /\ Aged(o).age = Older(o.age) /\ o.age \in 0 .. Freshness + 1
        BY <1>5, AgedObservation
    <2>. QED
        BY <2>1, OlderAge
<1>6. TypeInv'
    <2>1. snapshot' \in Observation \cup {NoRow}
        BY <1>1, <1>2, AgedTyped
    <2>2. obs' \in [Workers -> Observation \cup {NoRow}]
        BY <1>1, <1>2, AgedTyped
    <2>3. newest' \in 0 .. Freshness + 1
        BY <1>1, <1>2, OlderAge
    <2>4. left' \in [Workers -> Nat] /\ due' \in [Tasks -> Nat]
        BY <1>1, <1>2, LessOne
    <2>. QED
        BY <1>1, <2>1, <2>2, <2>3, <2>4 DEF IInv, TypeInv
<1>7. HandInv'
    BY <1>1, <1>4 DEF IInv, HandInv, TypeInv
<1>8. CycleInv'
    <2>. SUFFICES ASSUME NEW w \in Workers
                  PROVE  /\ loop[w] \in {"probe", "save", "publish"} => left'[w] <= CycleTime
                         /\ loop[w] = "sleep" => left'[w] <= Interval
                         /\ loop[w] = "save" => obs'[w] # NoRow /\ obs'[w].age + left'[w] <= CycleTime
                         /\ loop[w] = "publish" => healthy[w]
                         /\ healthy[w] => loop[w] # "down"
                         /\ asked[w] => trigger[w]
        BY <1>1 DEF CycleInv
    <2>1. left[w] \in Nat /\ left'[w] \in Nat /\ left'[w] <= left[w]
        BY <1>2, <1>3
    <2>2. ASSUME loop[w] = "save" PROVE obs'[w] # NoRow /\ obs'[w].age + left'[w] <= CycleTime
        <3>1. obs[w] \in Observation /\ obs[w].age + left[w] <= CycleTime
            BY <1>2, <2>2 DEF IInv, CycleInv
        <3>2. obs'[w] = Aged(obs[w]) /\ left'[w] = left[w] - 1
            BY <1>1, <1>3, <2>2
        <3>3. obs'[w] # NoRow /\ obs'[w].age <= obs[w].age + 1 /\ obs[w].age \in Nat
              /\ obs'[w].age \in Nat
            BY <1>5, <3>1, <3>2
        <3>. QED
            BY <2>1, <3>1, <3>2, <3>3
    <2>. QED
        BY <2>1, <2>2 DEF IInv, CycleInv
<1>9. FreshInv'
    <2>. SUFFICES ASSUME NEW w \in Workers, healthy[w]
                  PROVE  snapshot' # NoRow /\ snapshot'.age + left'[w] <= Budget(loop[w])
        BY <1>1 DEF FreshInv
    <2>1. snapshot \in Observation /\ snapshot.age + left[w] <= Budget(loop[w])
        BY <1>2 DEF IInv, FreshInv
    <2>2. left[w] \in Nat /\ left'[w] = left[w] - 1 /\ left'[w] \in Nat
        BY <1>2, <1>3 DEF IInv, CycleInv
    <2>3. snapshot' # NoRow /\ snapshot'.age <= snapshot.age + 1 /\ snapshot.age \in Nat
          /\ snapshot'.age \in Nat
        BY <1>1, <1>5, <2>1
    <2>4. Budget(loop[w]) \in Nat
        BY DEF Budget
    <2>. QED
        BY <2>1, <2>2, <2>3, <2>4
<1>10. LagBounded'
    <2>. SUFFICES ASSUME snapshot' # NoRow PROVE snapshot'.age <= newest' + CycleTime
        BY DEF LagBounded
    <2>1. snapshot \in Observation /\ snapshot.age <= newest + CycleTime
        BY <1>1, <1>2, AgedTyped DEF IInv, LagBounded
    <2>2. snapshot'.age <= snapshot.age + 1 /\ snapshot'.age <= Freshness + 1
          /\ snapshot.age \in Nat /\ snapshot'.age \in Nat
        BY <1>1, <1>5, <2>1
    <2>3. newest' = (IF newest <= Freshness THEN newest + 1 ELSE Freshness + 1) /\ newest \in Nat
        BY <1>1, <1>2, OlderAge
    <2>. DEFINE a == snapshot.age
                b == snapshot'.age
    <2>4. a <= newest + CycleTime /\ b <= a + 1 /\ b <= Freshness + 1 /\ a \in Nat /\ b \in Nat
        BY <2>1, <2>2
    <2>. HIDE DEF a, b
    <2>5. b <= newest' + CycleTime
        <3>1. CASE newest <= Freshness
            BY <2>3, <2>4, <3>1
        <3>2. CASE ~(newest <= Freshness)
            BY <2>3, <2>4, <3>2
        <3>. QED
            BY <3>1, <3>2
    <2>. QED
        BY <2>5 DEF b
<1>11. WaitInv'
    <2>1. ASSUME NEW t \in Tasks, Served(t), waits[t] > 0 PROVE Served(t)'
        <3>. DEFINE k == waits[t] * WaitDelay
        <3>1. k \in Nat /\ k = waits'[t] * WaitDelay
            BY <1>1, <1>2
        <3>. HIDE DEF k
        <3>2. CASE \E w \in Workers : healthy[w]
            BY <1>1, <3>2 DEF Served
        <3>3. CASE \E w \in Workers : /\ loop[w] \in {"probe", "save"}
                                      /\ left[w] + k <= CycleTime + due[t]
            <4>1. PICK w \in Workers : /\ loop[w] \in {"probe", "save"}
                                       /\ left[w] + k <= CycleTime + due[t]
                BY <3>3
            <4>2. left[w] \in Nat /\ left'[w] = left[w] - 1 /\ due[t] \in Nat
                  /\ due'[t] \in Nat /\ due[t] <= due'[t] + 1
                BY <1>2, <1>3, <1>4, <4>1
            <4>3. left'[w] + k <= CycleTime + due'[t]
                BY <3>1, <4>1, <4>2
            <4>. QED
                BY <1>1, <3>1, <4>1, <4>3 DEF Served
        <3>. QED
            BY <1>1, <2>1, <3>2, <3>3 DEF Served, k
    <2>2. \A t \in Tasks : state[t] # "evaluate"
        BY <1>1
    <2>. QED
        BY <1>1, <2>1, <2>2 DEF IInv, WaitInv
<1>. QED
    BY <1>6, <1>7, <1>8, <1>9, <1>10, <1>11 DEF IInv

-------------------------------------------------------------------------------
\* Every step keeps the invariant ...
LEMMA InvStep == IInv /\ [Next]_vars => IInv'
<1>. SUFFICES ASSUME IInv, [Next]_vars PROVE IInv'
    OBVIOUS
<1>1. ASSUME NEW w \in Workers, Cycle(w) PROVE IInv'
    BY <1>1, MeasureStep, SaveStep, PublishCalibrationStep, WakeStep DEF Cycle
<1>2. ASSUME NEW w \in Workers, Gate(w) PROVE IInv'
    BY <1>2, ReadSnapshotStep, EvaluateStep DEF Gate
<1>3. ASSUME NEW w \in Workers, CycleFails(w) PROVE IInv'
    BY <1>3, CycleFailsStep
<1>4. ASSUME NEW w \in Workers, NEW t \in Tasks, Deliver(w, t) PROVE IInv'
    BY <1>4, DeliverStep
<1>5. ASSUME NEW w \in Workers, Crash(w) PROVE IInv'
    BY <1>5, CrashStep
<1>6. ASSUME NEW w \in Workers, Restart(w) PROVE IInv'
    BY <1>6, RestartStep
<1>7. CASE Tick
    BY <1>7, TickStep
<1>8. CASE UNCHANGED vars
    <2>1. UNCHANGED <<snapshot, newest, loop, left, obs, trigger, asked, healthy, holding,
                      seen, state, waits, due, clean, faults>>
        BY <1>8 DEF vars, loopVars, gateVars, taskVars
    <2>2. \A t \in Tasks : Served(t) => Served(t)'
        BY <2>1 DEF Served
    <2>. QED
        BY <2>1, <2>2 DEF IInv, TypeInv, HandInv, CycleInv, FreshInv, LagBounded, WaitInv
<1>. QED
    BY <1>1, <1>2, <1>3, <1>4, <1>5, <1>6, <1>7, <1>8 DEF Next

\* ... so every reachable state has it.
LEMMA SpecInv == Spec => []IInv
    BY InvInit, InvStep, PTL DEF Spec

\* While a process whose probes do not fail is up the row is fresh: a row may be a
\* cycle old when a slower worker saves it, and the next save of the healthy one
\* comes within two cycles and an interval.
THEOREM SnapshotStaysFresh == Spec => []FreshWhileHealthy
<1>1. ASSUME IInv PROVE FreshWhileHealthy
    <2>. SUFFICES ASSUME NEW w \in Workers, healthy[w]
                  PROVE  snapshot # NoRow /\ snapshot.age <= Freshness
        BY DEF FreshWhileHealthy
    <2>1. /\ snapshot # NoRow /\ snapshot.age + left[w] <= Budget(loop[w])
          /\ snapshot \in Observation /\ left[w] \in Nat
        BY <1>1 DEF IInv, FreshInv, TypeInv
    <2>2. Budget(loop[w]) <= Freshness /\ Budget(loop[w]) \in Nat
        BY Numbers DEF Budget
    <2>3. snapshot.age \in Nat
        BY <2>1, AgedObservation, Numbers
    <2>. QED
        BY <2>1, <2>2, <2>3, Numbers
<1>. QED
    BY <1>1, SpecInv, PTL

\* A VQE task that uses up its waiting attempts has seen a cycle fail or a worker
\* die since its first wait: the probe that wait called for is saved in time.
THEOREM WaitsAreEnough == Spec => []ExhaustionNeedsFailure
<1>1. IInv => ExhaustionNeedsFailure
    BY DEF IInv, WaitInv, ExhaustionNeedsFailure
<1>. QED
    BY <1>1, SpecInv, PTL

\* A request made while a probe runs is still there when the loop goes to sleep.
THEOREM RequestsAreKept == Spec => []NoLostWakeup
<1>1. IInv => NoLostWakeup
    BY DEF IInv, CycleInv, NoLostWakeup
<1>. QED
    BY <1>1, SpecInv, PTL

\* However the workers' unordered saves overtake each other, the row is at most
\* one cycle older than the newest probe ever saved.
THEOREM LagIsBounded == Spec => []LagBounded
<1>1. IInv => LagBounded
    BY DEF IInv
<1>. QED
    BY <1>1, SpecInv, PTL
================================================================================
