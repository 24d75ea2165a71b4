------------------------ MODULE CalibrationStreamProofs ------------------------
(* Proofs about the calibration agent of CalibrationStream, with the hysteresis *)
(* of Alerting and the baseline of Drift.                                      *)
(*                                                                             *)
(* Tracks says, without counters, which state a sequence of verdicts calls     *)
(* for.  One step keeps it (StepTracks), so every table the agent keeps does,  *)
(* whatever a crash makes it count again.  What left the topics is told by     *)
(* Left, the level last reported at each place of a topic.  Welford's update is *)
(* exact because n times the sum of squares less the square of the sum grows as *)
(* the definition of the variance does (Moments, UpdateKeepsMoments).          *)
EXTENDS CalibrationStream, WellFoundedInduction, TLAPS

\* Appending a verdict neither changes nor ends the runs that ended before it.
LEMMA RunOfAppend ==
    ASSUME NEW seen \in Seq(BOOLEAN), NEW over \in BOOLEAN, NEW v \in BOOLEAN,
           NEW n \in Nat, NEW i \in n .. Len(seen)
    PROVE  Run(Append(seen, over), v, n, i) <=> Run(seen, v, n, i)
  BY DEF Run

\* The trailing run grows by a verdict of its kind and is ended by another.
LEMMA TrailingRunOfAppend ==
    ASSUME NEW seen \in Seq(BOOLEAN), NEW over \in BOOLEAN, NEW v \in BOOLEAN,
           NEW n \in Nat, TrailingRun(seen, v, n)
    PROVE  TrailingRun(Append(seen, over), v, IF over = v THEN n + 1 ELSE 0)
<1> DEFINE longer == Append(seen, over)
<1>1. Len(longer) = Len(seen) + 1 /\ longer[Len(seen) + 1] = over
      /\ \A i \in 1 .. Len(seen) : longer[i] = seen[i]
  OBVIOUS
<1>2. CASE over = v
  <2>1. n \in 0 .. Len(seen) /\ \A j \in (Len(seen) - n + 1) .. Len(seen) : seen[j] = v
    BY DEF TrailingRun, Run
  <2>2. \A j \in (Len(longer) - (n + 1) + 1) .. Len(longer) : longer[j] = v
    BY <1>1, <1>2, <2>1
  <2>3. n + 1 < Len(longer) => longer[Len(longer) - (n + 1)] # v
    BY <1>1, <2>1 DEF TrailingRun
  <2> QED
    BY <1>1, <1>2, <2>1, <2>2, <2>3 DEF TrailingRun, Run
<1>3. CASE over # v
  BY <1>1, <1>3 DEF TrailingRun, Run
<1> QED
  BY <1>2, <1>3

\* A full run ends with the last verdict exactly when the trailing run is long
\* enough.
LEMMA FullRun ==
    ASSUME NEW seen \in Seq(BOOLEAN), NEW v \in BOOLEAN, NEW n \in Nat,
           NEW streak \in Nat \ {0}, TrailingRun(seen, v, n), streak <= Len(seen)
    PROVE  Run(seen, v, streak, Len(seen)) <=> streak <= n
<1>1. n \in 0 .. Len(seen) /\ (\A j \in (Len(seen) - n + 1) .. Len(seen) : seen[j] = v)
      /\ (n < Len(seen) => seen[Len(seen) - n] # v)
  BY DEF TrailingRun, Run
<1>2. streak <= n => Run(seen, v, streak, Len(seen))
  BY <1>1 DEF Run
<1>3. ASSUME n < streak
      PROVE  ~Run(seen, v, streak, Len(seen))
  <2>1. Len(seen) - n \in (Len(seen) - streak + 1) .. Len(seen)
    BY <1>1, <1>3
  <2> QED
    BY <1>1, <1>3, <2>1 DEF Run
<1> QED
  BY <1>1, <1>2, <1>3

\* A breach makes the verdicts call for an alert when the run of breaches is
\* full, and leaves what they called for otherwise.
LEMMA AlertedByBreach ==
    ASSUME NEW seen \in Seq(BOOLEAN), NEW n \in Nat,
           NEW breachStreak \in Nat \ {0}, NEW recoveryStreak \in Nat \ {0},
           TrailingRun(seen, TRUE, n)
    PROVE  Alerted(Append(seen, TRUE), breachStreak, recoveryStreak) <=>
               breachStreak <= n + 1 \/ Alerted(seen, breachStreak, recoveryStreak)
<1> DEFINE longer == Append(seen, TRUE)
<1>0. longer \in Seq(BOOLEAN) /\ Len(longer) = Len(seen) + 1 /\ Len(seen) \in Nat
      /\ longer[Len(longer)] = TRUE
  OBVIOUS
<1>1. TrailingRun(longer, TRUE, n + 1)
  BY TrailingRunOfAppend
<1>2. ~Run(longer, FALSE, recoveryStreak, Len(longer))
  BY <1>0 DEF Run
<1>3. ASSUME breachStreak <= n + 1
      PROVE  Alerted(longer, breachStreak, recoveryStreak)
  <2>1. n + 1 <= Len(longer)
    BY <1>1 DEF TrailingRun
  <2>2. breachStreak <= Len(longer) /\ n + 1 \in Nat
    BY <1>0, <1>3, <2>1
  <2>3. Run(longer, TRUE, breachStreak, Len(longer))
    <3> HIDE DEF longer
    <3> QED
      BY <1>0, <1>1, <1>3, <2>2, FullRun
  <2>4. Len(longer) \in breachStreak .. Len(longer)
    BY <1>0, <2>2
  <2>5. \A k \in (Len(longer) + recoveryStreak) .. Len(longer) :
            ~Run(longer, FALSE, recoveryStreak, k)
    BY <1>0
  <2> HIDE DEF longer
  <2> QED
    BY <2>3, <2>4, <2>5 DEF Alerted
<1>4. ASSUME Alerted(seen, breachStreak, recoveryStreak)
      PROVE  Alerted(longer, breachStreak, recoveryStreak)
  <2>1. PICK i \in breachStreak .. Len(seen) :
            /\ Run(seen, TRUE, breachStreak, i)
            /\ \A k \in (i + recoveryStreak) .. Len(seen) : ~Run(seen, FALSE, recoveryStreak, k)
    BY <1>4 DEF Alerted
  <2>2. Run(longer, TRUE, breachStreak, i)
    BY <2>1, RunOfAppend
  <2>3. ASSUME NEW k \in (i + recoveryStreak) .. Len(longer)
        PROVE  ~Run(longer, FALSE, recoveryStreak, k)
    <3>1. CASE k = Len(longer)
      BY <1>2, <3>1
    <3>2. CASE k # Len(longer)
      <4>1. k \in (i + recoveryStreak) .. Len(seen) /\ k \in recoveryStreak .. Len(seen)
        BY <1>0, <2>1, <3>2
      <4> QED
        BY <2>1, <4>1, RunOfAppend
    <3> QED
      BY <3>1, <3>2
  <2>4. i \in breachStreak .. Len(longer)
    BY <1>0, <2>1
  <2> QED
    BY <2>2, <2>3, <2>4 DEF Alerted
<1>5. ASSUME Alerted(longer, breachStreak, recoveryStreak), ~(breachStreak <= n + 1)
      PROVE  Alerted(seen, breachStreak, recoveryStreak)
  <2>1. PICK i \in breachStreak .. Len(longer) :
            /\ Run(longer, TRUE, breachStreak, i)
            /\ \A k \in (i + recoveryStreak) .. Len(longer) : ~Run(longer, FALSE, recoveryStreak, k)
    BY <1>5 DEF Alerted
  <2>2. i # Len(longer)
    <3> SUFFICES ASSUME i = Len(longer) PROVE FALSE
      OBVIOUS
    <3>1. breachStreak <= Len(longer)
      BY <1>0, <2>1
    <3>2. Run(longer, TRUE, breachStreak, Len(longer)) /\ n + 1 \in Nat
      <4>1. n + 1 \in Nat
        OBVIOUS
      <4> HIDE DEF longer
      <4> QED
        BY <2>1, <4>1
    <3>3. breachStreak <= n + 1
      <4> HIDE DEF longer
      <4> QED
        BY <1>0, <1>1, <3>1, <3>2, FullRun
    <3> QED
      BY <1>5, <3>3
  <2>3. i \in breachStreak .. Len(seen)
    BY <1>0, <2>1, <2>2
  <2>4. Run(seen, TRUE, breachStreak, i)
    BY <2>1, <2>3, RunOfAppend
  <2>5. ASSUME NEW k \in (i + recoveryStreak) .. Len(seen)
        PROVE  ~Run(seen, FALSE, recoveryStreak, k)
    <3>1. k \in recoveryStreak .. Len(seen) /\ k \in (i + recoveryStreak) .. Len(longer)
      BY <1>0, <2>3
    <3> QED
      BY <2>1, <3>1, RunOfAppend
  <2> QED
    BY <2>3, <2>4, <2>5 DEF Alerted
<1> QED
  BY <1>3, <1>4, <1>5

\* A good sample ends the alert the verdicts called for when the run of good
\* samples is full, and leaves what they called for otherwise.
LEMMA AlertedByRecovery ==
    ASSUME NEW seen \in Seq(BOOLEAN), NEW n \in Nat,
           NEW breachStreak \in Nat \ {0}, NEW recoveryStreak \in Nat \ {0},
           TrailingRun(seen, FALSE, n)
    PROVE  Alerted(Append(seen, FALSE), breachStreak, recoveryStreak) <=>
               ~(recoveryStreak <= n + 1) /\ Alerted(seen, breachStreak, recoveryStreak)
<1> DEFINE longer == Append(seen, FALSE)
<1>0. longer \in Seq(BOOLEAN) /\ Len(longer) = Len(seen) + 1 /\ Len(seen) \in Nat
      /\ longer[Len(longer)] = FALSE
  OBVIOUS
<1>1. TrailingRun(longer, FALSE, n + 1) /\ n + 1 <= Len(longer)
  <2>1. TrailingRun(longer, FALSE, IF FALSE = FALSE THEN n + 1 ELSE 0)
    BY TrailingRunOfAppend
  <2>2. TrailingRun(longer, FALSE, n + 1)
    BY <2>1
  <2>3. n + 1 <= Len(longer)
    <3> HIDE DEF longer
    <3> QED
      BY <1>0, <2>2 DEF TrailingRun
  <2> QED
    BY <2>2, <2>3
<1>2. ~Run(longer, TRUE, breachStreak, Len(longer))
  BY <1>0 DEF Run
<1>3. ASSUME Alerted(longer, breachStreak, recoveryStreak)
      PROVE  ~(recoveryStreak <= n + 1) /\ Alerted(seen, breachStreak, recoveryStreak)
  <2>1. PICK i \in breachStreak .. Len(longer) :
            /\ Run(longer, TRUE, breachStreak, i)
            /\ \A k \in (i + recoveryStreak) .. Len(longer) : ~Run(longer, FALSE, recoveryStreak, k)
    BY <1>3 DEF Alerted
  <2>2. i \in breachStreak .. Len(seen)
    <3>1. i # Len(longer)
      BY <1>2, <2>1
    <3> QED
      BY <1>0, <2>1, <3>1
  <2>3. Run(seen, TRUE, breachStreak, i)
    BY <2>1, <2>2, RunOfAppend
  <2>4. longer[i] = TRUE
    BY <2>1, <2>2, <1>0 DEF Run
  <2>5. ~(recoveryStreak <= n + 1)
    <3> SUFFICES ASSUME recoveryStreak <= n + 1 PROVE FALSE
      OBVIOUS
    <3>1. \A j \in (Len(longer) - (n + 1) + 1) .. Len(longer) : longer[j] = FALSE
      BY <1>1 DEF TrailingRun, Run
    <3>2. i + recoveryStreak <= Len(longer)
      <4>1. i \notin (Len(longer) - (n + 1) + 1) .. Len(longer)
        BY <2>4, <3>1
      <4> QED
        BY <1>0, <1>1, <2>2, <4>1
    <3>3. Run(longer, FALSE, recoveryStreak, Len(longer))
      <4>1. recoveryStreak <= Len(longer) /\ n + 1 \in Nat
        BY <1>0, <1>1
      <4> HIDE DEF longer
      <4> QED
        BY <1>0, <1>1, <4>1, FullRun
    <3>4. Len(longer) \in (i + recoveryStreak) .. Len(longer)
      BY <1>0, <2>2, <3>2
    <3> QED
      BY <2>1, <3>3, <3>4
  <2>6. ASSUME NEW k \in (i + recoveryStreak) .. Len(seen)
        PROVE  ~Run(seen, FALSE, recoveryStreak, k)
    <3>1. k \in recoveryStreak .. Len(seen) /\ k \in (i + recoveryStreak) .. Len(longer)
      BY <1>0, <2>2
    <3> QED
      BY <2>1, <3>1, RunOfAppend
  <2> QED
    BY <2>2, <2>3, <2>5, <2>6 DEF Alerted
<1>4. ASSUME ~(recoveryStreak <= n + 1), Alerted(seen, breachStreak, recoveryStreak)
      PROVE  Alerted(longer, breachStreak, recoveryStreak)
  <2>1. PICK i \in breachStreak .. Len(seen) :
            /\ Run(seen, TRUE, breachStreak, i)
            /\ \A k \in (i + recoveryStreak) .. Len(seen) : ~Run(seen, FALSE, recoveryStreak, k)
    BY <1>4 DEF Alerted
  <2>2. Run(longer, TRUE, breachStreak, i) /\ i \in breachStreak .. Len(longer)
    <3>1. i \in breachStreak .. Len(longer)
      BY <1>0, <2>1
    <3>2. Run(longer, TRUE, breachStreak, i)
      BY <2>1, RunOfAppend
    <3> QED
      BY <3>1, <3>2
  <2>3. ASSUME NEW k \in (i + recoveryStreak) .. Len(longer)
        PROVE  ~Run(longer, FALSE, recoveryStreak, k)
    <3>1. CASE k = Len(longer)
      <4>1. recoveryStreak <= Len(longer)
        BY <1>0, <2>1, <3>1
      <4>2. n + 1 \in Nat
        OBVIOUS
      <4>3. ~Run(longer, FALSE, recoveryStreak, Len(longer))
        <5> HIDE DEF longer
        <5> QED
          BY <1>0, <1>1, <1>4, <4>1, <4>2, FullRun
      <4> QED
        BY <3>1, <4>3
    <3>2. CASE k # Len(longer)
      <4>1. k \in (i + recoveryStreak) .. Len(seen) /\ k \in recoveryStreak .. Len(seen)
        BY <1>0, <2>1, <3>2
      <4> QED
        BY <2>1, <4>1, RunOfAppend
    <3> QED
      BY <3>1, <3>2
  <2> QED
    BY <2>2, <2>3 DEF Alerted
<1> QED
  BY <1>3, <1>4

\* alerting.step keeps a state in line with the samples it has been shown.
LEMMA StepTracks ==
    ASSUME NEW s \in AlertState, NEW seen \in Seq(BOOLEAN), NEW over \in BOOLEAN,
           NEW breachStreak \in Nat \ {0}, NEW recoveryStreak \in Nat \ {0},
           Tracks(s, seen, breachStreak, recoveryStreak)
    PROVE  /\ Step(s, over, breachStreak, recoveryStreak) \in AlertState
           /\ Tracks(Step(s, over, breachStreak, recoveryStreak), Append(seen, over),
                     breachStreak, recoveryStreak)
<1> DEFINE next_ == Step(s, over, breachStreak, recoveryStreak)
           longer == Append(seen, over)
<1>1. /\ s.breaches \in Nat /\ s.oks \in Nat /\ s.level \in Level
      /\ TrailingRun(seen, TRUE, s.breaches) /\ TrailingRun(seen, FALSE, s.oks)
      /\ s.level = IF Alerted(seen, breachStreak, recoveryStreak) THEN "alert" ELSE "ok"
  BY DEF AlertState, Tracks
<1>2. next_ \in AlertState
  BY <1>1 DEF Step, AlertState, Level
<1>3. /\ next_.breaches = IF over = TRUE THEN s.breaches + 1 ELSE 0
      /\ next_.oks = IF over = FALSE THEN s.oks + 1 ELSE 0
  BY DEF Step
<1>4. TrailingRun(longer, TRUE, next_.breaches) /\ TrailingRun(longer, FALSE, next_.oks)
  BY <1>1, <1>3, TrailingRunOfAppend
<1>5. next_.level = IF Alerted(longer, breachStreak, recoveryStreak) THEN "alert" ELSE "ok"
  <2>1. CASE over = TRUE
    <3>1. Alerted(Append(seen, TRUE), breachStreak, recoveryStreak) <=>
              breachStreak <= s.breaches + 1 \/ Alerted(seen, breachStreak, recoveryStreak)
      BY <1>1, AlertedByBreach
    <3>2. next_.level = IF s.breaches + 1 >= breachStreak THEN "alert" ELSE s.level
      BY <2>1 DEF Step
    <3> QED
      BY <1>1, <2>1, <3>1, <3>2
  <2>2. CASE over = FALSE
    <3>1. Alerted(Append(seen, FALSE), breachStreak, recoveryStreak) <=>
              ~(recoveryStreak <= s.oks + 1) /\ Alerted(seen, breachStreak, recoveryStreak)
      BY <1>1, AlertedByRecovery
    <3>2. next_.level = IF s.oks + 1 >= recoveryStreak THEN "ok" ELSE s.level
      BY <2>2 DEF Step
    <3> QED
      BY <1>1, <2>2, <3>1, <3>2
  <2> QED
    BY <2>1, <2>2
<1> QED
  BY <1>2, <1>4, <1>5 DEF Tracks

--------------------------------------------------------------------------------
(* The agent.                                                                  *)

\* The part of the invariant the tables need: every event in hand is one of the
\* topic's, and the tables and histories have their types.
TablesOK ==
    /\ clock \in Windows
    /\ log \in Seq(Event)
    /\ next \in 0 .. Len(log)
    /\ pc # "idle" => next < Len(log)
    /\ committed \in 0 .. next
    /\ alerts \in [Backends -> AlertState]
    /\ drifts \in [Backends -> AlertState]
    /\ alertSeen \in Verdicts
    /\ driftSeen \in Verdicts

\* The inductive invariant.
Inv == TablesOK /\ LevelsFollowHistory

\* Nothing has been counted at the start.
LEMMA InitInv == Init => Inv
<1> SUFFICES ASSUME Init PROVE Inv
  OBVIOUS
<1> USE StreamAssumption DEF StreamAssumption
<1>1. Unalerted \in AlertState /\ Unalerted.breaches = 0 /\ Unalerted.oks = 0
      /\ Unalerted.level = "ok"
  BY DEF Unalerted, AlertState, Level
<1>2. TablesOK
  BY <1>1 DEF Init, TablesOK, Verdicts, Windows
<1>3. ASSUME NEW breachStreak \in Nat \ {0}, NEW recoveryStreak \in Nat \ {0}
      PROVE  Tracks(Unalerted, <<>>, breachStreak, recoveryStreak)
  <2>1. ~Alerted(<<>>, breachStreak, recoveryStreak)
    <3>1. \A i \in breachStreak .. 0 : FALSE
      OBVIOUS
    <3>2. Len(<<>>) = 0
      OBVIOUS
    <3> QED
      BY <3>1, <3>2 DEF Alerted
  <2>2. \A v \in BOOLEAN : TrailingRun(<<>>, v, 0)
    BY DEF TrailingRun, Run
  <2> QED
    BY <1>1, <2>1, <2>2 DEF Tracks
<1>4. LevelsFollowHistory
  BY <1>3 DEF Init, LevelsFollowHistory
<1> QED
  BY <1>2, <1>4 DEF Inv

\* The second half of the handler, at whichever of its two places, counts at
\* most one verdict into the drift table, and leaves the event in hand only to
\* take the next one.
LEMMA CheckDriftKeeps ==
    ASSUME Inv, next < Len(log), CheckDrift
    PROVE  /\ log' = log /\ committed' = committed /\ clock' = clock
           /\ next' \in next .. Len(log)
           /\ pc' # "idle" => next' < Len(log)
           /\ drifts' \in [Backends -> AlertState]
           /\ driftSeen' \in Verdicts
           /\ \A b \in Backends :
                  Tracks(drifts'[b], driftSeen'[b], DriftBreachStreak, DriftRecoveryStreak)
<1>0. DriftBreachStreak \in Nat \ {0} /\ DriftRecoveryStreak \in Nat \ {0}
  BY StreamAssumption DEF StreamAssumption
<1>1. next + 1 \in 1 .. Len(log) /\ next \in Nat /\ Len(log) \in Nat
  BY DEF Inv, TablesOK
<1>2. Current \in Event
  BY <1>1 DEF Current, Inv, TablesOK
<1> DEFINE b0 == Current.backend
<1>3. b0 \in Backends
  BY <1>2 DEF Event
<1>4. /\ log' = log /\ committed' = committed /\ clock' = clock
      /\ next' \in next .. Len(log)
      /\ pc' # "idle" => next' < Len(log)
  BY <1>1 DEF CheckDrift, Handled, Report, topics
<1>5. /\ drifts \in [Backends -> AlertState] /\ driftSeen \in Verdicts
      /\ \A b \in Backends :
             Tracks(drifts[b], driftSeen[b], DriftBreachStreak, DriftRecoveryStreak)
  BY DEF Inv, TablesOK, LevelsFollowHistory
<1>6. CASE UNCHANGED <<drifts, driftSeen>>
  BY <1>4, <1>5, <1>6
<1>7. CASE ~UNCHANGED <<drifts, driftSeen>>
  <2>1. \A v : v = Deviates(baseline[b0], Current.rate, DriftThreshold) => v \in BOOLEAN
    BY DEF Deviates
  <2>2. PICK over \in BOOLEAN :
            /\ drifts' = [drifts EXCEPT ![b0] =
                             Step(drifts[b0], over, DriftBreachStreak, DriftRecoveryStreak)]
            /\ driftSeen' = [driftSeen EXCEPT ![b0] = Append(@, over)]
    BY <1>7, <2>1 DEF CheckDrift
  <2>3. drifts[b0] \in AlertState /\ driftSeen[b0] \in Seq(BOOLEAN)
    BY <1>5, <1>3 DEF Verdicts
  <2> DEFINE state == Step(drifts[b0], over, DriftBreachStreak, DriftRecoveryStreak)
  <2>4. /\ state \in AlertState
        /\ Tracks(state, Append(driftSeen[b0], over), DriftBreachStreak, DriftRecoveryStreak)
    BY <1>0, <1>3, <1>5, <2>3, StepTracks
  <2>5. Append(driftSeen[b0], over) \in Seq(BOOLEAN)
    BY <2>3
  <2> HIDE DEF b0, state
  <2>6. drifts' \in [Backends -> AlertState] /\ driftSeen' \in Verdicts
    BY <1>5, <2>2, <2>4, <2>5 DEF Verdicts, state
  <2>7. /\ \A b \in Backends : b # b0 => drifts'[b] = drifts[b] /\ driftSeen'[b] = driftSeen[b]
        /\ drifts'[b0] = state /\ driftSeen'[b0] = Append(driftSeen[b0], over)
    BY <1>5, <1>3, <2>2 DEF Verdicts, state
  <2> QED
    BY <1>4, <1>5, <2>4, <2>6, <2>7
<1> QED
  BY <1>6, <1>7

\* The first half counts one verdict into the alert table.
LEMMA HandleKeeps ==
    ASSUME Inv, Handle
    PROVE  /\ alerts' \in [Backends -> AlertState]
           /\ alertSeen' \in Verdicts
           /\ \A b \in Backends :
                  Tracks(alerts'[b], alertSeen'[b], BreachStreak, RecoveryStreak)
           /\ \/ CheckDrift
              \/ (pc' = "alert" /\ UNCHANGED <<topics, driftVars>>)
<1>0. BreachStreak \in Nat \ {0} /\ RecoveryStreak \in Nat \ {0}
  BY StreamAssumption DEF StreamAssumption
<1>1. /\ log \in Seq(Event) /\ next \in 0 .. Len(log)
      /\ next < Len(log)
  BY DEF Inv, TablesOK, Handle
<1>2. Current.backend \in Backends
  <2>1. next + 1 \in 1 .. Len(log)
    BY <1>1
  <2>2. Current \in Event
    BY <1>1, <2>1 DEF Current
  <2> QED
    BY <1>1, <2>1, <2>2 DEF Event
<1> DEFINE b0 == Current.backend
<1>3. PICK now \in {Current.window, clock} :
          /\ alerts' = [alerts EXCEPT ![b0] =
                           Step(alerts[b0], Over(WithSample[<<b0, now>>]), BreachStreak,
                                RecoveryStreak)]
          /\ alertSeen' = [alertSeen EXCEPT ![b0] = Append(@, Over(WithSample[<<b0, now>>]))]
          /\ \/ CheckDrift
             \/ (pc' = "alert" /\ UNCHANGED <<topics, driftVars>>)
  BY DEF Handle, Report
<1>4. \A v : v = Over(WithSample[<<b0, now>>]) => v \in BOOLEAN
  BY DEF Over
<1>5. PICK over \in BOOLEAN :
          /\ alerts' = [alerts EXCEPT ![b0] =
                           Step(alerts[b0], over, BreachStreak, RecoveryStreak)]
          /\ alertSeen' = [alertSeen EXCEPT ![b0] = Append(@, over)]
  BY <1>3, <1>4
<1>6. /\ alerts \in [Backends -> AlertState] /\ alertSeen \in Verdicts
      /\ \A b \in Backends : Tracks(alerts[b], alertSeen[b], BreachStreak, RecoveryStreak)
  BY DEF Inv, TablesOK, LevelsFollowHistory
<1>7. b0 \in Backends /\ alerts[b0] \in AlertState /\ alertSeen[b0] \in Seq(BOOLEAN)
  BY <1>6, <1>2 DEF Verdicts
<1> DEFINE state == Step(alerts[b0], over, BreachStreak, RecoveryStreak)
<1>8. /\ state \in AlertState
      /\ Tracks(state, Append(alertSeen[b0], over), BreachStreak, RecoveryStreak)
  BY <1>0, <1>2, <1>6, <1>7, StepTracks
<1>9. Append(alertSeen[b0], over) \in Seq(BOOLEAN)
  BY <1>7
<1> HIDE DEF b0, state
<1>10. alerts' \in [Backends -> AlertState] /\ alertSeen' \in Verdicts
  BY <1>6, <1>5, <1>8, <1>9 DEF Verdicts, state
<1>11. /\ \A b \in Backends : b # b0 => alerts'[b] = alerts[b] /\ alertSeen'[b] = alertSeen[b]
      /\ alerts'[b0] = state /\ alertSeen'[b0] = Append(alertSeen[b0], over)
  BY <1>6, <1>7, <1>5 DEF Verdicts, state
<1> QED
  BY <1>3, <1>6, <1>8, <1>10, <1>11

\* Every step keeps the invariant.
LEMMA NextInv == Inv /\ [Next]_vars => Inv'
<1> SUFFICES ASSUME Inv, [Next]_vars PROVE Inv'
  OBVIOUS
<1> DEFINE Alerts == /\ alerts \in [Backends -> AlertState] /\ alertSeen \in Verdicts
                     /\ \A b \in Backends :
                            Tracks(alerts[b], alertSeen[b], BreachStreak, RecoveryStreak)
           Drifts == /\ drifts \in [Backends -> AlertState] /\ driftSeen \in Verdicts
                     /\ \A b \in Backends :
                            Tracks(drifts[b], driftSeen[b], DriftBreachStreak,
                                   DriftRecoveryStreak)
           Offsets == /\ clock \in Windows
                      /\ log \in Seq(Event)
                      /\ next \in 0 .. Len(log)
                      /\ pc # "idle" => next < Len(log)
                      /\ committed \in 0 .. next
<1>1. Inv <=> Alerts /\ Drifts /\ Offsets
  BY DEF Inv, TablesOK, LevelsFollowHistory
<1>2. Inv' <=> Alerts' /\ Drifts' /\ Offsets'
  BY DEF Inv, TablesOK, LevelsFollowHistory
<1>3. Alerts /\ UNCHANGED alertVars => Alerts'
  BY DEF alertVars
<1>4. Drifts /\ UNCHANGED driftVars => Drifts'
  BY DEF driftVars
<1>5. Len(log) \in Nat /\ next \in Nat /\ committed \in Nat
  BY <1>1
<1>6. CheckDrift /\ next < Len(log) => Drifts' /\ Offsets'
  <2> SUFFICES ASSUME CheckDrift, next < Len(log) PROVE Drifts' /\ Offsets'
    OBVIOUS
  <2>1. Drifts'
    BY CheckDriftKeeps
  <2>2. log' = log /\ committed' = committed /\ clock' = clock /\ next' \in next .. Len(log)
        /\ (pc' # "idle" => next' < Len(log))
    BY CheckDriftKeeps
  <2> QED
    BY <1>1, <1>5, <2>1, <2>2
<1>7. CASE \E b \in Backends, r \in Rates : Calibrate(b, r)
  <2>1. PICK b \in Backends, r \in Rates : Calibrate(b, r)
    BY <1>7
  <2>2. [backend |-> b, rate |-> r, window |-> clock] \in Event
    BY <1>1, <2>1 DEF Event
  <2> QED
    BY <1>1, <1>2, <1>3, <1>4, <2>1, <2>2 DEF Calibrate
<1>8. CASE Roll
  <2>1. clock + 1 \in Windows
    BY <1>1, <1>8, StreamAssumption DEF Roll, Windows, StreamAssumption
  <2> QED
    BY <1>1, <1>2, <1>3, <1>4, <1>8, <2>1 DEF Roll
<1>9. CASE Commit
  BY <1>1, <1>2, <1>3, <1>4, <1>5, <1>9 DEF Commit
<1>10. CASE Handle
  <2>1. Alerts' /\ (CheckDrift \/ (pc' = "alert" /\ UNCHANGED <<topics, driftVars>>))
    BY <1>10, HandleKeeps
  <2>2. next < Len(log)
    BY <1>10 DEF Handle
  <2>3. pc' = "alert" /\ UNCHANGED topics => Offsets'
    BY <1>1, <2>2 DEF topics
  <2> HIDE DEF Alerts, Drifts, Offsets
  <2> QED
    BY <1>1, <1>2, <1>4, <1>6, <2>1, <2>2, <2>3
<1>11. CASE SendAlert
  <2>1. CheckDrift /\ UNCHANGED alertVars /\ pc = "alert"
    BY <1>11 DEF SendAlert
  <2>2. next < Len(log)
    BY <1>1, <2>1
  <2> HIDE DEF Alerts, Drifts, Offsets
  <2> QED
    BY <1>1, <1>2, <1>3, <1>6, <2>1, <2>2
<1>12. CASE SendDrift
  <2>1. next < Len(log)
    BY <1>1, <1>12 DEF SendDrift
  <2>2. Offsets'
    BY <1>1, <1>5, <1>12, <2>1 DEF SendDrift, Handled
  <2> HIDE DEF Alerts, Drifts, Offsets
  <2> QED
    BY <1>1, <1>2, <1>3, <1>4, <1>12, <2>2 DEF SendDrift
<1>13. CASE SendRaises
  <2>1. next < Len(log)
    BY <1>1, <1>13 DEF SendRaises
  <2>2. Offsets'
    BY <1>1, <1>5, <1>13, <2>1 DEF SendRaises
  <2> HIDE DEF Alerts, Drifts, Offsets
  <2> QED
    BY <1>1, <1>2, <1>3, <1>4, <1>13, <2>2 DEF SendRaises
<1>14. CASE Crash
  <2>1. Offsets'
    BY <1>1, <1>5, <1>14 DEF Crash
  <2> HIDE DEF Alerts, Drifts, Offsets
  <2> QED
    BY <1>1, <1>2, <1>3, <1>4, <1>14, <2>1 DEF Crash
<1>15. CASE UNCHANGED vars
  BY <1>1, <1>2, <1>3, <1>4, <1>15 DEF vars, topics
<1> QED
  BY <1>7, <1>8, <1>9, <1>10, <1>11, <1>12, <1>13, <1>14, <1>15 DEF Next

--------------------------------------------------------------------------------
(* The changes of level and the topics.                                        *)

\* A table has one level at a time.
LEMMA OneLevel ==
    ASSUME NEW s, NEW kind, NEW b, NEW n \in Nat, NEW a, NEW z,
           Left(s, kind, b, n, a), Left(s, kind, b, n, z)
    PROVE  a = z
<1> DEFINE of(i) == s[i].kind = kind /\ s[i].backend = b
<1>1. CASE \A i \in 1 .. n : ~of(i)
  BY <1>1 DEF Left
<1>2. CASE \E i \in 1 .. n : of(i)
  <2>1. PICK i \in 1 .. n : of(i) /\ s[i].level = a /\ \A k \in (i + 1) .. n : ~of(k)
    BY <1>2 DEF Left
  <2>2. PICK j \in 1 .. n : of(j) /\ s[j].level = z /\ \A k \in (j + 1) .. n : ~of(k)
    BY <1>2 DEF Left
  <2>3. i = j
    <3>1. ~(i < j) /\ ~(j < i)
      BY <2>1, <2>2
    <3> QED
      BY <3>1
  <2> QED
    BY <2>1, <2>2, <2>3
<1> QED
  BY <1>1, <1>2

\* The levels left so far do not depend on what is appended.
LEMMA LeftAppend ==
    ASSUME NEW S, NEW s \in Seq(S), NEW e \in S, NEW kind, NEW b, NEW level
    PROVE  /\ \A n \in 0 .. Len(s) :
                Left(Append(s, e), kind, b, n, level) <=> Left(s, kind, b, n, level)
           /\ Left(Append(s, e), kind, b, Len(s) + 1, level) <=>
                IF e.kind = kind /\ e.backend = b THEN e.level = level
                ELSE Left(s, kind, b, Len(s), level)
<1> DEFINE t == Append(s, e)
           n == Len(s)
<1>1. n \in Nat /\ Len(t) = n + 1 /\ t[n + 1] = e /\ \A i \in 1 .. n : t[i] = s[i]
  OBVIOUS
<1> HIDE DEF t, n
<1>2. ASSUME NEW m \in 0 .. n
      PROVE  Left(t, kind, b, m, level) <=> Left(s, kind, b, m, level)
  <2>1. \A i \in 1 .. m : t[i] = s[i]
    BY <1>1
  <2>2. \A i \in 1 .. m : \A k \in (i + 1) .. m : k \in 1 .. m
    OBVIOUS
  <2> QED
    BY <2>1, <2>2 DEF Left
<1>3. CASE e.kind = kind /\ e.backend = b
  <2>1. n + 1 \in 1 .. n + 1 /\ t[n + 1].kind = kind /\ t[n + 1].backend = b
        /\ \A k \in (n + 1 + 1) .. n + 1 : FALSE
    BY <1>1, <1>3
  <2>2. \A i \in 1 .. n + 1 : i # n + 1 => n + 1 \in (i + 1) .. n + 1
    BY <1>1
  <2>3. Left(t, kind, b, n + 1, level) <=> t[n + 1].level = level
    BY <2>1, <2>2 DEF Left
  <2> QED
    BY <1>1, <1>2, <1>3, <2>3 DEF t, n
<1>4. CASE ~(e.kind = kind /\ e.backend = b)
  <2>1. ~(t[n + 1].kind = kind /\ t[n + 1].backend = b)
    BY <1>1, <1>4
  <2>2. /\ \A i \in 1 .. n : i \in 1 .. n + 1
        /\ \A i \in 1 .. n + 1 : i = n + 1 \/ i \in 1 .. n
        /\ \A i \in 1 .. n : \A k \in (i + 1) .. n + 1 : k = n + 1 \/ k \in (i + 1) .. n
        /\ \A i \in 1 .. n : \A k \in (i + 1) .. n : k \in (i + 1) .. n + 1
    BY <1>1
  <2>3. Left(t, kind, b, n + 1, level) <=> Left(t, kind, b, n, level)
    BY <2>1, <2>2 DEF Left
  <2> QED
    BY <1>1, <1>2, <1>4, <2>3 DEF t, n
<1> QED
  BY <1>3, <1>4

\* A change to another level continues the alternation of its table, and is none of
\* any other's.
LEMMA AlternatesAppend ==
    ASSUME NEW s \in Seq(Transition), NEW e \in Transition, NEW kind, NEW b, NEW old, NEW new,
           Alternates(s, kind, b, old),
           IF e.kind = kind /\ e.backend = b THEN e.level = new /\ old # new ELSE old = new
    PROVE  Alternates(Append(s, e), kind, b, new)
<1> DEFINE t == Append(s, e)
           n == Len(s)
<1>1. n \in Nat /\ Len(t) = n + 1 /\ t[n + 1] = e /\ \A i \in 1 .. n : t[i] = s[i]
  OBVIOUS
<1>2. \A l : /\ \A m \in 0 .. n : Left(t, kind, b, m, l) <=> Left(s, kind, b, m, l)
             /\ Left(t, kind, b, n + 1, l) <=>
                  IF e.kind = kind /\ e.backend = b THEN e.level = l ELSE Left(s, kind, b, n, l)
  BY LeftAppend
<1> HIDE DEF t, n
<1>3. Left(s, kind, b, n, old)
  BY DEF Alternates, n
<1>4. Left(t, kind, b, n + 1, new)
  BY <1>2, <1>3
<1>5. ASSUME NEW i \in 1 .. n + 1, t[i].kind = kind, t[i].backend = b
      PROVE  ~Left(t, kind, b, i - 1, t[i].level)
  <2>1. CASE i = n + 1
    <3>1. ~Left(s, kind, b, n, new)
      BY <1>1, <1>3, <1>5, <2>1, OneLevel
    <3>2. i - 1 = n /\ n \in 0 .. n /\ t[i].level = new
      BY <1>1, <1>5, <2>1
    <3> QED
      BY <1>2, <3>1, <3>2
  <2>2. CASE i \in 1 .. n
    <3>1. t[i] = s[i] /\ i - 1 \in 0 .. n
      BY <1>1, <2>2
    <3>2. ~Left(s, kind, b, i - 1, s[i].level)
      BY <1>5, <2>2, <3>1 DEF Alternates, n
    <3> QED
      BY <1>2, <3>1, <3>2
  <2> QED
    BY <1>1, <2>1, <2>2
<1> QED
  BY <1>1, <1>4, <1>5 DEF Alternates, t

\* The first entries of a sequence, when it or they grow.
LEMMA PrefixAppend ==
    ASSUME NEW S, NEW s \in Seq(S), NEW e \in S, NEW n \in 0 .. Len(s)
    PROVE  SubSeq(Append(s, e), 1, n) = SubSeq(s, 1, n)
OBVIOUS

\* ... and when the next one is added to them.
LEMMA PrefixNext ==
    ASSUME NEW S, NEW s \in Seq(S), NEW n \in 0 .. Len(s), n < Len(s)
    PROVE  Append(SubSeq(s, 1, n), s[n + 1]) = SubSeq(s, 1, n + 1)
<1>1. /\ SubSeq(s, 1, n) \in Seq(S) /\ Len(SubSeq(s, 1, n)) = n
      /\ SubSeq(s, 1, n + 1) \in Seq(S) /\ Len(SubSeq(s, 1, n + 1)) = n + 1
      /\ s[n + 1] \in S
  OBVIOUS
<1> DEFINE a == Append(SubSeq(s, 1, n), s[n + 1])
           z == SubSeq(s, 1, n + 1)
<1>2. a \in Seq(S) /\ Len(a) = n + 1
  BY <1>1
<1>3. ASSUME NEW i \in 1 .. n + 1 PROVE a[i] = z[i]
  <2>1. z[i] = s[i]
    OBVIOUS
  <2>2. CASE i = n + 1
    BY <1>1, <2>1, <2>2
  <2>3. CASE i # n + 1
    <3>1. i \in 1 .. n /\ SubSeq(s, 1, n)[i] = s[i]
      BY <2>3
    <3> QED
      BY <1>1, <2>1, <3>1
  <2> QED
    BY <2>2, <2>3
<1> HIDE DEF a, z
<1> QED
  BY <1>1, <1>2, <1>3 DEF a, z

\* The change being sent is the last one made, and shows the table's level.
Sending ==
    pc # "idle" =>
        /\ crossings # <<>>
        /\ crossings[Len(crossings)] =
              [kind |-> pc, backend |-> Current.backend,
               level |-> IF pc = "alert" THEN alerts[Current.backend].level
                                         ELSE drifts[Current.backend].level]

\* The part of the invariant that the topics need.
ReportInv ==
    /\ crossings \in Seq(Transition)
    /\ published \in Seq(Transition)
    /\ pc \in Kinds \cup {"idle"}
    /\ faults \in Nat
    /\ Sending
    /\ TransitionsAccounted

\* Every event in hand is one of the topic's.
LEMMA CurrentTyped ==
    ASSUME TablesOK, next < Len(log)
    PROVE  Current.backend \in Backends
<1>1. next + 1 \in 1 .. Len(log) /\ log \in Seq(Event)
  BY DEF TablesOK
<1>2. Current \in Event
  BY <1>1 DEF Current
<1> QED
  BY <1>2 DEF Event

\* What the second half of the handler reports.
LEMMA CheckDriftReports ==
    ASSUME TablesOK, TablesOK', next < Len(log), CheckDrift
    PROVE  \/ /\ pc' = "idle" /\ crossings' = crossings
              /\ \A b \in Backends : drifts'[b].level = drifts[b].level
           \/ LET c == [kind |-> "drift", backend |-> Current.backend,
                        level |-> drifts'[Current.backend].level]
              IN  /\ pc' = "drift" /\ crossings' = Append(crossings, c)
                  /\ \A b \in Backends \ {Current.backend} : drifts'[b] = drifts[b]
                  /\ drifts'[Current.backend].level # drifts[Current.backend].level
                  /\ UNCHANGED <<log, next>>
<1> PICK b0 : b0 = Current.backend
  OBVIOUS
<1>1. b0 \in Backends /\ drifts \in [Backends -> AlertState]
  BY CurrentTyped DEF TablesOK
<1>2. CASE UNCHANGED drifts /\ Handled
  BY <1>2 DEF Handled
<1>3. CASE ~(UNCHANGED drifts /\ Handled)
  <2>1. PICK state :
          /\ drifts' = [drifts EXCEPT ![b0] = state]
          /\ \/ ~Crossed(drifts[b0], state) /\ Handled
             \/ /\ Crossed(drifts[b0], state)
                /\ Report("drift", b0, state.level)
                /\ UNCHANGED topics
    BY <1>3 DEF CheckDrift
  <2>2. drifts'[b0] = state /\ \A b \in Backends \ {b0} : drifts'[b] = drifts[b]
    BY <1>1, <2>1
  <2> QED
    BY <2>1, <2>2 DEF Crossed, Handled, Report, topics
<1> QED
  BY <1>2, <1>3

\* What the first half reports.
LEMMA HandleReports ==
    ASSUME TablesOK, TablesOK', Handle
    PROVE  \/ /\ CheckDrift
              /\ \A b \in Backends : alerts'[b].level = alerts[b].level
           \/ LET c == [kind |-> "alert", backend |-> Current.backend,
                        level |-> alerts'[Current.backend].level]
              IN  /\ pc' = "alert" /\ crossings' = Append(crossings, c)
                  /\ \A b \in Backends \ {Current.backend} : alerts'[b] = alerts[b]
                  /\ alerts'[Current.backend].level # alerts[Current.backend].level
                  /\ UNCHANGED <<log, next, drifts>>
<1> PICK b0 : b0 = Current.backend
  OBVIOUS
<1>1. b0 \in Backends /\ alerts \in [Backends -> AlertState]
  BY CurrentTyped DEF TablesOK, Handle
<1>2. PICK state :
          /\ alerts' = [alerts EXCEPT ![b0] = state]
          /\ \/ ~Crossed(alerts[b0], state) /\ CheckDrift
             \/ /\ Crossed(alerts[b0], state)
                /\ Report("alert", b0, state.level)
                /\ UNCHANGED <<topics, driftVars>>
  BY DEF Handle
<1>3. alerts'[b0] = state /\ \A b \in Backends \ {b0} : alerts'[b] = alerts[b]
  BY <1>1, <1>2
<1> QED
  BY <1>2, <1>3 DEF Crossed, Report, topics, driftVars

\* TransitionsAccounted in two parts: what the changes tell of the tables, and what
\* the topics tell of the changes.
LevelsTold ==
    \A b \in Backends : /\ Alternates(crossings, "alert", b, alerts[b].level)
                        /\ Alternates(crossings, "drift", b, drifts[b].level)
ReportsSent ==
    LET sending == IF pc = "idle" THEN 0 ELSE 1
    IN  /\ Len(crossings) - Len(published) \in sending .. faults + sending
        /\ faults = 0 => published = SubSeq(crossings, 1, Len(published))

\* The levels, when none changes ...
LEMMA ToldSame ==
    ASSUME LevelsTold, crossings' = crossings,
           \A b \in Backends : alerts'[b].level = alerts[b].level /\ drifts'[b].level = drifts[b].level
    PROVE  LevelsTold'
BY DEF LevelsTold

\* ... and when one does.
LEMMA ToldChange ==
    ASSUME LevelsTold, NEW c \in Transition, crossings \in Seq(Transition),
           crossings' = Append(crossings, c),
           \A b \in Backends :
               /\ IF c.kind = "alert" /\ c.backend = b
                  THEN c.level = alerts'[b].level /\ alerts[b].level # alerts'[b].level
                  ELSE alerts[b].level = alerts'[b].level
               /\ IF c.kind = "drift" /\ c.backend = b
                  THEN c.level = drifts'[b].level /\ drifts[b].level # drifts'[b].level
                  ELSE drifts[b].level = drifts'[b].level
    PROVE  LevelsTold'
<1> SUFFICES ASSUME NEW b \in Backends
             PROVE  /\ Alternates(crossings', "alert", b, alerts'[b].level)
                    /\ Alternates(crossings', "drift", b, drifts'[b].level)
  BY DEF LevelsTold
<1>1. Alternates(crossings, "alert", b, alerts[b].level)
      /\ Alternates(crossings, "drift", b, drifts[b].level)
  BY DEF LevelsTold
<1>2. Alternates(Append(crossings, c), "alert", b, alerts'[b].level)
  BY <1>1, AlternatesAppend
<1>3. Alternates(Append(crossings, c), "drift", b, drifts'[b].level)
  BY <1>1, AlternatesAppend
<1> QED
  BY <1>2, <1>3

\* A change is made while nothing is being sent.
LEMMA SentMade ==
    ASSUME crossings \in Seq(Transition), published \in Seq(Transition), faults \in Nat,
           ReportsSent, pc = "idle", pc' # "idle", UNCHANGED <<published, faults>>,
           NEW c \in Transition, crossings' = Append(crossings, c)
    PROVE  ReportsSent'
<1>1. /\ Len(crossings) \in Nat /\ Len(published) \in Nat /\ Len(crossings') = Len(crossings) + 1
      /\ Len(crossings) - Len(published) \in 0 .. faults
  BY DEF ReportsSent
<1>2. Len(crossings') - Len(published') \in 1 .. faults' + 1
  BY <1>1
<1>3. faults' = 0 => published' = SubSeq(crossings', 1, Len(published'))
  <2>1. Len(published) \in 0 .. Len(crossings)
    BY <1>1
  <2> QED
    BY <2>1, PrefixAppend DEF ReportsSent
<1> QED
  BY <1>2, <1>3 DEF ReportsSent

\* The last change is sent, and none made or one.
LEMMA SentPublished ==
    ASSUME crossings \in Seq(Transition), published \in Seq(Transition), faults \in Nat,
           ReportsSent, pc # "idle", faults' = faults,
           published' = Append(published, crossings[Len(crossings)]),
           \/ pc' = "idle" /\ crossings' = crossings
           \/ pc' # "idle" /\ \E c \in Transition : crossings' = Append(crossings, c)
    PROVE  ReportsSent'
<1>1. /\ Len(crossings) \in Nat /\ Len(published) \in Nat
      /\ Len(published') = Len(published) + 1
      /\ Len(crossings) - Len(published) \in 1 .. faults + 1
  BY DEF ReportsSent
<1>2. faults = 0 => published' = SubSeq(crossings, 1, Len(published'))
  <2> SUFFICES ASSUME faults = 0 PROVE published' = SubSeq(crossings, 1, Len(published'))
    OBVIOUS
  <2>1. Len(published) \in 0 .. Len(crossings) /\ Len(published) + 1 = Len(crossings)
    BY <1>1
  <2>2. published = SubSeq(crossings, 1, Len(published))
    BY DEF ReportsSent
  <2>3. Append(SubSeq(crossings, 1, Len(published)), crossings[Len(published) + 1])
          = SubSeq(crossings, 1, Len(published) + 1)
    BY <2>1, PrefixNext
  <2> QED
    BY <1>1, <2>1, <2>2, <2>3
<1>3. CASE pc' = "idle" /\ crossings' = crossings
  BY <1>1, <1>2, <1>3 DEF ReportsSent
<1>4. ASSUME pc' # "idle", NEW c \in Transition, crossings' = Append(crossings, c)
      PROVE  ReportsSent'
  <2>1. Len(crossings') = Len(crossings) + 1 /\ Len(published') \in 0 .. Len(crossings)
    BY <1>1, <1>4
  <2>2. SubSeq(crossings', 1, Len(published')) = SubSeq(crossings, 1, Len(published'))
    BY <1>4, <2>1, PrefixAppend
  <2> QED
    BY <1>1, <1>2, <1>4, <2>1, <2>2 DEF ReportsSent
<1> QED
  BY <1>3, <1>4

\* Nothing has been reported at the start.
LEMMA ReportInit == Init => ReportInv
<1> SUFFICES ASSUME Init PROVE ReportInv
  OBVIOUS
<1>1. /\ crossings = <<>> /\ published = <<>> /\ pc = "idle" /\ faults = 0
      /\ \A b \in Backends : alerts[b].level = "ok" /\ drifts[b].level = "ok"
  BY DEF Init, Unalerted
<1>2. Len(<<>>) = 0 /\ SubSeq(<<>>, 1, 0) = <<>> /\ <<>> \in Seq(Transition)
  OBVIOUS
<1>3. \A kind, b : Alternates(<<>>, kind, b, "ok")
  BY <1>2 DEF Alternates, Left
<1> QED
  BY <1>1, <1>2, <1>3 DEF ReportInv, Sending, TransitionsAccounted

\* Every step keeps what the topics need.
LEMMA ReportStep == Inv /\ Inv' /\ ReportInv /\ [Next]_vars => ReportInv'
<1> SUFFICES ASSUME Inv, Inv', ReportInv, [Next]_vars PROVE ReportInv'
  OBVIOUS
<1>1. TablesOK /\ TablesOK'
  BY DEF Inv
<1>2. /\ crossings \in Seq(Transition) /\ published \in Seq(Transition) /\ faults \in Nat
      /\ pc \in Kinds \cup {"idle"} /\ Sending /\ LevelsTold /\ ReportsSent
  BY DEF ReportInv, TransitionsAccounted, LevelsTold, ReportsSent
<1>3. ASSUME crossings' \in Seq(Transition), published' \in Seq(Transition), faults' \in Nat,
             pc' \in Kinds \cup {"idle"}, Sending', LevelsTold', ReportsSent'
      PROVE  ReportInv'
  BY <1>3 DEF ReportInv, TransitionsAccounted, LevelsTold, ReportsSent
<1> PICK b0 : b0 = Current.backend
  OBVIOUS
<1>4. next < Len(log) => b0 \in Backends
  BY <1>1, CurrentTyped
<1>5. ASSUME UNCHANGED <<crossings, published, pc, faults, alerts, drifts>>,
             pc # "idle" => Current' = Current
      PROVE  ReportInv'
  <2>1. Sending'
    BY <1>2, <1>5 DEF Sending
  <2>2. LevelsTold' /\ ReportsSent'
    BY <1>2, <1>5 DEF LevelsTold, ReportsSent
  <2> QED
    BY <1>2, <1>3, <1>5, <2>1, <2>2
<1>6. CASE \E b \in Backends, r \in Rates : Calibrate(b, r)
  <2>1. UNCHANGED <<crossings, published, pc, faults, alerts, drifts, next>>
        /\ \E e : log' = Append(log, e)
    BY <1>6 DEF Calibrate, alertVars, driftVars
  <2>2. pc # "idle" => next + 1 \in 1 .. Len(log)
    BY <1>1 DEF TablesOK
  <2>3. pc # "idle" => Current' = Current
    BY <1>1, <2>1, <2>2 DEF Current, TablesOK
  <2> QED
    BY <1>5, <2>1, <2>3
<1>7. CASE Roll \/ Commit \/ UNCHANGED vars
  <2>1. UNCHANGED <<crossings, published, pc, faults, alerts, drifts, next, log>>
    BY <1>7 DEF Roll, Commit, vars, topics, alertVars, driftVars
  <2> QED
    BY <1>5, <2>1 DEF Current
<1>8. CASE SendRaises \/ Crash
  <2>1. /\ UNCHANGED <<crossings, published, alerts, drifts>> /\ pc' = "idle" /\ faults' = faults + 1
    BY <1>8 DEF SendRaises, Crash, Fault, alertVars, driftVars
  <2>2. LevelsTold'
    BY <1>2, <2>1, ToldSame
  <2>3. ReportsSent'
    BY <1>2, <2>1 DEF ReportsSent
  <2>4. faults' \in Nat
    BY <1>2, <2>1
  <2> QED
    BY <1>2, <1>3, <2>1, <2>2, <2>3, <2>4 DEF Sending
<1>9. ASSUME pc # "idle", Sent(pc)
      PROVE  /\ published' = Append(published, crossings[Len(crossings)])
             /\ published' \in Seq(Transition)
  <2>1. crossings # <<>> /\ crossings[Len(crossings)] =
              [kind |-> pc, backend |-> Current.backend,
               level |-> IF pc = "alert" THEN alerts[Current.backend].level
                                         ELSE drifts[Current.backend].level]
    BY <1>2, <1>9 DEF Sending
  <2>2. crossings[Len(crossings)] \in Transition
    <3>1. Len(crossings) \in 1 .. Len(crossings)
      BY <1>2, <2>1
    <3> QED
      BY <1>2, <3>1
  <2>3. published' = Append(published, crossings[Len(crossings)])
    BY <1>9, <2>1 DEF Sent
  <2> QED
    BY <1>2, <2>2, <2>3
<1>10. ASSUME NEW kind \in Kinds, NEW level \in Level, next < Len(log), UNCHANGED <<log, next>>,
              NEW c, c = [kind |-> kind, backend |-> b0, level |-> level],
              crossings' = Append(crossings, c), pc' = kind,
              level = IF kind = "alert" THEN alerts'[b0].level ELSE drifts'[b0].level
       PROVE  /\ c \in Transition /\ crossings' \in Seq(Transition)
              /\ pc' \in Kinds \cup {"idle"} /\ pc' # "idle" /\ Sending'
  <2>1. c \in Transition
    BY <1>4, <1>10 DEF Transition
  <2>2. crossings' \in Seq(Transition) /\ crossings' # <<>> /\ crossings'[Len(crossings')] = c
    BY <1>2, <1>10, <2>1
  <2>3. Current'.backend = b0
    BY <1>10 DEF Current
  <2>4. Sending'
    BY <1>10, <2>2, <2>3 DEF Sending, Kinds
  <2> QED
    BY <1>10, <2>1, <2>2, <2>4 DEF Kinds
<1>11. alerts \in [Backends -> AlertState] /\ alerts' \in [Backends -> AlertState]
       /\ drifts \in [Backends -> AlertState] /\ drifts' \in [Backends -> AlertState]
       /\ \A s \in AlertState : s.level \in Level
  BY <1>1 DEF TablesOK, AlertState
<1>12. ASSUME CheckDrift, next < Len(log),
              \A b \in Backends : alerts'[b].level = alerts[b].level
       PROVE  /\ LevelsTold' /\ Sending' /\ crossings' \in Seq(Transition)
              /\ pc' \in Kinds \cup {"idle"}
              /\ \/ pc' = "idle" /\ crossings' = crossings
                 \/ pc' # "idle" /\ \E c \in Transition : crossings' = Append(crossings, c)
  <2>1. CASE /\ pc' = "idle" /\ crossings' = crossings
             /\ \A b \in Backends : drifts'[b].level = drifts[b].level
    BY <1>2, <1>12, <2>1, ToldSame DEF Sending
  <2>2. CASE LET c == [kind |-> "drift", backend |-> Current.backend,
                       level |-> drifts'[Current.backend].level]
             IN  /\ pc' = "drift" /\ crossings' = Append(crossings, c)
                 /\ \A b \in Backends \ {Current.backend} : drifts'[b] = drifts[b]
                 /\ drifts'[Current.backend].level # drifts[Current.backend].level
                 /\ UNCHANGED <<log, next>>
    <3>1. PICK c : c = [kind |-> "drift", backend |-> b0, level |-> drifts'[b0].level]
      OBVIOUS
    <3>2. /\ pc' = "drift" /\ crossings' = Append(crossings, c)
          /\ \A b \in Backends \ {b0} : drifts'[b] = drifts[b]
          /\ drifts'[b0].level # drifts[b0].level
          /\ UNCHANGED <<log, next>>
      BY <2>2, <3>1
    <3>3. /\ c \in Transition /\ crossings' \in Seq(Transition)
          /\ pc' \in Kinds \cup {"idle"} /\ pc' # "idle" /\ Sending'
      <4>1. drifts'[b0].level \in Level /\ "drift" \in Kinds
        BY <1>4, <1>11, <1>12 DEF Kinds
      <4> QED
        BY <1>10, <1>12, <3>1, <3>2, <4>1
    <3>4. LevelsTold'
      <4>1. \A b \in Backends :
               /\ IF c.kind = "alert" /\ c.backend = b
                  THEN c.level = alerts'[b].level /\ alerts[b].level # alerts'[b].level
                  ELSE alerts[b].level = alerts'[b].level
               /\ IF c.kind = "drift" /\ c.backend = b
                  THEN c.level = drifts'[b].level /\ drifts[b].level # drifts'[b].level
                  ELSE drifts[b].level = drifts'[b].level
        BY <1>12, <3>1, <3>2
      <4> QED
        BY <1>2, <3>2, <3>3, <4>1, ToldChange
    <3> QED
      BY <3>2, <3>3, <3>4
  <2> QED
    BY <1>1, <1>12, <2>1, <2>2, CheckDriftReports
<1>13. CASE Handle
  <2>1. pc = "idle" /\ next < Len(log) /\ UNCHANGED <<published, faults>>
    BY <1>13 DEF Handle
  <2>2. CASE CheckDrift /\ \A b \in Backends : alerts'[b].level = alerts[b].level
    <3>1. CASE pc' = "idle" /\ crossings' = crossings
      <4>1. ReportsSent'
        BY <1>2, <2>1, <3>1 DEF ReportsSent
      <4> QED
        BY <1>2, <1>3, <1>12, <2>1, <2>2, <4>1
    <3>2. ASSUME pc' # "idle", NEW c \in Transition, crossings' = Append(crossings, c)
          PROVE  ReportInv'
      <4>1. ReportsSent'
        BY <1>2, <2>1, <3>2, SentMade
      <4> QED
        BY <1>2, <1>3, <1>12, <2>1, <2>2, <4>1
    <3> QED
      BY <1>12, <2>1, <2>2, <3>1, <3>2
  <2>3. CASE LET c == [kind |-> "alert", backend |-> Current.backend,
                       level |-> alerts'[Current.backend].level]
             IN  /\ pc' = "alert" /\ crossings' = Append(crossings, c)
                 /\ \A b \in Backends \ {Current.backend} : alerts'[b] = alerts[b]
                 /\ alerts'[Current.backend].level # alerts[Current.backend].level
                 /\ UNCHANGED <<log, next, drifts>>
    <3>1. PICK c : c = [kind |-> "alert", backend |-> b0, level |-> alerts'[b0].level]
      OBVIOUS
    <3>2. /\ pc' = "alert" /\ crossings' = Append(crossings, c)
          /\ \A b \in Backends \ {b0} : alerts'[b] = alerts[b]
          /\ alerts'[b0].level # alerts[b0].level
          /\ UNCHANGED <<log, next, drifts>>
      BY <2>3, <3>1
    <3>3. /\ c \in Transition /\ crossings' \in Seq(Transition)
          /\ pc' \in Kinds \cup {"idle"} /\ pc' # "idle" /\ Sending'
      <4>1. alerts'[b0].level \in Level /\ "alert" \in Kinds
        BY <1>4, <1>11, <2>1 DEF Kinds
      <4> QED
        BY <1>10, <2>1, <3>1, <3>2, <4>1
    <3>4. LevelsTold'
      <4>1. \A b \in Backends :
               /\ IF c.kind = "alert" /\ c.backend = b
                  THEN c.level = alerts'[b].level /\ alerts[b].level # alerts'[b].level
                  ELSE alerts[b].level = alerts'[b].level
               /\ IF c.kind = "drift" /\ c.backend = b
                  THEN c.level = drifts'[b].level /\ drifts[b].level # drifts'[b].level
                  ELSE drifts[b].level = drifts'[b].level
        BY <3>1, <3>2
      <4> QED
        BY <1>2, <3>2, <3>3, <4>1, ToldChange
    <3>5. ReportsSent'
      BY <1>2, <2>1, <3>2, <3>3, SentMade
    <3> QED
      BY <1>2, <1>3, <2>1, <3>3, <3>4, <3>5
  <2> QED
    BY <1>1, <1>13, <2>2, <2>3, HandleReports
<1>14. CASE SendAlert
  <2>1. pc = "alert" /\ next < Len(log) /\ Sent(pc) /\ CheckDrift /\ UNCHANGED <<alerts, faults>>
    BY <1>1, <1>14 DEF SendAlert, TablesOK, alertVars
  <2>2. published' = Append(published, crossings[Len(crossings)]) /\ published' \in Seq(Transition)
    BY <1>9, <2>1
  <2>3. /\ LevelsTold' /\ Sending' /\ crossings' \in Seq(Transition)
        /\ pc' \in Kinds \cup {"idle"}
        /\ \/ pc' = "idle" /\ crossings' = crossings
           \/ pc' # "idle" /\ \E c \in Transition : crossings' = Append(crossings, c)
    BY <1>12, <2>1
  <2>4. ReportsSent'
    BY <1>2, <2>1, <2>2, <2>3, SentPublished
  <2> QED
    BY <1>2, <1>3, <2>1, <2>2, <2>3, <2>4
<1>15. CASE SendDrift
  <2>1. pc = "drift" /\ Sent(pc) /\ pc' = "idle" /\ UNCHANGED <<crossings, alerts, drifts, faults>>
    BY <1>15 DEF SendDrift, Handled, alertVars, driftVars
  <2>2. published' = Append(published, crossings[Len(crossings)]) /\ published' \in Seq(Transition)
    BY <1>9, <2>1
  <2>3. LevelsTold' /\ Sending'
    BY <1>2, <2>1, ToldSame DEF Sending
  <2>4. ReportsSent'
    BY <1>2, <2>1, <2>2, SentPublished
  <2> QED
    BY <1>2, <1>3, <2>1, <2>2, <2>3, <2>4
<1> QED
  BY <1>6, <1>7, <1>8, <1>13, <1>14, <1>15 DEF Next

\* faust_app.py:41-42, for any number of backends, events and faults, any streaks and
\* thresholds, and whatever the replays make of the windows: each table's changes
\* alternate and end in its level, and the topics miss one at most for each fault and
\* one that is being sent; without a fault they hold all the others, in their order.
THEOREM TransitionsReachTheTopics == Spec => []TransitionsAccounted
<1>1. ReportInv => TransitionsAccounted
  BY DEF ReportInv
<1> QED
  BY <1>1, InitInv, NextInv, ReportInit, ReportStep, PTL DEF Spec

--------------------------------------------------------------------------------
(* Types.                                                                      *)

\* The rest of TypeOK.
OtherTypes ==
    /\ window \in [Backends \X Windows -> [sum : Nat, count : Nat]]
    /\ baseline \in [Backends -> Stats]
    /\ recent \in Seq(Transition)
    /\ Len(recent) <= RecentMax
    /\ samples \in [Backends -> Seq(Rates)]
    /\ faults \in 0 .. MaxFaults

\* A square is a number.
LEMMA SquareType == \A x \in Int : Square(x) \in Nat
<1> SUFFICES ASSUME NEW x \in Int PROVE Square(x) \in Nat
  OBVIOUS
<1>1. CASE x >= 0
  BY <1>1 DEF Square
<1>2. CASE x < 0
  <2>1. -x \in Nat /\ x * x = (-x) * (-x)
    BY <1>2
  <2>2. (-x) * (-x) \in Nat
    BY <2>1
  <2> QED
    BY <2>1, <2>2 DEF Square
<1> QED
  BY <1>1, <1>2

\* The online update keeps the baseline's counters numbers.
LEMMA UpdateType ==
    ASSUME NEW s \in Stats, NEW x \in Nat
    PROVE  Update(s, x) \in Stats
<1>1. s.count \in Nat /\ s.sum \in Nat /\ s.spread \in Nat
  BY DEF Stats
<1>2. s.count * x - s.sum \in Int
  BY <1>1
<1>3. PICK q \in Nat : q = Square(s.count * x - s.sum)
  BY <1>2, SquareType
<1>4. (s.count + 1) * s.spread \in Nat
  BY <1>1
<1>5. ASSUME s.count # 0 PROVE ((s.count + 1) * s.spread + q) \div s.count \in Nat
  <2>1. PICK n \in Nat : n = (s.count + 1) * s.spread + q
    BY <1>3, <1>4
  <2>2. n \div s.count \in Nat
    BY <1>1, <1>5, <2>1
  <2> QED
    BY <2>1, <2>2
<1> QED
  BY <1>1, <1>3, <1>5 DEF Update, Stats

\* The feed holds at most its maxlen.
LEMMA FeedType ==
    ASSUME NEW c \in Transition, recent \in Seq(Transition), Len(recent) <= RecentMax
    PROVE  Feed(c) \in Seq(Transition) /\ Len(Feed(c)) <= RecentMax
<1>1. RecentMax \in Nat \ {0}
  BY StreamAssumption DEF StreamAssumption
<1> DEFINE all == <<c>> \o recent
           n == IF Len(recent) < RecentMax THEN Len(recent) + 1 ELSE RecentMax
<1>2. all \in Seq(Transition) /\ Len(all) = Len(recent) + 1 /\ Len(recent) \in Nat
  OBVIOUS
<1>3. n \in 1 .. Len(all) /\ n <= RecentMax
  BY <1>1, <1>2
<1> HIDE DEF all, n
<1>4. SubSeq(all, 1, n) \in Seq(Transition) /\ Len(SubSeq(all, 1, n)) = n
  BY <1>2, <1>3
<1> QED
  BY <1>3, <1>4 DEF Feed, all, n

\* The first state is typed.
LEMMA OtherInit == Init => OtherTypes
<1> USE StreamAssumption DEF StreamAssumption
<1>1. NoStats \in Stats /\ [sum |-> 0, count |-> 0] \in [sum : Nat, count : Nat]
  BY DEF NoStats, Stats
<1>2. <<>> \in Seq(Transition) /\ <<>> \in Seq(Rates) /\ Len(<<>>) <= RecentMax
  OBVIOUS
<1> QED
  BY <1>1, <1>2 DEF Init, OtherTypes

\* ... and so is every later one.
LEMMA OtherStep ==
    Inv /\ ReportInv /\ ReportInv' /\ OtherTypes /\ [Next]_vars => OtherTypes'
<1> SUFFICES ASSUME Inv, ReportInv, ReportInv', OtherTypes, [Next]_vars PROVE OtherTypes'
  OBVIOUS
<1>1. MaxFaults \in Nat /\ RecentMax \in Nat /\ Rates \subseteq Nat
  BY StreamAssumption DEF StreamAssumption
<1>2. ASSUME next < Len(log)
      PROVE  Current.backend \in Backends /\ Current.rate \in Rates /\ Current.window \in Windows
  <2>1. next + 1 \in 1 .. Len(log) /\ log \in Seq(Event)
    BY <1>2 DEF Inv, TablesOK
  <2>2. Current \in Event
    BY <2>1 DEF Current
  <2> QED
    BY <2>2 DEF Event
<1>3. ASSUME NEW kind, NEW b, NEW level, Report(kind, b, level)
      PROVE  recent' \in Seq(Transition) /\ Len(recent') <= RecentMax
  <2>1. PICK c : recent' = Feed(c) /\ crossings' = Append(crossings, c)
    BY <1>3 DEF Report
  <2>2. c \in Transition
    <3>1. crossings \in Seq(Transition) /\ crossings' \in Seq(Transition)
      BY DEF ReportInv
    <3>2. Len(crossings) + 1 \in 1 .. Len(crossings') /\ crossings'[Len(crossings) + 1] = c
      BY <2>1, <3>1
    <3> QED
      BY <3>1, <3>2
  <2> QED
    BY <2>1, <2>2, FeedType DEF OtherTypes
<1>4. ASSUME next < Len(log), CheckDrift
      PROVE  /\ baseline' \in [Backends -> Stats] /\ samples' \in [Backends -> Seq(Rates)]
             /\ recent' \in Seq(Transition) /\ Len(recent') <= RecentMax
  <2>1. /\ baseline' = [baseline EXCEPT ![Current.backend] = Update(@, Current.rate)]
        /\ samples' = [samples EXCEPT ![Current.backend] = Append(@, Current.rate)]
        /\ \/ recent' = recent
           \/ \E kind, b, level : Report(kind, b, level)
    BY <1>4 DEF CheckDrift, Handled
  <2>2. Update(baseline[Current.backend], Current.rate) \in Stats
    BY <1>1, <1>2, <1>4, UpdateType DEF OtherTypes
  <2>3. baseline' \in [Backends -> Stats]
    BY <2>1, <2>2 DEF OtherTypes
  <2>4. samples' \in [Backends -> Seq(Rates)]
    BY <1>2, <1>4, <2>1 DEF OtherTypes
  <2> QED
    BY <1>3, <2>1, <2>3, <2>4 DEF OtherTypes
<1>5. Fault => faults' \in 0 .. MaxFaults
  BY <1>1 DEF Fault, OtherTypes
<1>6. CASE Handle
  <2>1. /\ next < Len(log) /\ window' = WithSample /\ faults' = faults
        /\ \/ CheckDrift
           \/ UNCHANGED driftVars /\ \E kind, b, level : Report(kind, b, level)
    BY <1>6 DEF Handle
  <2>2. window' \in [Backends \X Windows -> [sum : Nat, count : Nat]]
    <3>1. PICK k : k = <<Current.backend, Current.window>>
      OBVIOUS
    <3>2. k \in Backends \X Windows /\ Current.rate \in Nat
      BY <1>1, <1>2, <2>1, <3>1
    <3>3. window[k] \in [sum : Nat, count : Nat]
      BY <3>2 DEF OtherTypes
    <3>4. window' = [window EXCEPT ![k] = [sum |-> window[k].sum + Current.rate,
                                            count |-> window[k].count + 1]]
      BY <2>1, <3>1 DEF WithSample
    <3>5. [sum |-> window[k].sum + Current.rate, count |-> window[k].count + 1]
              \in [sum : Nat, count : Nat]
      BY <3>2, <3>3
    <3> QED
      BY <3>2, <3>4, <3>5 DEF OtherTypes
  <2>3. /\ baseline' \in [Backends -> Stats] /\ samples' \in [Backends -> Seq(Rates)]
        /\ recent' \in Seq(Transition) /\ Len(recent') <= RecentMax
    <3>1. CASE CheckDrift
      BY <1>4, <2>1, <3>1
    <3>2. CASE UNCHANGED driftVars /\ \E kind, b, level : Report(kind, b, level)
      BY <1>3, <3>2 DEF driftVars, OtherTypes
    <3> QED
      BY <2>1, <3>1, <3>2
  <2> QED
    BY <2>1, <2>2, <2>3 DEF OtherTypes
<1>7. CASE SendAlert
  <2>1. next < Len(log) /\ CheckDrift /\ UNCHANGED <<window, faults>>
    BY <1>7 DEF SendAlert, alertVars, Inv, TablesOK
  <2> QED
    BY <1>4, <2>1 DEF OtherTypes
<1>8. CASE SendDrift
  BY <1>8 DEF SendDrift, Handled, alertVars, driftVars, OtherTypes
<1>9. CASE SendRaises
  BY <1>5, <1>9 DEF SendRaises, alertVars, driftVars, OtherTypes
<1>10. CASE Crash
  <2>1. recent' = <<>> /\ <<>> \in Seq(Transition) /\ Len(<<>>) <= RecentMax
    BY <1>1, <1>10 DEF Crash
  <2> QED
    BY <1>5, <1>10, <2>1 DEF Crash, alertVars, driftVars, OtherTypes
<1>11. CASE \E b \in Backends, r \in Rates : Calibrate(b, r)
  BY <1>11 DEF Calibrate, alertVars, driftVars, OtherTypes
<1>12. CASE Roll \/ Commit
  BY <1>12 DEF Roll, Commit, alertVars, driftVars, OtherTypes
<1>13. CASE UNCHANGED vars
  BY <1>13 DEF vars, alertVars, driftVars, OtherTypes
<1> QED
  BY <1>6, <1>7, <1>8, <1>9, <1>10, <1>11, <1>12, <1>13 DEF Next

\* The agent's state is always well formed: the tables, the streaks and the online
\* baseline hold what their types allow, the feed stays within its maxlen, and a send
\* is awaited only for an event in hand.
THEOREM StreamTypeCorrect == Spec => []TypeOK
<1>1. Inv /\ ReportInv /\ OtherTypes => TypeOK
  BY DEF Inv, ReportInv, OtherTypes, TablesOK, TypeOK
<1> QED
  BY <1>1, InitInv, NextInv, ReportInit, ReportStep, OtherInit, OtherStep, PTL DEF Spec

--------------------------------------------------------------------------------
(* The baseline.  Sums is a recursive function, so that what it computes for    *)
(* every sequence takes an induction, over sets of numbers here.                *)

\* A set of numbers that holds 0 and every successor holds them all: a least one
\* outside it would have a predecessor inside.
LEMMA SetInduction ==
    ASSUME NEW S \in SUBSET Nat, 0 \in S, \A n \in S : n + 1 \in S
    PROVE  S = Nat
<1>1. ASSUME S # Nat PROVE FALSE
  <2> DEFINE T == Nat \ S
  <2>1. T # {} /\ T \subseteq Nat
    BY <1>1
  <2>2. IsWellFoundedOn(OpToRel(<, Nat), Nat)
    BY NatLessThanWellFounded
  <2> HIDE DEF T
  <2>3. PICK x \in T : \A y \in T : ~(<<y, x>> \in OpToRel(<, Nat))
    BY <2>1, <2>2, WFMin
  <2>4. \A y \in T : ~(y < x)
    BY <2>1, <2>3 DEF OpToRel
  <2>5. x \in Nat /\ x \notin S
    BY <2>1 DEF T
  <2>6. x # 0
    BY <2>5
  <2>7. x - 1 \in Nat /\ x - 1 < x
    BY <2>5, <2>6
  <2>8. x - 1 \in S
    BY <2>4, <2>7 DEF T
  <2>9. (x - 1) + 1 \in S
    BY <2>8
  <2> QED
    BY <2>5, <2>9
<1> QED
  BY <1>1

\* f is the sums of the first 0 .. n values of v.
IsSums(f, v, n) ==
    /\ f \in [0 .. n -> Int]
    /\ f[0] = 0
    /\ \A k \in 1 .. n : f[k] = f[k - 1] + v[k]

\* There are such sums, value by value.
LEMMA SumsExist ==
    ASSUME NEW N \in Nat, NEW v \in [1 .. N -> Int]
    PROVE  \E f : IsSums(f, v, N)
<1> DEFINE S == {n \in Nat : n <= N => \E f : IsSums(f, v, n)}
<1>1. 0 \in S
  <2>1. IsSums([k \in 0 .. 0 |-> 0], v, 0)
    BY DEF IsSums
  <2> QED
    BY <2>1
<1>2. ASSUME NEW n \in S PROVE n + 1 \in S
  <2> SUFFICES ASSUME n + 1 <= N PROVE \E f : IsSums(f, v, n + 1)
    OBVIOUS
  <2>1. PICK f : IsSums(f, v, n)
    BY <1>2
  <2> DEFINE g == [k \in 0 .. n + 1 |-> IF k = n + 1 THEN f[n] + v[n + 1] ELSE f[k]]
  <2>2. v[n + 1] \in Int /\ f[n] \in Int
    BY <1>2, <2>1 DEF IsSums
  <2>3. IsSums(g, v, n + 1)
    BY <1>2, <2>1, <2>2 DEF IsSums
  <2> QED
    BY <2>3
<1>3. S \in SUBSET Nat
  OBVIOUS
<1>4. S = Nat
  <2> HIDE DEF S
  <2> QED
    BY <1>1, <1>2, <1>3, SetInduction
<1>5. N \in S
  BY <1>4
<1> QED
  BY <1>5

\* Sums, which its recursive equation defines, is one of them.
LEMMA SumsDefined ==
    ASSUME NEW v \in Seq(Int)
    PROVE  IsSums(Sums(v), v, Len(v))
<1>1. v \in [1 .. Len(v) -> Int] /\ Len(v) \in Nat
  OBVIOUS
<1>2. PICK f : IsSums(f, v, Len(v))
  BY <1>1, SumsExist
<1> DEFINE eq(g) == g = [k \in 0 .. Len(v) |-> IF k = 0 THEN 0 ELSE g[k - 1] + v[k]]
<1>3. eq(f)
  BY <1>1, <1>2 DEF IsSums
<1>4. Sums(v) = CHOOSE g : eq(g)
  BY DEF Sums
<1>5. eq(Sums(v))
  BY <1>3, <1>4
<1>6. PICK s : s = Sums(v)
  OBVIOUS
<1>7. s = [k \in 0 .. Len(v) |-> IF k = 0 THEN 0 ELSE s[k - 1] + v[k]]
  BY <1>5, <1>6
<1>8. /\ s[0] = 0
      /\ \A k \in 1 .. Len(v) : s[k] = s[k - 1] + v[k]
      /\ DOMAIN s = 0 .. Len(v)
  <2>1. DOMAIN s = 0 .. Len(v) /\ \A k \in 0 .. Len(v) : s[k] = IF k = 0 THEN 0 ELSE s[k - 1] + v[k]
    BY <1>7
  <2>2. 0 \in 0 .. Len(v) /\ \A k \in 1 .. Len(v) : k \in 0 .. Len(v) /\ k # 0
    BY <1>1
  <2> QED
    BY <2>1, <2>2
<1> DEFINE S == {k \in Nat : k <= Len(v) => s[k] \in Int}
<1>9. 0 \in S
  BY <1>8
<1>10. ASSUME NEW k \in S PROVE k + 1 \in S
  BY <1>1, <1>8
<1>11. S = Nat
  <2>1. S \in SUBSET Nat
    OBVIOUS
  <2> HIDE DEF S
  <2> QED
    BY <1>9, <1>10, <2>1, SetInduction
<1>12. \A k \in 0 .. Len(v) : s[k] \in Int
  <2> SUFFICES ASSUME NEW k \in 0 .. Len(v) PROVE s[k] \in Int
    OBVIOUS
  <2>1. k \in S
    BY <1>1, <1>11
  <2> QED
    BY <1>1, <2>1
<1>13. s \in [0 .. Len(v) -> Int]
  <2>1. s = [k \in 0 .. Len(v) |-> s[k]]
    BY <1>7
  <2> QED
    BY <1>12, <2>1
<1> QED
  BY <1>6, <1>8, <1>13 DEF IsSums

\* v and w agree on their first n values.
SamePrefix(v, w, n) == \A k \in 1 .. n : v[k] = w[k]

\* Their sums agree as well.
LEMMA SumsAgree ==
    ASSUME NEW v, NEW w, NEW m \in Nat, NEW n \in Nat, n <= m,
           NEW f, NEW g, IsSums(f, v, n), IsSums(g, w, m),
           SamePrefix(v, w, n)
    PROVE  \A k \in 0 .. n : f[k] = g[k]
<1> DEFINE S == {k \in Nat : k <= n => f[k] = g[k]}
<1>1. 0 \in S
  BY DEF IsSums
<1>2. ASSUME NEW k \in S PROVE k + 1 \in S
  <2> SUFFICES ASSUME k + 1 <= n PROVE f[k + 1] = g[k + 1]
    OBVIOUS
  <2>1. f[k + 1] = f[(k + 1) - 1] + v[k + 1] /\ g[k + 1] = g[(k + 1) - 1] + w[k + 1]
    BY DEF IsSums
  <2>2. (k + 1) - 1 = k /\ f[k] = g[k] /\ v[k + 1] = w[k + 1]
    BY DEF SamePrefix
  <2> QED
    BY <2>1, <2>2
<1>3. S = Nat
  <2>1. S \in SUBSET Nat
    OBVIOUS
  <2> HIDE DEF S
  <2> QED
    BY <1>1, <1>2, <2>1, SetInduction
<1> SUFFICES ASSUME NEW k \in 0 .. n PROVE f[k] = g[k]
  OBVIOUS
<1>4. k \in S
  BY <1>3
<1> QED
  BY <1>4

\* The total of no values.
LEMMA TotalOfEmpty ==
    ASSUME NEW v \in Seq(Int), Len(v) = 0
    PROVE  Total(v) = 0
<1>1. IsSums(Sums(v), v, 0)
  BY SumsDefined
<1> QED
  BY <1>1 DEF Total, IsSums

\* One more value adds itself to the total.
LEMMA TotalOfAppend ==
    ASSUME NEW v \in Seq(Int), NEW x \in Int
    PROVE  Total(v) \in Int /\ Total(Append(v, x)) = Total(v) + x
<1>1. PICK w \in Seq(Int) : w = Append(v, x)
  <2>1. Append(v, x) \in Seq(Int)
    OBVIOUS
  <2> QED
    BY <2>1
<1>2. PICK n \in Nat : n = Len(v)
  OBVIOUS
<1>3. Len(w) = n + 1 /\ w[n + 1] = x /\ \A k \in 1 .. n : v[k] = w[k]
  BY <1>1, <1>2
<1>4. PICK f : f = Sums(v) /\ IsSums(f, v, n)
  BY <1>2, SumsDefined
<1>5. PICK g : g = Sums(w) /\ IsSums(g, w, n + 1)
  BY <1>3, SumsDefined
<1>6. f[n] = g[n]
  <2>1. n + 1 \in Nat /\ n <= n + 1 /\ n \in 0 .. n
    OBVIOUS
  <2> QED
    <3>1. \A k \in 0 .. n : f[k] = g[k]
      <4>1. IsSums(f, v, n) /\ IsSums(g, w, n + 1)
        BY <1>4, <1>5
      <4>2. SamePrefix(v, w, n)
        BY <1>3 DEF SamePrefix
      <4>3. ASSUME NEW m \in Nat, m = n + 1 PROVE \A k \in 0 .. n : f[k] = g[k]
        <5>1. n <= m /\ IsSums(g, w, m)
          BY <4>1, <4>3
        <5> QED
          BY <4>1, <4>2, <5>1, SumsAgree
      <4> QED
        BY <2>1, <4>3
    <3> QED
      BY <2>1, <3>1
<1>7. f[n] \in Int
  BY <1>4 DEF IsSums
<1>8. g[n + 1] = g[n] + x
  <2>1. g[n + 1] = g[(n + 1) - 1] + w[n + 1]
    BY <1>5 DEF IsSums
  <2> QED
    BY <1>3, <2>1
<1>9. Total(v) = f[n] /\ Total(w) = g[n + 1]
  BY <1>2, <1>3, <1>4, <1>5 DEF Total
<1> QED
  BY <1>1, <1>6, <1>7, <1>8, <1>9

\* The squares of the values.
Squared(v) == [i \in 1 .. Len(v) |-> Square(v[i])]

\* One more value adds its square.
LEMMA SquaredOfAppend ==
    ASSUME NEW v \in Seq(Int), NEW x \in Int
    PROVE  /\ Squared(v) \in Seq(Int)
           /\ Squared(Append(v, x)) = Append(Squared(v), Square(x))
<1>1. PICK w \in Seq(Int) : w = Append(v, x)
  <2>1. Append(v, x) \in Seq(Int)
    OBVIOUS
  <2> QED
    BY <2>1
<1>2. PICK n \in Nat : n = Len(v)
  OBVIOUS
<1>3. Len(w) = n + 1 /\ w[n + 1] = x /\ \A k \in 1 .. n : w[k] = v[k]
  BY <1>1, <1>2
<1>4. \A y \in Int : Square(y) \in Int
  BY DEF Square
<1>5. Squared(v) \in Seq(Int) /\ Len(Squared(v)) = n
  BY <1>2, <1>4 DEF Squared
<1>6. Squared(w) \in Seq(Int) /\ Len(Squared(w)) = n + 1
  BY <1>3, <1>4 DEF Squared
<1>7. PICK a \in Seq(Int) : a = Append(Squared(v), Square(x))
  <2>1. Append(Squared(v), Square(x)) \in Seq(Int)
    BY <1>4, <1>5
  <2> QED
    BY <2>1
<1>8. Len(a) = n + 1 /\ a[n + 1] = Square(x) /\ \A k \in 1 .. n : a[k] = Squared(v)[k]
  <2>1. PICK u \in Seq(Int) : u = Squared(v)
    BY <1>5
  <2>2. Square(x) \in Int
    BY <1>4
  <2> QED
    BY <1>5, <1>7, <2>1, <2>2
<1>9. \A k \in 1 .. n + 1 : Squared(w)[k] = a[k]
  <2> SUFFICES ASSUME NEW k \in 1 .. n + 1 PROVE Squared(w)[k] = a[k]
    OBVIOUS
  <2>1. Squared(w)[k] = Square(w[k])
    BY <1>3 DEF Squared
  <2>2. CASE k = n + 1
    BY <1>3, <1>8, <2>1, <2>2
  <2>3. CASE k # n + 1
    <3>1. k \in 1 .. n
      BY <2>3
    <3>2. Squared(v)[k] = Square(v[k])
      BY <1>2, <3>1 DEF Squared
    <3> QED
      BY <1>3, <1>8, <2>1, <3>1, <3>2
  <2> QED
    BY <2>2, <2>3
<1>10. Squared(w) = a
  BY <1>6, <1>8, <1>9
<1> QED
  BY <1>1, <1>5, <1>7, <1>10

\* The squares of n times the deviations from c / n, in closed form.
LEMMA TotalOfDeviations ==
    ASSUME NEW v \in Seq(Int), NEW n \in Int, NEW c \in Int
    PROVE  Total([i \in 1 .. Len(v) |-> Square(n * v[i] - c)])
               = n * n * Total(Squared(v)) - 2 * n * c * Total(v) + c * c * Len(v)
<1> DEFINE d == [i \in 1 .. Len(v) |-> Square(n * v[i] - c)]
<1>1. PICK N \in Nat : N = Len(v)
  OBVIOUS
<1>2. \A y \in Int : Square(y) \in Int
  BY DEF Square
<1>3. \A k \in 1 .. N : v[k] \in Int
  BY <1>1
<1>4. d \in Seq(Int) /\ Len(d) = N
  BY <1>1, <1>2
<1>5. Squared(v) \in Seq(Int) /\ Len(Squared(v)) = N
  BY <1>1, <1>2 DEF Squared
<1>6. PICK fd : fd = Sums(d) /\ IsSums(fd, d, N)
  <2> HIDE DEF d
  <2> QED
    BY <1>4, SumsDefined
<1>7. PICK fq : fq = Sums(Squared(v)) /\ IsSums(fq, Squared(v), N)
  BY <1>5, SumsDefined
<1>8. PICK fv : fv = Sums(v) /\ IsSums(fv, v, N)
  BY <1>1, SumsDefined
<1>9. PICK nn \in Int, nc \in Int, cc \in Int : nn = n * n /\ nc = 2 * n * c /\ cc = c * c
  OBVIOUS
<1> DEFINE S == {k \in Nat : k <= N => fd[k] = nn * fq[k] - nc * fv[k] + cc * k}
<1>10. 0 \in S
  BY <1>6, <1>7, <1>8 DEF IsSums
<1>11. ASSUME NEW k \in S PROVE k + 1 \in S
  <2> SUFFICES ASSUME k + 1 <= N
               PROVE  fd[k + 1] = nn * fq[k + 1] - nc * fv[k + 1] + cc * (k + 1)
    OBVIOUS
  <2>1. k + 1 \in 1 .. N /\ k \in 0 .. N /\ (k + 1) - 1 = k
    BY <1>11
  <2>2. PICK x \in Int : x = v[k + 1]
    BY <1>3, <2>1
  <2>3. d[k + 1] = Square(n * x - c) /\ Squared(v)[k + 1] = Square(x)
    BY <1>1, <2>1, <2>2 DEF Squared
  <2>4. /\ fd[k + 1] = fd[k] + Square(n * x - c)
        /\ fq[k + 1] = fq[k] + Square(x)
        /\ fv[k + 1] = fv[k] + x
    <3> HIDE DEF d
    <3> QED
      BY <1>6, <1>7, <1>8, <2>1, <2>2, <2>3 DEF IsSums
  <2>5. fd[k] \in Int /\ fq[k] \in Int /\ fv[k] \in Int
    BY <1>6, <1>7, <1>8, <2>1 DEF IsSums
  <2>6. fd[k] = nn * fq[k] - nc * fv[k] + cc * k
    BY <1>11, <2>1
  <2>7. Square(n * x - c) = nn * Square(x) - nc * x + cc
    BY <1>9 DEF Square
  <2>8. PICK a \in Int, b \in Int, y \in Int, p \in Int, q \in Int :
            a = fd[k] /\ b = fq[k] /\ y = fv[k] /\ p = Square(n * x - c) /\ q = Square(x)
    <3>1. Square(n * x - c) \in Int /\ Square(x) \in Int
      <4>1. n * x - c \in Int
        OBVIOUS
      <4> QED
        BY <1>2, <4>1
    <3> QED
      BY <2>5, <3>1
  <2>9. ASSUME a = nn * b - nc * y + cc * k, p = nn * q - nc * x + cc
        PROVE  a + p = nn * (b + q) - nc * (y + x) + cc * (k + 1)
    BY <2>9
  <2> QED
    BY <2>4, <2>6, <2>7, <2>8, <2>9
<1>12. S = Nat
  <2>1. S \in SUBSET Nat
    OBVIOUS
  <2> HIDE DEF S
  <2> QED
    BY <1>10, <1>11, <2>1, SetInduction
<1>13. fd[N] = nn * fq[N] - nc * fv[N] + cc * N
  <2>1. N \in S
    BY <1>12
  <2> QED
    BY <2>1
<1>14. Total(d) = fd[N] /\ Total(Squared(v)) = fq[N] /\ Total(v) = fv[N]
  <2> HIDE DEF d
  <2> QED
    BY <1>1, <1>4, <1>5, <1>6, <1>7, <1>8 DEF Total
<1> HIDE DEF d
<1>15. Total(d) = n * n * Total(Squared(v)) - 2 * n * c * Total(v) + c * c * Len(v)
  BY <1>1, <1>9, <1>13, <1>14
<1> QED
  BY <1>15 DEF d

\* What the online update keeps: the spread is n times the sum of the squares less
\* the square of the sum.
Moments(s, v) ==
    /\ s.count = Len(v)
    /\ s.sum = Total(v)
    /\ s.spread = Len(v) * Total(Squared(v)) - Square(Total(v))

\* These are the mean and the variance of the definitions.
LEMMA MomentsDescribe ==
    ASSUME NEW v \in Seq(Int), NEW s, Moments(s, v)
    PROVE  Describes(s, v)
<1>1. Total(v) \in Int /\ Total(Squared(v)) \in Int /\ Len(v) \in Nat
  BY TotalOfAppend, SquaredOfAppend, 0 \in Int
<1>2. PICK n \in Nat, t \in Int, q \in Int : n = Len(v) /\ t = Total(v) /\ q = Total(Squared(v))
  BY <1>1
<1>3. DOMAIN v = 1 .. Len(v)
  OBVIOUS
<1>4. Total([i \in 1 .. Len(v) |-> Square(n * v[i] - t)]) = n * n * q - 2 * n * t * t + t * t * n
  <2>1. Total([i \in 1 .. Len(v) |-> Square(n * v[i] - t)])
            = n * n * Total(Squared(v)) - 2 * n * t * Total(v) + t * t * Len(v)
    <3>1. n \in Int
      OBVIOUS
    <3> QED
      BY <3>1, TotalOfDeviations
  <2> QED
    BY <1>2, <2>1
<1>5. (n * q - t * t) * n = n * n * q - 2 * n * t * t + t * t * n
  OBVIOUS
<1>6. s.spread = n * q - t * t
  BY <1>2 DEF Moments, Square
<1>7. s.spread * n = Total([i \in DOMAIN v |-> Square(n * v[i] - t)])
  BY <1>3, <1>4, <1>5, <1>6
<1> QED
  BY <1>2, <1>7 DEF Describes, Moments

\* Welford's update keeps them: its division is exact.
LEMMA UpdateKeepsMoments ==
    ASSUME NEW v \in Seq(Int), NEW s, NEW x \in Int, Moments(s, v)
    PROVE  Moments(Update(s, x), Append(v, x))
<1>1. Total(v) \in Int /\ Total(Squared(v)) \in Int /\ Len(v) \in Nat
  BY TotalOfAppend, SquaredOfAppend, 0 \in Int
<1>2. PICK n \in Nat, t \in Int, q \in Int : n = Len(v) /\ t = Total(v) /\ q = Total(Squared(v))
  BY <1>1
<1>3. /\ Len(Append(v, x)) = n + 1
      /\ Total(Append(v, x)) = t + x
      /\ Total(Squared(Append(v, x))) = q + x * x
  <2>1. Len(Append(v, x)) = n + 1
    BY <1>2
  <2>2. Square(x) \in Int /\ Square(x) = x * x
    BY DEF Square
  <2>3. Total(Append(v, x)) = t + x
    BY <1>2, TotalOfAppend
  <2>4. Squared(v) \in Seq(Int) /\ Squared(Append(v, x)) = Append(Squared(v), Square(x))
    BY SquaredOfAppend
  <2>5. Total(Append(Squared(v), Square(x))) = q + x * x
    BY <1>2, <2>2, <2>4, TotalOfAppend
  <2> QED
    BY <2>1, <2>3, <2>4, <2>5
<1>4. s.count = n /\ s.sum = t /\ s.spread = n * q - t * t
  BY <1>2 DEF Moments, Square
<1>5. Update(s, x).spread = (n + 1) * (q + x * x) - (t + x) * (t + x)
  <2>1. CASE n = 0
    <3>1. t = 0
      BY <1>2, <2>1, TotalOfEmpty
    <3>2. Squared(v) \in Seq(Int) /\ Len(Squared(v)) = 0
      BY <1>2, <2>1, SquaredOfAppend DEF Squared
    <3>3. q = 0
      BY <1>2, <3>2, TotalOfEmpty
    <3>4. Update(s, x).spread = 0
      BY <1>4, <2>1 DEF Update
    <3> QED
      BY <2>1, <3>1, <3>3, <3>4
  <2>2. CASE n # 0
    <3>1. Update(s, x).spread = ((n + 1) * (n * q - t * t) + (n * x - t) * (n * x - t)) \div n
      BY <1>4, <2>2 DEF Update, Square
    <3>2. (n + 1) * (n * q - t * t) + (n * x - t) * (n * x - t)
              = n * ((n + 1) * (q + x * x) - (t + x) * (t + x))
      OBVIOUS
    <3>3. PICK z \in Int : z = (n + 1) * (q + x * x) - (t + x) * (t + x)
      OBVIOUS
    <3>4. (n * z) \div n = z
      BY <2>2
    <3> QED
      BY <3>1, <3>2, <3>3, <3>4
  <2> QED
    BY <2>1, <2>2
<1>6. Update(s, x).count = n + 1 /\ Update(s, x).sum = t + x
  BY <1>4 DEF Update
<1> QED
  BY <1>3, <1>5, <1>6 DEF Moments, Square

\* The baseline of every backend is that of the samples folded into it.
BaselineInv == \A b \in Backends : Moments(baseline[b], samples[b])

\* No samples, no statistics.
LEMMA BaselineInit == Init => BaselineInv
<1> SUFFICES ASSUME Init, NEW b \in Backends PROVE Moments(baseline[b], samples[b])
  BY DEF BaselineInv
<1>1. PICK v \in Seq(Int) : v = <<>> /\ Len(v) = 0
  <2>1. <<>> \in Seq(Int) /\ Len(<<>>) = 0
    OBVIOUS
  <2> QED
    BY <2>1
<1>2. baseline[b] = NoStats /\ samples[b] = v
  BY <1>1 DEF Init
<1>3. Squared(v) \in Seq(Int) /\ Len(Squared(v)) = 0
  BY <1>1, SquaredOfAppend, 0 \in Int DEF Squared
<1>4. Total(v) = 0 /\ Total(Squared(v)) = 0
  BY <1>1, <1>3, TotalOfEmpty
<1> QED
  BY <1>1, <1>2, <1>4 DEF Moments, NoStats, Square

\* Error rates are numbers.
LEMMA RatesAreNumbers ==
    ASSUME NEW v \in Seq(Rates)
    PROVE  v \in Seq(Int)
<1>1. Rates \subseteq Int
  BY StreamAssumption DEF StreamAssumption
<1>2. \A k \in 1 .. Len(v) : v[k] \in Int
  <2>1. \A k \in 1 .. Len(v) : v[k] \in Rates
    OBVIOUS
  <2> QED
    BY <1>1, <2>1
<1>3. v = [k \in 1 .. Len(v) |-> v[k]] /\ Len(v) \in Nat
  OBVIOUS
<1>4. [k \in 1 .. Len(v) |-> v[k]] \in Seq(Int)
  BY <1>2, <1>3
<1> QED
  BY <1>3, <1>4

\* Only the second half of the handler touches the baseline, and folds in the
\* sample it has.
LEMMA BaselineStep == Inv /\ OtherTypes /\ BaselineInv /\ [Next]_vars => BaselineInv'
<1> SUFFICES ASSUME Inv, OtherTypes, BaselineInv, [Next]_vars PROVE BaselineInv'
  OBVIOUS
<1>1. Rates \subseteq Nat
  BY StreamAssumption DEF StreamAssumption
<1>2. CASE UNCHANGED <<baseline, samples>>
  BY <1>2 DEF BaselineInv
<1>3. ASSUME next < Len(log), CheckDrift
      PROVE  BaselineInv'
  <2>1. next + 1 \in 1 .. Len(log) /\ log \in Seq(Event)
    BY <1>3 DEF Inv, TablesOK
  <2>2. Current \in Event
    BY <2>1 DEF Current
  <2>3. PICK b0 \in Backends, x \in Int : b0 = Current.backend /\ x = Current.rate
    <3>1. Current.backend \in Backends /\ Current.rate \in Rates
      BY <2>2 DEF Event
    <3>2. \A r \in Rates : r \in Int
      BY <1>1
    <3> QED
      BY <3>1, <3>2
  <2>4. /\ baseline' = [baseline EXCEPT ![b0] = Update(@, x)]
        /\ samples' = [samples EXCEPT ![b0] = Append(@, x)]
    BY <1>3, <2>3 DEF CheckDrift
  <2> SUFFICES ASSUME NEW b \in Backends PROVE Moments(baseline'[b], samples'[b])
    BY DEF BaselineInv
  <2>5. CASE b = b0
    <3>1. baseline'[b] = Update(baseline[b], x) /\ samples'[b] = Append(samples[b], x)
      BY <2>4, <2>5 DEF OtherTypes
    <3>2. samples[b] \in Seq(Int)
      BY RatesAreNumbers DEF OtherTypes
    <3> QED
      BY <3>1, <3>2, UpdateKeepsMoments DEF BaselineInv
  <2>6. CASE b # b0
    BY <2>4, <2>6 DEF BaselineInv, OtherTypes
  <2> QED
    BY <2>5, <2>6
<1>4. CASE Handle
  BY <1>2, <1>3, <1>4 DEF Handle, driftVars
<1>5. CASE SendAlert
  <2>1. next < Len(log)
    BY <1>5 DEF SendAlert, Inv, TablesOK
  <2> QED
    BY <1>3, <1>5, <2>1 DEF SendAlert
<1>6. CASE \/ SendDrift \/ SendRaises \/ Crash \/ Roll \/ Commit
           \/ \E b \in Backends, r \in Rates : Calibrate(b, r)
           \/ UNCHANGED vars
  BY <1>2, <1>6
     DEF SendDrift, SendRaises, Crash, Roll, Commit, Calibrate, vars, driftVars
<1> QED
  BY <1>4, <1>5, <1>6 DEF Next

\* drift.py:14-16 and alerting.py:19-25, for any number of events, any rates and
\* whatever is replayed: the online statistics are the mean and the variance of the
\* samples folded in, exactly, and both hysteresis tables what their verdicts call for.
THEOREM TablesMatchHistory == Spec => []TablesFollowHistory
<1>1. Inv /\ OtherTypes /\ BaselineInv => TablesFollowHistory
  <2> SUFFICES ASSUME Inv, OtherTypes, BaselineInv PROVE TablesFollowHistory
    OBVIOUS
  <2>1. LevelsFollowHistory
    BY DEF Inv, TablesOK, LevelsFollowHistory
  <2>2. ASSUME NEW b \in Backends PROVE Describes(baseline[b], samples[b])
    <3>1. samples[b] \in Seq(Int)
      BY RatesAreNumbers DEF OtherTypes
    <3> QED
      BY <3>1, MomentsDescribe DEF BaselineInv
  <2> QED
    BY <2>1, <2>2 DEF TablesFollowHistory, BaselineIsExact
<1> QED
  BY <1>1, InitInv, NextInv, ReportInit, ReportStep, OtherInit, OtherStep,
     BaselineInit, BaselineStep, PTL DEF Spec
================================================================================
