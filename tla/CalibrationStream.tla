--------------------------- MODULE CalibrationStream ---------------------------
(* The Faust agent process_calibration_event                                   *)
(* (services/stream-analytics/app/faust_app.py): it reads the topic            *)
(* calibration-results, keeps a tumbling window, the hysteresis states and the *)
(* baseline of each backend in tables, and publishes changes of level to       *)
(* calibration-alerts and calibration-drift-alerts.                            *)
(*                                                                             *)
(* Faust is external.  It hands out every event of the topic from the          *)
(* committed offset on and commits what was handled some time later; a table   *)
(* survives a crash through its changelog, and the events after the committed  *)
(* offset are then handled again.  An exception ends the handling of an event, *)
(* which may or may not be handed out again.  An event belongs to the window   *)
(* it was stamped in; .now() may read that window or the clock's.              *)
EXTENDS Alerting, Drift

CONSTANTS
    Backends,       \* names of backends
    Rates,          \* error rates, in some unit
    Threshold,      \* DEFAULT_THRESHOLD, in the same unit
    BreachStreak, RecoveryStreak,
    DriftThreshold, \* DRIFT_ZSCORE_THRESHOLD
    DriftBreachStreak, DriftRecoveryStreak,
    RecentMax,      \* RECENT_EVENTS_MAXLEN
    MaxEvents,      \* bound: calibration results
    MaxWindows,     \* bound: tumbling windows
    MaxFaults       \* bound: crashes, and sends that raise

\* The defaults are 3 and 3, 3.0, 2 and 2, and 50.
ASSUME StreamAssumption ==
    /\ Rates \subseteq Nat
    /\ {Threshold, DriftThreshold, MaxEvents, MaxFaults} \subseteq Nat
    /\ {BreachStreak, RecoveryStreak, DriftBreachStreak, DriftRecoveryStreak, RecentMax,
        MaxWindows} \subseteq Nat \ {0}

VARIABLES
    log,         \* the topic calibration-results
    clock,       \* the current tumbling window
    pc,          \* the agent is idle, or at the await of one of its sends
    next,        \* the number of events handled
    committed,   \* the offset committed for the consumer group
    window,      \* tables error_rate_sum and sample_count, by backend and window
    alerts,      \* table alert_state
    baseline,    \* table baseline_stats
    drifts,      \* table drift_alert_state
    recent,      \* recent_events, newest first; in memory only
    published,   \* the topics calibration-alerts and calibration-drift-alerts
    alertSeen,   \* history: the verdicts counted into alert_state
    samples,     \* history: the samples folded into baseline_stats
    driftSeen,   \* history: the verdicts counted into drift_alert_state
    crossings,   \* history: the changes of level
    faults       \* crashes and raised sends so far

topics == <<log, clock, next, committed>>
alertVars == <<window, alerts, alertSeen>>
driftVars == <<baseline, drifts, samples, driftSeen>>
vars == <<topics, pc, alertVars, driftVars, recent, published, crossings, faults>>

Windows == 1 .. MaxWindows
Kinds == {"alert", "drift"}
Event == [backend : Backends, rate : Rates, window : Windows]
Transition == [kind : Kinds, backend : Backends, level : Level]
Verdicts == [Backends -> Seq(BOOLEAN)]

\* The tables and the feed hold what their record types allow, the feed no more
\* than its maxlen, and the agent waits at a send only while it has an event.
TypeOK ==
    /\ log \in Seq(Event)
    /\ clock \in Windows
    /\ pc \in Kinds \cup {"idle"}
    /\ next \in 0 .. Len(log)
    /\ pc # "idle" => next < Len(log)
    /\ committed \in 0 .. next
    /\ window \in [Backends \X Windows -> [sum : Nat, count : Nat]]
    /\ alerts \in [Backends -> AlertState]
    /\ baseline \in [Backends -> Stats]
    /\ drifts \in [Backends -> AlertState]
    /\ recent \in Seq(Transition)
    /\ Len(recent) <= RecentMax
    /\ published \in Seq(Transition)
    /\ alertSeen \in Verdicts
    /\ samples \in [Backends -> Seq(Rates)]
    /\ driftSeen \in Verdicts
    /\ crossings \in Seq(Transition)
    /\ faults \in 0 .. MaxFaults

Init ==
    /\ log = <<>>
    /\ clock = 1
    /\ pc = "idle"
    /\ next = 0
    /\ committed = 0
    /\ window = [k \in Backends \X Windows |-> [sum |-> 0, count |-> 0]]
    /\ alerts = [b \in Backends |-> Unalerted]
    /\ baseline = [b \in Backends |-> NoStats]
    /\ drifts = [b \in Backends |-> Unalerted]
    /\ recent = <<>>
    /\ published = <<>>
    /\ alertSeen = [b \in Backends |-> <<>>]
    /\ samples = [b \in Backends |-> <<>>]
    /\ driftSeen = [b \in Backends |-> <<>>]
    /\ crossings = <<>>
    /\ faults = 0

--------------------------------------------------------------------------------
(* The surroundings: orchestrator's calibration loops, the clock, and Faust's  *)
(* commits.                                                                    *)

\* publish_calibration_result of some worker.
Calibrate(b, r) ==
    /\ Len(log) < MaxEvents
    /\ log' = Append(log, [backend |-> b, rate |-> r, window |-> clock])
    /\ UNCHANGED <<clock, next, committed, pc, alertVars, driftVars, recent, published,
                   crossings, faults>>

\* A tumbling window ends.
Roll ==
    /\ clock < MaxWindows
    /\ clock' = clock + 1
    /\ UNCHANGED <<log, next, committed, pc, alertVars, driftVars, recent, published,
                   crossings, faults>>

\* Faust commits the offset up to which events are handled.
Commit ==
    /\ committed < next
    /\ committed' = next
    /\ UNCHANGED <<log, clock, next, pc, alertVars, driftVars, recent, published,
                   crossings, faults>>

--------------------------------------------------------------------------------
(* The handler of one event.  Control leaves it only at its two sends.         *)

Current == log[next + 1]

\* _record_event: appendleft on a deque with a maxlen.
Feed(t) == SubSeq(<<t>> \o recent, 1, IF Len(recent) < RecentMax THEN Len(recent) + 1
                                                                 ELSE RecentMax)

\* A level changed: it goes to the feed, and then to the topic, at `pc`.
Report(kind, b, level) ==
    LET t == [kind |-> kind, backend |-> b, level |-> level]
    IN  /\ recent' = Feed(t)
        /\ crossings' = Append(crossings, t)
        /\ pc' = kind

\* The event is handled; the loop takes the next one.
Handled ==
    /\ pc' = "idle"
    /\ next' = next + 1
    /\ UNCHANGED <<log, clock, committed, recent, crossings>>

\* The second half: the raw sample against the baseline as it was before it,
\* then into it.  Without a z-score the hysteresis state is not touched.
CheckDrift ==
    LET b == Current.backend
        x == Current.rate
        over == Deviates(baseline[b], x, DriftThreshold)
        state == Step(drifts[b], over, DriftBreachStreak, DriftRecoveryStreak)
    IN  /\ baseline' = [baseline EXCEPT ![b] = Update(@, x)]
        /\ samples' = [samples EXCEPT ![b] = Append(@, x)]
        /\ \/ /\ NoZscore(baseline[b])
              /\ Handled
              /\ UNCHANGED <<drifts, driftSeen>>
           \/ /\ ~NoZscore(baseline[b])
              /\ drifts' = [drifts EXCEPT ![b] = state]
              /\ driftSeen' = [driftSeen EXCEPT ![b] = Append(@, over)]
              /\ \/ ~Crossed(drifts[b], state) /\ Handled
                 \/ /\ Crossed(drifts[b], state)
                    /\ Report("drift", b, state.level)
                    /\ UNCHANGED topics

\* The windowed average is above the threshold: `w` is the window that .now()
\* reads after the sample has been added to the event's own.
Over(w) == w.sum > Threshold * w.count

\* The event's own window with its sample.
WithSample ==
    [window EXCEPT ![<<Current.backend, Current.window>>] =
        [sum |-> @.sum + Current.rate, count |-> @.count + 1]]

\* The first half: the sample enters its window, and the average drives the
\* hysteresis.  Without a transition the second half follows at once.
Handle ==
    /\ pc = "idle"
    /\ next < Len(log)
    /\ LET b == Current.backend
       IN  \E now \in {Current.window, clock} :
               LET over == Over(WithSample[<<b, now>>])
                   state == Step(alerts[b], over, BreachStreak, RecoveryStreak)
               IN  /\ window' = WithSample
                   /\ alerts' = [alerts EXCEPT ![b] = state]
                   /\ alertSeen' = [alertSeen EXCEPT ![b] = Append(@, over)]
                   /\ \/ ~Crossed(alerts[b], state) /\ CheckDrift
                      \/ /\ Crossed(alerts[b], state)
                         /\ Report("alert", b, state.level)
                         /\ UNCHANGED <<topics, driftVars>>
    /\ UNCHANGED <<published, faults>>

\* The publication that the handler awaits.
Sent(kind) ==
    LET b == Current.backend
        table == IF kind = "alert" THEN alerts ELSE drifts
    IN  published' = Append(published, [kind |-> kind, backend |-> b, level |-> table[b].level])

\* alerts_topic.send returns, and the second half follows.
SendAlert ==
    /\ pc = "alert"
    /\ Sent("alert")
    /\ CheckDrift
    /\ UNCHANGED <<alertVars, faults>>

\* drift_alerts_topic.send returns; nothing is left to do.
SendDrift ==
    /\ pc = "drift"
    /\ Sent("drift")
    /\ Handled
    /\ UNCHANGED <<alertVars, driftVars, faults>>

Fault ==
    /\ faults < MaxFaults
    /\ faults' = faults + 1

\* A send raises: the agent ends and Faust starts it again, with this event or
\* the next.
SendRaises ==
    /\ pc # "idle"
    /\ Fault
    /\ pc' = "idle"
    /\ next' \in {next, next + 1}
    /\ UNCHANGED <<log, clock, committed, alertVars, driftVars, recent, published, crossings>>

\* The worker process dies and is started again: the tables come back, the feed
\* does not, and the events after the committed offset are handled again.
Crash ==
    /\ Fault
    /\ pc' = "idle"
    /\ next' = committed
    /\ recent' = <<>>
    /\ UNCHANGED <<log, clock, committed, alertVars, driftVars, published, crossings>>

Next ==
    \/ \E b \in Backends, r \in Rates : Calibrate(b, r)
    \/ Roll
    \/ Commit
    \/ Handle
    \/ SendAlert
    \/ SendDrift
    \/ SendRaises
    \/ Crash

Spec == Init /\ [][Next]_vars

--------------------------------------------------------------------------------
(* Properties.                                                                 *)

\* alerting.py:19-25: each of the two hysteresis tables is, counter by counter,
\* what the verdicts counted into it call for - across replays, restarts and
\* events that were given up half-way.
LevelsFollowHistory ==
    \A b \in Backends :
        /\ Tracks(alerts[b], alertSeen[b], BreachStreak, RecoveryStreak)
        /\ Tracks(drifts[b], driftSeen[b], DriftBreachStreak, DriftRecoveryStreak)

\* drift.py:14-16: the online update yields the mean and the variance that the
\* definitions give for the samples folded in.
BaselineIsExact ==
    \A b \in Backends : Describes(baseline[b], samples[b])

\* The three tables of the agent tell the same story as their samples.
TablesFollowHistory == LevelsFollowHistory /\ BaselineIsExact

\* After the first n of these changes, `level` is the level of one table for one
\* backend: that of its last change, and "ok" before the first.
Left(changes, kind, b, n, level) ==
    LET of(i) == changes[i].kind = kind /\ changes[i].backend = b
    IN  \/ level = "ok" /\ \A i \in 1 .. n : ~of(i)
        \/ \E i \in 1 .. n : /\ of(i) /\ changes[i].level = level
                             /\ \A k \in (i + 1) .. n : ~of(k)

\* Each change is to another level than the one before it left, and the last
\* leaves the table's.
Alternates(changes, kind, b, level) ==
    /\ Left(changes, kind, b, Len(changes), level)
    /\ \A i \in 1 .. Len(changes) :
          changes[i].kind = kind /\ changes[i].backend = b =>
              ~Left(changes, kind, b, i - 1, changes[i].level)

\* faust_app.py:41-42: every change of level is published, and nothing else.
\* What is reported alternates and ends in the level the table shows; a report
\* is missing from the topics only while it is being sent, or when a fault came
\* between the table's update and the send; without faults they are complete.
TransitionsAccounted ==
    LET sending == IF pc = "idle" THEN 0 ELSE 1
    IN  /\ \A b \in Backends : /\ Alternates(crossings, "alert", b, alerts[b].level)
                               /\ Alternates(crossings, "drift", b, drifts[b].level)
        /\ Len(crossings) - Len(published) \in sending .. faults + sending
        /\ faults = 0 => published = SubSeq(crossings, 1, Len(published))
================================================================================
