-------------------------------- MODULE Alerting --------------------------------
(* Alert hysteresis: the pure state machine of                                 *)
(* services/stream-analytics/app/alerting.py, which both alert tables of       *)
(* faust_app.py drive, and what it promises about the samples it was shown.    *)
EXTENDS Naturals, Sequences

Level == {"ok", "alert"}

\* AlertState.  A sample is represented by `over`: does it exceed the threshold?
AlertState == [level : Level, breaches : Nat, oks : Nat]

Unalerted == [level |-> "ok", breaches |-> 0, oks |-> 0]

\* A plausible slip: a breach does not interrupt the recovery streak.
StepSticky(s, over, breachStreak, recoveryStreak) ==
    IF over
    THEN LET n == s.breaches + 1
         IN  [s EXCEPT !.breaches = n, !.level = IF n >= breachStreak THEN "alert" ELSE @]
    ELSE LET n == s.oks + 1
         IN  [level |-> IF n >= recoveryStreak THEN "ok" ELSE s.level,
              breaches |-> 0, oks |-> n]

\* step: the level changes once the streak against it is long enough; every
\* sample ends the opposite streak.
Step(s, over, breachStreak, recoveryStreak) ==
    IF over
    THEN LET n == s.breaches + 1
         IN  [level |-> IF n >= breachStreak THEN "alert" ELSE s.level,
              breaches |-> n, oks |-> 0]
    ELSE LET n == s.oks + 1
         IN  [level |-> IF n >= recoveryStreak THEN "ok" ELSE s.level,
              breaches |-> 0, oks |-> n]

\* A plausible slip: every sample above the threshold counts as a crossing.
CrossedAgain(s, next) == next.level = "alert" \/ s.level # next.level

\* An AlertTransition is returned on a change of level only.
Crossed(s, next) == s.level # next.level

--------------------------------------------------------------------------------
(* The reference: which level a sequence of verdicts calls for, and the        *)
(* streaks it ends in, without the counters.                                   *)

\* `n` samples up to the i-th one all had verdict v.
Run(seen, v, n, i) == \A j \in (i - n + 1) .. i : seen[j] = v

\* The run of v that `seen` ends in has length n.
TrailingRun(seen, v, n) ==
    /\ n \in 0 .. Len(seen)
    /\ Run(seen, v, n, Len(seen))
    /\ n < Len(seen) => seen[Len(seen) - n] # v

\* There was a full run of breaches, and no full run of good samples since.
Alerted(seen, breachStreak, recoveryStreak) ==
    \E i \in breachStreak .. Len(seen) :
        /\ Run(seen, TRUE, breachStreak, i)
        /\ \A k \in (i + recoveryStreak) .. Len(seen) : ~Run(seen, FALSE, recoveryStreak, k)

\* The state is the one the samples call for.
Tracks(s, seen, breachStreak, recoveryStreak) ==
    /\ TrailingRun(seen, TRUE, s.breaches)
    /\ TrailingRun(seen, FALSE, s.oks)
    /\ s.level = IF Alerted(seen, breachStreak, recoveryStreak) THEN "alert" ELSE "ok"
================================================================================
