--------------------------------- MODULE Drift ---------------------------------
(* The running baseline of services/stream-analytics/app/drift.py, in exact    *)
(* integers instead of floating point: `sum` is mean * count and `spread` is   *)
(* m2 * count, both integers when the samples are.                             *)
EXTENDS Integers, Sequences

\* MIN_SAMPLES_FOR_ZSCORE
MinSamples == 2

\* WelfordStats
Stats == [count : Nat, sum : Nat, spread : Nat]

NoStats == [count |-> 0, sum |-> 0, spread |-> 0]

Square(x) == x * x

\* update: with delta = x - mean and delta2 = x - the new mean, m2 grows by
\* delta * delta2, which is (count * x - sum)^2 / (count * (count + 1)).
Update(s, x) ==
    [count  |-> s.count + 1,
     sum    |-> s.sum + x,
     spread |-> IF s.count = 0 THEN 0
                ELSE ((s.count + 1) * s.spread + Square(s.count * x - s.sum)) \div s.count]

\* zscore returns None: too few samples, or all of them equal.
NoZscore(s) == s.count < MinSamples \/ s.spread = 0

\* abs(zscore) > limit, cleared of its denominators: the variance is
\* spread / (count * (count - 1)).
Deviates(s, x, limit) ==
    Square(s.count * x - s.sum) * (s.count - 1) > Square(limit) * s.count * s.spread

--------------------------------------------------------------------------------
(* The reference: mean and variance by their definitions.                      *)

\* The sums of the first k values.
Sums(values) ==
    LET sum[k \in 0 .. Len(values)] == IF k = 0 THEN 0 ELSE sum[k - 1] + values[k]
    IN  sum

Total(values) == Sums(values)[Len(values)]

\* The statistics are those of the samples: `spread` is the sum of the squared
\* deviations from the mean, times the count.
Describes(s, samples) ==
    LET n == Len(samples)
        mean == Total(samples)  \* n times the mean
        squares == [i \in DOMAIN samples |-> Square(n * samples[i] - mean)]
    IN  /\ s.count = n
        /\ s.sum = mean
        /\ s.spread * n = Total(squares)
================================================================================
