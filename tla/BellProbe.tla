------------------------------- MODULE BellProbe ------------------------------
(* What a calibration cycle measures (orchestrator/app/tasks/calibration.py):  *)
(* the Bell circuit, the share of its shots with odd parity, and the hook that *)
(* makes a demo see a given share.  CalibrationGate takes any outcome of it.   *)
EXTENDS Circuits

\* _build_bell_circuit.
BellCircuit == <<Gate("h", 0), CX({0}, 1)>>

\* result.counts or {}: the shots of each outcome, none when the job failed.
Count(counts, s) == IF s \in DOMAIN counts THEN counts[s] ELSE 0
Inconsistent(counts) == Count(counts, <<0, 1>>) + Count(counts, <<1, 0>>)

\* error_rate, as <<numerator, denominator>>; the rate of no shots is 0 / 1.
ErrorRate(counts) == <<Inconsistent(counts), IF Shots(counts) = 0 THEN 1 ELSE Shots(counts)>>

\* Python's round of a / b: halves go to the even neighbour.
Rounded(a, b) ==
    LET floor == a \div b
        twice == 2 * (a % b)
    IN  IF twice > b \/ (twice = b /\ floor % 2 = 1) THEN floor + 1 ELSE floor

\* Up to n of the shots of one outcome become another's.
Moved(counts, source, destination, n) ==
    LET moved == Min({Count(counts, source), n})
    IN  (destination :> Count(counts, destination) + moved)
        @@ (source :> Count(counts, source) - moved) @@ counts

\* _inject_demo_parity_errors, for the rate <<p, q>>.
InjectDemoParityErrors(counts, rate) ==
    LET target == Rounded(Shots(counts) * rate[1], rate[2])
        remaining == Max({0, target - Inconsistent(counts)})
        once == Moved(counts, <<0, 0>>, <<0, 1>>, remaining)
        left == remaining - Min({Count(counts, <<0, 0>>), remaining})
    IN  Moved(once, <<1, 1>>, <<1, 0>>, left)
===============================================================================
