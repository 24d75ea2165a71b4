---------------------------- MODULE MCCalibrationGate ----------------------------
(* Small instances of CalibrationGate, and the probe it takes its observations  *)
(* from on small counts.                                                        *)
EXTENDS CalibrationGate

Probe == INSTANCE BellProbe

\* Up to three shots of each outcome.
SomeCounts == [Probe!BitStrings(2) -> 0 .. 3]

\* The Bell state has even parity, whatever the shots.
ASSUME LET counts == Probe!Histogram(2, Probe!Evolve(2, Probe!BellCircuit))
       IN  Probe!ErrorRate(counts)[1] = 0 /\ DOMAIN counts = {<<0, 0>>, <<1, 1>>}

\* The demo hook loses no shot and moves none to even parity; there are as many
\* odd ones as asked for, or as there were.
ASSUME \A counts \in SomeCounts : \A p \in 0 .. 4 :
    LET shown == Probe!InjectDemoParityErrors(counts, <<p, 4>>)
        target == Probe!Rounded(p * Probe!Shots(counts), 4)
        odd == Probe!Inconsistent(counts)
    IN  /\ Probe!Shots(shown) = Probe!Shots(counts)
        /\ Probe!Inconsistent(shown) = IF odd > target THEN odd ELSE target

\* A probe whose job failed has no counts, and a rate that looks perfect.
ASSUME Probe!ErrorRate(<<>>) = <<0, 1>>
=================================================================================
