---------------------------- MODULE MCVqeTelemetry ----------------------------
(* Small instances of VqeTelemetry.                                            *)
EXTENDS VqeTelemetry, TLC

ExperimentSymmetry == Permutations(Experiments)
===============================================================================
