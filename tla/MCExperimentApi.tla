---------------------------- MODULE MCExperimentApi ----------------------------
(* Small instances of ExperimentApi and ResultIndexer.                         *)
EXTENDS ResultIndexer

===============================================================================
