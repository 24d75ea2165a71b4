----------------------------- MODULE MCTaskWorker -----------------------------
(* Small instances of TaskWorker.                                              *)
EXTENDS TaskWorker

WorkerSymmetry == Permutations(Workers)
===============================================================================
