------------------------------ MODULE MCPipeline ------------------------------
(* Small instances of Pipeline: MCPipeline.cfg and MCOutcome.cfg give values.  *)
EXTENDS Pipeline
===============================================================================
