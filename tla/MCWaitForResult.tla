---------------------------- MODULE MCWaitForResult ----------------------------
(* Small instances of WaitForResult.                                           *)
EXTENDS WaitForResult
===============================================================================
