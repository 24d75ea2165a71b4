-------------------------- MODULE MCCalibrationStream --------------------------
(* Small instances of CalibrationStream.                                       *)
EXTENDS CalibrationStream
================================================================================
