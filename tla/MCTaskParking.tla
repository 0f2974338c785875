---------------------------- MODULE MCTaskParking ----------------------------
(* Instance of TaskParking for TLC.                                         *)
EXTENDS TaskParking, MCTaskExecution
=============================================================================
