----------------------- MODULE MCTaskExecutionHistory -----------------------
(* Instance of TaskExecutionHistory for TLC.                                *)
EXTENDS TaskExecutionHistory, MCTaskExecution
=============================================================================
