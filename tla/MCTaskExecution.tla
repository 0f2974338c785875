-------------------------- MODULE MCTaskExecution --------------------------
(* Instances of TaskExecution for TLC.  Tasks and jobs are strings so that   *)
(* the dependencies can name them.                                           *)
EXTENDS TaskExecution

MCNoDependencies == [t \in Tasks |-> {}]

\* t2 depends on t1.
MCChain == [t \in Tasks |-> IF t = "t2" THEN {"t1"} ELSE {}]

\* An edit asks for no rule.
MCNoRuleSets == {{}}

MCNoRules == [t \in Tasks |-> {}]
=============================================================================
