-------------------------- MODULE MCInMemoryQueue --------------------------
(* Instance of InMemoryQueue for TLC: one agent, two tasks and one slot for *)
(* task.execute (the option 0 is raised to 1) so that jobs wait.            *)
EXTENDS InMemoryQueue

MCOptions == [t \in JobTypes |->
                 CASE t = "agent.run"    -> 1
                   [] t = "tool.execute" -> Undefined
                   [] t = "task.execute" -> 0]
=============================================================================
