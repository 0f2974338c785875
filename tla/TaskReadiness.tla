--------------------------- MODULE TaskReadiness ---------------------------
(***************************************************************************)
(* Task statuses, their transition table (packages/core/src/task/          *)
(* task.service.ts) and the readiness evaluation of                        *)
(* packages/core/src/task/task-readiness.ts.                               *)
(*                                                                         *)
(* status is a function from the ids of the tasks that exist; an id        *)
(* outside its domain is a task that was deleted or never existed.         *)
(***************************************************************************)
EXTENDS Integers, FiniteSets

TaskStatus == {"pending", "in_progress", "review", "done", "blocked", "cancelled"}

AllowedTransitions ==
    [s \in TaskStatus |->
        CASE s = "pending"     -> {"in_progress", "cancelled"}
          [] s = "in_progress" -> {"review", "blocked", "cancelled"}
          [] s = "review"      -> {"done", "in_progress", "cancelled"}
          [] s = "done"        -> {}
          [] s = "blocked"     -> {"in_progress", "cancelled"}
          [] s = "cancelled"   -> {}]

\* A readiness rule asks another task to be in a given status.
RulesOver(ids) == [taskId : ids, status : TaskStatus]

\* Wrong variant: a task under review counts as completed, one done does not.
DependencyBlockers_Review(t, deps, status) ==
    {[code |-> "DEPENDENCY_NOT_DONE", taskId |-> d] :
        d \in {x \in deps : x \notin DOMAIN status \/ status[x] # "review"}}
DependencyBlockers(t, deps, status) ==
    {[code |-> "DEPENDENCY_CYCLE", taskId |-> d] : d \in deps \cap {t}}
    \cup {[code |-> "DEPENDENCY_MISSING", taskId |-> d] :
             d \in (deps \ {t}) \ DOMAIN status}
    \cup {[code |-> "DEPENDENCY_NOT_DONE", taskId |-> d] :
             d \in {x \in (deps \ {t}) \cap DOMAIN status : status[x] # "done"}}

RuleBlockers(t, rules, status) ==
    {[code |-> "RULE_CYCLE", taskId |-> r.taskId] : r \in {x \in rules : x.taskId = t}}
    \cup {[code |-> "RULE_TASK_MISSING", taskId |-> r.taskId] :
             r \in {x \in rules : x.taskId # t /\ x.taskId \notin DOMAIN status}}
    \cup {[code |-> "RULE_STATUS_MISMATCH", taskId |-> r.taskId] :
             r \in {x \in rules : /\ x.taskId # t
                                  /\ x.taskId \in DOMAIN status
                                  /\ status[x.taskId] # x.status}}

\* evaluateTaskReadiness: ready when there is no blocker.
Blockers(t, deps, rules, status) ==
    DependencyBlockers(t, deps, status) \cup RuleBlockers(t, rules, status)

IsReady(t, deps, rules, status) == Blockers(t, deps, rules, status) = {}
=============================================================================
