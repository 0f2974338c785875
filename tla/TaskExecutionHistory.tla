------------------------ MODULE TaskExecutionHistory ------------------------
(***************************************************************************)
(* TaskExecution with history variables.  They only record; every behaviour*)
(* of TaskExecution is one of this module.                                 *)
(***************************************************************************)
EXTENDS TaskExecution

VARIABLES
    undone,     \* tasks that were done and are no more
    raced,      \* tasks that two writers have tested together
    overtaken   \* jobs with a task that came to need an open task meanwhile

hvars == <<vars, undone, raced, overtaken>>

HInit == Init /\ undone = {} /\ raced = {} /\ overtaken = {}

\* The job has selected the task, or runs it.
Holds(j, t) == t \in Tasks /\ t \in job[j].found \cup {job[j].task}

\* An edit of t adds a dependency that is not done.
Opens(t) == \E u \in needs'[t].deps \ needs[t].deps : status[u] # "done"

\* The writers that have tested a move of t and have yet to write it.
Movers(t) ==
    {"job"} \X {j \in Jobs : job[j].task = t /\ job[j].pc \in {"write", "fallbackWrite"}}
    \cup {"human"} \X {h \in Humans : human[h].pc = "write" /\ human[h].task = t}
    \cup {"decider"} \X {d \in Deciders : DecideAt(d, "write") /\ Named(d) = t}

\* Recorded when the second one has made its test.
HNext ==
    /\ Next
    /\ undone' = undone \cup {t \in Tasks : status[t] = "done" /\ status'[t] # "done"}
    /\ raced' = raced \cup {t \in Tasks : \E x, y \in Movers(t)' : x # y}
    /\ overtaken' = {x \in Jobs \X Tasks : /\ Holds(x[1], x[2])'
                                           /\ x \in overtaken \/ Opens(x[2])}

HSpec == HInit /\ [][HNext]_hvars

HFairSpec == HSpec /\ Fairness

\* No run starts or goes on before every task its task depends on is done,
\* although readiness is read when the task is selected and the run begins
\* awaits later (selectNextTask, executeTask, runTaskForAgent), unless the task
\* was given an open dependency since it was selected (PATCH /tasks/:id,
\* task.update) or a dependency was reopened, which takes a write that raced
\* with the one to 'done': no transition leaves 'done'.
DependenciesDone ==
    \A j \in Jobs, t \in Tasks :
        Runs(j, t) /\ <<j, t>> \notin overtaken =>
            \A u \in needs[t].deps : status[u] = "done" \/ u \in undone

\* A status changes by the transition table, whoever changes it - a tool, the
\* fallback, the status route or an approval -, unless two of them have tested
\* their moves of the task at the same time (updateTaskStatus tests before an
\* await and writes after it).
MovesLegallyAlone ==
    [][\A t \in Tasks :
           \/ status'[t] = status[t]
           \/ status'[t] \in AllowedTransitions[status[t]]
           \/ t \in raced]_hvars
=============================================================================
