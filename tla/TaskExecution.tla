--------------------------- MODULE TaskExecution ---------------------------
(***************************************************************************)
(* How tasks of one agent are executed while other actors change them.     *)
(*                                                                         *)
(*   jobs      task.execute jobs run by TaskExecutionCoordinator           *)
(*             (apps/server/src/runtime/task-execution.coordinator.ts):    *)
(*             the batch job of the agent, and one job per dispatched task;*)
(*   humans    POST /tasks/:id/status and PATCH /tasks/:id                 *)
(*             (apps/server/src/modules/task/task.controller.ts);          *)
(*   deciders  POST /approvals/:id/decision                                *)
(*             (apps/server/src/modules/approval/approval.controller.ts);  *)
(*   answers   POST /inbox/:id/clarification and /request-change           *)
(*             (apps/server/src/modules/inbox/inbox.controller.ts).        *)
(*                                                                         *)
(* All share one Node process and meet only at awaits.  An action is the   *)
(* stretch of code around one repository access; what an actor read before *)
(* its await is kept in its record and used after it, as in the code.      *)
(* Which jobs may be live at once is what the queue promises (see          *)
(* ExecutionRequests): each job once, at most Slots together.  Tasks,      *)
(* sessions, approvals and inbox messages are rows of the database and     *)
(* outlive a restart of the process; jobs and requests do not.  How tasks  *)
(* are created and deleted is in TaskBoard; here they are there to stay.   *)
(***************************************************************************)
EXTENDS TaskReadiness

CONSTANTS
    Tasks,        \* tasks assigned to the agent
    Batch,        \* the job without a taskId
    Jobs,         \* the jobs that may be enqueued: Batch and task ids
    Humans,       \* concurrent requests changing a task
    Deciders,     \* concurrent requests deciding an approval
    ApprovalIds,  \* bound: approval requests that may be created
    NoTask,       \* the absent task
    DependsOn,    \* dependsOnTaskIds of each task at first
    Rules,        \* readinessRules of each task at first
    RuleSets,     \* bound: the readinessRules an edit may ask for
    Slots,        \* task.execute concurrency of the queue
    MaxRounds,    \* bound: tool calls in one run (12 rounds in the code)
    Callable,     \* bound: the tools agents call, and the routes people call
    Edited,       \* bound: the tasks whose needs they edit
    Targets,      \* bound: the statuses they ask for
    Faults        \* which failures happen, see FaultKinds

FaultKinds == {"no_adapter",  \* no AI adapter is configured for the agent
               "job",         \* a repository write of the coordinator fails
               "call",        \* a call of approval.request is refused
               "action",      \* executeApprovedAction throws
               "crash"}       \* the process is restarted

ASSUME ExecutionAssumption ==
    /\ Batch \notin Tasks /\ NoTask \notin Tasks
    /\ Jobs \subseteq Tasks \cup {Batch} /\ Jobs \cap Humans = {}
    /\ DependsOn \in [Tasks -> SUBSET Tasks]
    /\ Rules \in [Tasks -> SUBSET RulesOver(Tasks)]
    /\ RuleSets \subseteq SUBSET RulesOver(Tasks)
    /\ Slots \in Nat \ {0} /\ MaxRounds \in Nat
    /\ Faults \subseteq FaultKinds

VARIABLES
    status,     \* tasks: the status stored in the task repository
    needs,      \* tasks: the dependencies and readiness rules stored there
    session,    \* tasks: the status of the stored session checkpoint
    approvals,  \* approval requests: state and the task they name
    inbox,      \* tasks: the question asked in the inbox about the task
    job,        \* jobs: where the job's coroutine is, and what it holds
    queued,     \* the jobs that wait in the queue
    human,      \* requests that change a task
    edit,       \* jobs and humans: what the edit in progress is to store
    decider     \* decision requests in progress

vars == <<status, needs, session, approvals, inbox, job, queued, human, edit, decider>>

SessionStatus ==
    {"none", "active", "waiting_for_approval", "waiting_for_input", "completed"}

Waiting == {"waiting_for_approval", "waiting_for_input"}

JobPc == {"idle", "list", "pick", "check", "load", "create", "loop", "write",
          "edit", "save", "audit", "settle", "fallback", "fallbackWrite", "escalate",
          "next", "finish"}

\* Where a job is executing its task.
Executing == JobPc \ {"idle", "list", "pick", "check", "next", "finish"}

IdleJob == [pc |-> "idle", task |-> NoTask, found |-> {}, executed |-> {},
            tools |-> {}, rounds |-> 0, to |-> "pending"]

\* The coordinator has returned or thrown; the handler is not at its end.
ReturnedJob == [IdleJob EXCEPT !.pc = "finish"]

IdleRequest == [pc |-> "idle", task |-> NoTask, to |-> "pending"]

NoEdit == [task |-> NoTask, needs |-> [deps |-> {}, rules |-> {}]]

IdleDecider == [pc |-> "idle", approval |-> "none", verdict |-> "approved"]

Actionable == {"pending", "in_progress"}

Ready(t) == IsReady(t, needs[t].deps, needs[t].rules, status)

Runs(j, t) == job[j].task = t /\ job[j].pc \in Executing

\* A decision on an approval of t has been stored and is being carried out.
DecisionInProgress(t) ==
    \E d \in Deciders : /\ decider[d].pc \notin {"idle", "update"}
                        /\ approvals[decider[d].approval].task = t

Init ==
    /\ status \in [Tasks -> {"pending", "in_progress", "done"}]
    /\ needs = [t \in Tasks |-> [deps |-> DependsOn[t], rules |-> Rules[t]]]
    /\ session = [t \in Tasks |-> "none"]
    /\ approvals = [a \in ApprovalIds |-> [state |-> "none", task |-> NoTask]]
    /\ inbox = [t \in Tasks |-> "none"]
    /\ job = [j \in Jobs |-> IdleJob]
    /\ queued = {}
    /\ human = [h \in Humans |-> IdleRequest]
    /\ edit = [x \in Jobs \cup Humans |-> NoEdit]
    /\ decider = [d \in Deciders |-> IdleDecider]

-----------------------------------------------------------------------------
(* updateTaskStatus: read and test, then write after the await.             *)

MayBecome(t, to) == to \in AllowedTransitions[status[t]]

Write(t, to) == status' = [status EXCEPT ![t] = to]

(* updateTask: likewise, the row is read and what it needs is written after *)
(* the await.                                                               *)

\* What an edit of t may store: dependencies and rules that do not name t.  An
\* edit that asks for none stores what it has read.
EditsOf(t) ==
    {n \in [deps : SUBSET Tasks, rules : RuleSets \cup {needs[t].rules}] :
        t \notin n.deps /\ \A r \in n.rules : r.taskId # t}

ReadEdit(x, t) == \E n \in EditsOf(t) : edit' = [edit EXCEPT ![x] = [task |-> t, needs |-> n]]

WriteEdit(x) ==
    /\ needs' = [needs EXCEPT ![edit[x].task] = edit[x].needs]
    /\ edit' = [edit EXCEPT ![x] = NoEdit]

-----------------------------------------------------------------------------
(* Jobs: selection of a task                                                *)

Live == {j \in Jobs : job[j].pc # "idle"}

At(j, pc) == job[j].pc = pc

Goto(j, pc) == job' = [job EXCEPT ![j].pc = pc]

Rows == <<status, needs, session, approvals, inbox>>

Requesters == <<human, decider>>

\* What most steps of a job leave alone.
Others == <<needs, inbox, queued, human, edit, decider>>

\* enqueue() drops a job that waits already or runs.
Enqueued(j) == IF j \in Jobs /\ At(j, "idle") THEN queued \cup {j} ELSE queued

\* task.dispatch, which an agent calls in its heartbeat or in a chat.
Dispatch(t) ==
    /\ Ready(t)
    /\ queued' = Enqueued(t)
    /\ UNCHANGED <<Rows, job, edit, Requesters>>

\* A route creates, edits or moves another task of the agent, one that is ready.
CallAgent ==
    /\ queued' = Enqueued(Batch)
    /\ UNCHANGED <<Rows, job, edit, Requesters>>

\* The queue starts the job.
StartJob(j) ==
    /\ j \in queued
    /\ Cardinality(Live) < Slots
    /\ queued' = queued \ {j}
    /\ Goto(j, IF j = Batch THEN "list" ELSE "check")
    /\ UNCHANGED <<Rows, edit, Requesters>>

\* The coordinator is done with the job; its handler has its records to write.
Return(j) == job' = [job EXCEPT ![j] = ReturnedJob]

FinishJob(j) ==
    /\ At(j, "finish")
    /\ job' = [job EXCEPT ![j] = IdleJob]
    /\ UNCHANGED <<status, session, approvals, Others>>

\* Wrong variant: tasks whose dependencies are open are listed.
Selectable_NotReady(j) ==
    {t \in Tasks : status[t] \in Actionable /\ t \notin job[j].executed}

Selectable(j) ==
    {t \in Tasks : /\ status[t] \in Actionable
                   /\ t \notin job[j].executed
                   /\ Ready(t)}

\* selectNextTask up to its first await.
List(j) ==
    /\ At(j, "list")
    /\ IF Selectable(j) = {}
       THEN Return(j)
       ELSE job' = [job EXCEPT ![j].pc = "pick", ![j].found = Selectable(j)]
    /\ UNCHANGED <<status, session, approvals, Others>>

\* Wrong variant: an approval that was granted keeps the task waiting.
Candidates_ActiveWaits(j) ==
    {t \in job[j].found : session[t] \notin Waiting \cup {"active"}}

\* filterWaitingTasks reads the sessions of the tasks found.
Candidates(j) == {t \in job[j].found : session[t] \notin Waiting}

\* Priority and age order the candidates; here any of them may be first.
Pick(j) ==
    /\ At(j, "pick")
    /\ IF Candidates(j) = {}
       THEN Return(j)
       ELSE \E t \in Candidates(j) :
               job' = [job EXCEPT ![j].pc = "load", ![j].task = t, ![j].found = {},
                                  ![j].executed = @ \cup {t},
                                  ![j].tools = {}, ![j].rounds = 0]
    /\ UNCHANGED <<status, session, approvals, Others>>

\* executeTask: a dispatched task must be actionable and ready; its session
\* is not looked at.
Check(j) ==
    /\ At(j, "check")
    /\ IF status[j] \in Actionable /\ Ready(j)
       THEN job' = [job EXCEPT ![j].pc = "load", ![j].task = j,
                               ![j].tools = {}, ![j].rounds = 0]
       ELSE Return(j)
    /\ UNCHANGED <<status, session, approvals, Others>>

-----------------------------------------------------------------------------
(* Jobs: one run of a task                                                  *)

LoadSession(j) ==
    /\ At(j, "load")
    /\ Goto(j, IF session[job[j].task] = "none" THEN "create" ELSE "loop")
    /\ UNCHANGED <<status, session, approvals, Others>>

CreateSession(j) ==
    /\ At(j, "create")
    /\ session' = [session EXCEPT ![job[j].task] = "active"]
    /\ Goto(j, "loop")
    /\ UNCHANGED <<status, approvals, Others>>

\* No adapter is configured: the run is skipped and the job ends.
SkipRun(j) ==
    /\ "no_adapter" \in Faults
    /\ At(j, "loop") /\ job[j].rounds = 0
    /\ Return(j)
    /\ UNCHANGED <<status, session, approvals, Others>>

\* Wrong variant: one round too many.
InLoop_OneMore(j) == At(j, "loop") /\ job[j].rounds <= MaxRounds

InLoop(j) == At(j, "loop") /\ job[j].rounds < MaxRounds

Calling(j, tool) == InLoop(j) /\ tool \in Callable

UsesTool(j, tool, pc) ==
    job' = [job EXCEPT ![j].rounds = @ + 1, ![j].tools = @ \cup {tool}, ![j].pc = pc]

\* The agent calls task.update-status on its task; a refused transition or
\* the current status changes nothing.
ToolUpdateStatus(j) ==
    /\ Calling(j, "task.update-status")
    /\ \E to \in TaskStatus \cap Targets :
          /\ MayBecome(job[j].task, to)
          /\ job' = [job EXCEPT ![j].rounds = @ + 1, ![j].pc = "write", ![j].to = to]
    /\ UNCHANGED <<status, session, approvals, Others>>

ToolWrite(j) ==
    /\ At(j, "write")
    /\ Write(job[j].task, job[j].to)
    /\ job' = [job EXCEPT ![j].pc = "loop", ![j].to = IdleJob.to]
    /\ UNCHANGED <<session, approvals, Others>>

\* The agent calls task.update, on any task.
ToolUpdateTask(j) ==
    /\ Calling(j, "task.update")
    /\ \E t \in Tasks \cap Edited : ReadEdit(j, t)
    /\ job' = [job EXCEPT ![j].rounds = @ + 1, ![j].pc = "edit"]
    /\ UNCHANGED <<status, needs, session, approvals, inbox, queued, Requesters>>

ToolEdit(j) ==
    /\ At(j, "edit")
    /\ WriteEdit(j)
    /\ Goto(j, "loop")
    /\ UNCHANGED <<status, session, approvals, inbox, queued, Requesters>>

\* The agent calls approval.request naming its task.
ToolRequestApproval(j) ==
    /\ Calling(j, "approval.request")
    /\ \E a \in ApprovalIds :
          /\ approvals[a].state = "none"
          /\ approvals' = [approvals EXCEPT ![a] = [state |-> "pending",
                                                   task  |-> job[j].task]]
    /\ UsesTool(j, "approval.request", "loop")
    /\ UNCHANGED <<status, session, Others>>

\* The call is refused (a missing field, a service that fails), or names no
\* task: nothing asks for a decision on this task, and the tool counts as used.
ToolRequestRefused(j) ==
    /\ "call" \in Faults
    /\ Calling(j, "approval.request")
    /\ UsesTool(j, "approval.request", "loop")
    /\ UNCHANGED <<status, session, approvals, Others>>

ToolSendInbox(j) ==
    /\ Calling(j, "inbox.send")
    /\ UsesTool(j, "inbox.send", "loop")
    /\ UNCHANGED <<status, session, approvals, Others>>

\* The loop returns or throws; either way the checkpoint is written next.
EndLoop(j) ==
    /\ At(j, "loop")
    /\ job' = [job EXCEPT ![j].pc = "save", ![j].rounds = 0]
    /\ UNCHANGED <<status, session, approvals, Others>>

ResolveSessionStatus(tools) ==
    IF "approval.request" \in tools THEN "waiting_for_approval"
    ELSE IF "inbox.send" \in tools THEN "waiting_for_input"
    ELSE "completed"

\* sessionStore.save(updatedSession): the status follows from the tools used
\* in this run, whatever the stored checkpoint has become meanwhile.
SaveSession(j) ==
    LET result == ResolveSessionStatus(job[j].tools) IN
    /\ At(j, "save")
    /\ session' = [session EXCEPT ![job[j].task] = result]
    /\ Goto(j, "audit")
    /\ UNCHANGED <<status, approvals, Others>>

AfterAudit(result) ==
    CASE result = "completed"         -> "settle"
      [] result = "waiting_for_input" -> "escalate"
      [] OTHER                        -> "next"

\* The audit record is written; what follows depends on the tools used, which
\* matter no longer then.
Audit(j) ==
    /\ At(j, "audit")
    /\ job' = [job EXCEPT ![j].pc = AfterAudit(ResolveSessionStatus(job[j].tools)),
                          ![j].tools = {}]
    /\ UNCHANGED <<status, session, approvals, Others>>

\* handleInfoEscalation puts the question into the inbox.
Escalate(j) ==
    /\ At(j, "escalate")
    /\ inbox' = [inbox EXCEPT ![job[j].task] = "open"]
    /\ Goto(j, "next")
    /\ UNCHANGED <<status, needs, session, approvals, queued, human, edit, decider>>

\* getTask after a completed session.
Settle(j) ==
    /\ At(j, "settle")
    /\ Goto(j, IF status[job[j].task] = "in_progress" THEN "fallback" ELSE "next")
    /\ UNCHANGED <<status, session, approvals, Others>>

\* Wrong variant: the status is written without a look at the table.
Fallback_Unchecked(j) ==
    /\ At(j, "fallback")
    /\ Goto(j, "fallbackWrite")
    /\ UNCHANGED <<status, session, approvals, Others>>

\* updateTaskStatus(task, 'done') reads the status again; a refusal is
\* swallowed by .catch().
Fallback(j) ==
    /\ At(j, "fallback")
    /\ Goto(j, IF MayBecome(job[j].task, "done") THEN "fallbackWrite" ELSE "next")
    /\ UNCHANGED <<status, session, approvals, Others>>

FallbackWrite(j) ==
    /\ At(j, "fallbackWrite")
    /\ Write(job[j].task, "done")
    /\ Goto(j, "next")
    /\ UNCHANGED <<session, approvals, Others>>

\* The run is over: a batch looks for the next task.
EndRun(j) ==
    /\ At(j, "next")
    /\ job' = [job EXCEPT ![j] =
                  IF j = Batch THEN [IdleJob EXCEPT !.pc = "list",
                                                    !.executed = job[j].executed]
                  ELSE ReturnedJob]
    /\ UNCHANGED <<status, session, approvals, Others>>

\* A write outside the agent loop fails (session, audit, inbox): the error
\* leaves the coordinator and the job is failed.
FailJob(j) ==
    /\ "job" \in Faults
    /\ job[j].pc \in {"create", "save", "audit", "escalate"}
    /\ Return(j)
    /\ UNCHANGED <<status, session, approvals, Others>>

JobStep(j) ==
    \/ List(j) \/ Pick(j) \/ Check(j) \/ LoadSession(j) \/ CreateSession(j)
    \/ SkipRun(j) \/ ToolUpdateStatus(j) \/ ToolWrite(j)
    \/ ToolUpdateTask(j) \/ ToolEdit(j)
    \/ ToolRequestApproval(j) \/ ToolRequestRefused(j) \/ ToolSendInbox(j)
    \/ EndLoop(j) \/ SaveSession(j) \/ Audit(j) \/ Settle(j) \/ Fallback(j)
    \/ FallbackWrite(j) \/ Escalate(j) \/ EndRun(j) \/ FailJob(j)
    \/ FinishJob(j)

-----------------------------------------------------------------------------
(* Humans: POST /tasks/:id/status and PATCH /tasks/:id                      *)

HumanAt(h, pc) == human[h].pc = pc

\* A status the task has already is not written, but the agent is called.
HumanRead(h) ==
    /\ HumanAt(h, "idle") /\ "POST /tasks/:id/status" \in Callable
    /\ \E t \in Tasks, to \in TaskStatus \cap Targets :
          /\ MayBecome(t, to) \/ (status[t] = to /\ to \in Actionable)
          /\ human' = [human EXCEPT ![h] = [pc |-> IF status[t] = to THEN "wake" ELSE "write",
                                            task |-> t, to |-> to]]
    /\ UNCHANGED <<Rows, job, queued, edit, decider>>

\* The agent is called for a status to work on, unless the audit record fails
\* or the change is one of several (POST /tasks/bulk/update).
HumanWrite(h) ==
    /\ HumanAt(h, "write")
    /\ Write(human[h].task, human[h].to)
    /\ \/ human' = [human EXCEPT ![h] = IdleRequest]
       \/ human[h].to \in Actionable /\ human' = [human EXCEPT ![h].pc = "wake"]
    /\ UNCHANGED <<needs, session, approvals, inbox, job, queued, edit, decider>>

HumanReadEdit(h) ==
    /\ HumanAt(h, "idle") /\ "PATCH /tasks/:id" \in Callable
    /\ \E t \in Tasks \cap Edited :
          /\ ReadEdit(h, t)
          /\ human' = [human EXCEPT ![h] = [IdleRequest EXCEPT !.pc = "edit", !.task = t]]
    /\ UNCHANGED <<Rows, job, queued, decider>>

HumanEdit(h) ==
    /\ HumanAt(h, "edit")
    /\ WriteEdit(h)
    /\ \/ human' = [human EXCEPT ![h] = IdleRequest]
       \/ human' = [human EXCEPT ![h].pc = "wake"]
    /\ UNCHANGED <<status, session, approvals, inbox, job, queued, decider>>

\* enqueueTaskExecutionIfReady: the batch of the agent, for a task that is ready.
HumanWake(h) ==
    /\ HumanAt(h, "wake")
    /\ queued' = IF Ready(human[h].task) THEN Enqueued(Batch) ELSE queued
    /\ human' = [human EXCEPT ![h] = IdleRequest]
    /\ UNCHANGED <<Rows, job, edit, decider>>

HumanStep(h) == HumanWrite(h) \/ HumanEdit(h) \/ HumanWake(h)

-----------------------------------------------------------------------------
(* Deciders: POST /approvals/:id/decision                                   *)

Named(d) == approvals[decider[d].approval].task

\* What is neither a row nor a decision.
Workers == <<job, queued, human, edit>>

DecideAt(d, pc) == decider[d].pc = pc

DecideGoto(d, pc) == decider' = [decider EXCEPT ![d].pc = pc]

\* decideApproval reads the request and tests that it is pending.
FindApproval(d) ==
    /\ DecideAt(d, "idle")
    /\ \E a \in ApprovalIds, v \in {"approved", "rejected"} :
          /\ approvals[a].state = "pending"
          /\ decider' = [decider EXCEPT
                            ![d] = [pc |-> "update", approval |-> a, verdict |-> v]]
    /\ UNCHANGED <<Rows, Workers>>

\* Wrong variant: a rejection is stored and nothing else is done.
UpdateApproval_RejectEnds(d) ==
    /\ DecideAt(d, "update")
    /\ approvals' = [approvals EXCEPT ![decider[d].approval].state = decider[d].verdict]
    /\ decider' = IF decider[d].verdict = "approved"
                   THEN [decider EXCEPT ![d].pc = "unblock"]
                   ELSE [decider EXCEPT ![d] = IdleDecider]
    /\ UNCHANGED <<status, needs, session, inbox, Workers>>

UpdateApproval(d) ==
    /\ DecideAt(d, "update")
    /\ approvals' = [approvals EXCEPT ![decider[d].approval].state = decider[d].verdict]
    /\ DecideGoto(d, IF decider[d].verdict = "approved" THEN "unblock" ELSE "checkpoint")
    /\ UNCHANGED <<status, needs, session, inbox, Workers>>

\* executeApprovedAction throws: the request fails after the decision was
\* stored, and what follows is not done.
ExecutionFails(d) ==
    /\ "action" \in Faults
    /\ DecideAt(d, "unblock")
    /\ decider' = [decider EXCEPT ![d] = IdleDecider]
    /\ UNCHANGED <<Rows, Workers>>

\* A granted approval of a blocked task starts the transition to in_progress.
ReadBlocked(d) ==
    /\ DecideAt(d, "unblock")
    /\ DecideGoto(d, IF status[Named(d)] = "blocked" THEN "transition" ELSE "checkpoint")
    /\ UNCHANGED <<Rows, Workers>>

ReadTransition(d) ==
    /\ DecideAt(d, "transition")
    /\ DecideGoto(d, IF MayBecome(Named(d), "in_progress") THEN "write" ELSE "checkpoint")
    /\ UNCHANGED <<Rows, Workers>>

Unblock(d) ==
    /\ DecideAt(d, "write")
    /\ Write(Named(d), "in_progress")
    /\ DecideGoto(d, "checkpoint")
    /\ UNCHANGED <<needs, session, approvals, inbox, Workers>>

DecisionStatus(verdict) ==
    IF verdict = "approved" THEN "active" ELSE "waiting_for_input"

\* appendApprovalDecisionCheckpoint: every field of the session the model
\* keeps is overwritten, so its load and save are one step.
DecisionCheckpoint(d) ==
    /\ DecideAt(d, "checkpoint")
    /\ session' = [session EXCEPT ![Named(d)] = DecisionStatus(decider[d].verdict)]
    /\ decider' = [decider EXCEPT ![d] = IdleDecider]
    /\ UNCHANGED <<status, needs, approvals, inbox, Workers>>

DeciderStep(d) ==
    \/ UpdateApproval(d) \/ ExecutionFails(d) \/ ReadBlocked(d)
    \/ ReadTransition(d) \/ Unblock(d) \/ DecisionCheckpoint(d)

-----------------------------------------------------------------------------
(* Answers in the inbox, and restarts                                       *)

\* The founder answers: the message gets the answer and is archived.
Answer(t) ==
    /\ inbox[t] = "open"
    /\ inbox' = [inbox EXCEPT ![t] = "answered"]
    /\ UNCHANGED <<status, needs, session, approvals, Workers, decider>>

\* The process stops and starts again: coroutines and queue are lost.
Crash ==
    /\ "crash" \in Faults
    /\ job' = [j \in Jobs |-> IdleJob]
    /\ queued' = {}
    /\ human' = [h \in Humans |-> IdleRequest]
    /\ edit' = [x \in Jobs \cup Humans |-> NoEdit]
    /\ decider' = [d \in Deciders |-> IdleDecider]
    /\ UNCHANGED Rows

Next ==
    \/ \E j \in Jobs : StartJob(j) \/ JobStep(j)
    \/ \E h \in Humans : HumanRead(h) \/ HumanReadEdit(h) \/ HumanStep(h)
    \/ \E d \in Deciders : FindApproval(d) \/ DeciderStep(d)
    \/ \E t \in Tasks : Answer(t) \/ Dispatch(t)
    \/ CallAgent
    \/ Crash

Spec == Init /\ [][Next]_vars

-----------------------------------------------------------------------------
(* Fairness: a coroutine that can go on does so (every await of the code is *)
(* answered or rejected), and the queue starts a job that waits in it       *)
(* (InMemoryQueue, EveryJobFinishes).  Nothing obliges anybody to enqueue   *)
(* one: to change a status, to edit, to dispatch, to decide or to answer.   *)

Fairness ==
    /\ \A j \in Jobs : WF_vars(JobStep(j)) /\ WF_vars(StartJob(j))
    /\ \A h \in Humans : WF_vars(HumanStep(h))
    /\ \A d \in Deciders : WF_vars(DeciderStep(d))

FairSpec == Spec /\ Fairness

-----------------------------------------------------------------------------
(* Properties the code has                                                  *)

JobState == [pc : JobPc, task : Tasks \cup {NoTask}, found : SUBSET Tasks,
             executed : SUBSET Tasks,
             tools : SUBSET {"approval.request", "inbox.send"},
             rounds : 0..MaxRounds, to : TaskStatus]

HumanState == [pc : {"idle", "write", "edit", "wake"}, task : Tasks \cup {NoTask},
               to : TaskStatus]

Needs == [deps : SUBSET Tasks, rules : SUBSET RulesOver(Tasks)]

DeciderState == [pc : {"idle", "update", "unblock", "transition", "write", "checkpoint"},
                 approval : ApprovalIds \cup {"none"}, verdict : {"approved", "rejected"}]

\* Types; a job holds a task exactly while it runs one, and does not wait while
\* it runs.
TypeOK ==
    /\ status \in [Tasks -> TaskStatus]
    /\ needs \in [Tasks -> Needs]
    /\ session \in [Tasks -> SessionStatus]
    /\ approvals \in [ApprovalIds -> [state : {"none", "pending", "approved", "rejected"},
                                      task  : Tasks \cup {NoTask}]]
    /\ inbox \in [Tasks -> {"none", "open", "answered"}]
    /\ job \in [Jobs -> JobState]
    /\ queued \subseteq {j \in Jobs : job[j].pc = "idle"}
    /\ human \in [Humans -> HumanState]
    /\ edit \in [Jobs \cup Humans -> [task : Tasks \cup {NoTask}, needs : Needs]]
    /\ decider \in [Deciders -> DeciderState]
    /\ \A j \in Jobs : job[j].task # NoTask <=> job[j].pc \in Executing \cup {"next"}

Runnable(t) == status[t] \in Actionable /\ Ready(t) /\ session[t] \notin Waiting

\* A batch that was enqueued runs every task that is to be worked on, is ready
\* and waits for nobody, unless the task stops being so first: the batch looks
\* at the tasks again after each run, and a decision, an edit or a status may
\* have changed them meanwhile (executeForAgent, selectNextTask,
\* filterWaitingTasks).
BatchReachesTasks ==
    \A t \in Tasks :
        Batch \in queued /\ Runnable(t) ~> (~Runnable(t) \/ \E j \in Jobs : Runs(j, t))
=============================================================================
