------------------------- MODULE TaskExecutionProofs -------------------------
(***************************************************************************)
(* Proofs about task execution and its two modules with histories, for any *)
(* tasks, dependencies, rules, jobs, people, deciders and failures.        *)
(*                                                                         *)
(* The coroutines share nothing but the rows, so each argument says what a *)
(* coroutine relies on while it waits: a job on the readiness it tested    *)
(* (ReadinessKept), a writer on the transition it tested (TestsHold), and  *)
(* whoever waits for an answer on somebody who was asked (Asked).          *)
(*                                                                         *)
(* Last, the board those tasks are on (TaskBoard), for any requests and    *)
(* any finite board: an edit relies on the row it has read (EditSound),    *)
(* and a ready task on the request about to call its agent (ReadyIsSeen).  *)
(***************************************************************************)
EXTENDS TaskParking, TaskExecutionHistory, TaskBoard, FiniteSetTheorems, WellFoundedInduction, TLAPS

(* The invariants *)

\* Stages of a run in which tools are remembered.
InRun == {"loop", "write", "edit", "save", "audit"}

JobsSound ==
    \A j \in Jobs : /\ job[j].pc = "check" => j \in Tasks
                    /\ job[j].pc \notin InRun => job[j].tools = {}

\* Requests for approval name a task, and are there while one decides.
ApprovalsSound ==
    /\ \A a \in ApprovalIds : approvals[a].state # "none" => approvals[a].task \in Tasks
    /\ \A d \in Deciders : decider[d].pc # "idle" =>
          /\ decider[d].approval \in ApprovalIds
          /\ approvals[decider[d].approval].state # "none"

IInv ==
    /\ TypeOK
    /\ JobsSound
    /\ ApprovalsSound

\* What was ready when it was selected depends on tasks that are done, or
\* were, or it was given others since.
ReadinessKept ==
    \A j \in Jobs : \A t : Holds(j, t) /\ <<j, t>> \notin overtaken =>
        \A u \in needs[t].deps : status[u] = "done" \/ u \in undone

\* The test a writer of a status made still holds, unless another one has
\* tested too; and that is recorded.
TestsHold ==
    \A t \in Tasks \ raced :
        /\ \A x, y \in Movers(t) : x = y
        /\ \A j \in Jobs : job[j].task = t /\ job[j].pc = "write" => MayBecome(t, job[j].to)
        /\ \A j \in Jobs : job[j].task = t /\ job[j].pc = "fallbackWrite" => MayBecome(t, "done")
        /\ \A h \in Humans : human[h].task = t /\ human[h].pc = "write" => MayBecome(t, human[h].to)
        /\ \A d \in Deciders : decider[d].pc = "write" /\ Named(d) = t => MayBecome(t, "in_progress")

HInv == IInv /\ ReadinessKept /\ TestsHold

\* Somebody is to decide about the task, or that was lost.
Asked(t) == Undecided(t) \/ DecisionInProgress(t) \/ t \in excused

\* A question about the task is on its way to the inbox.
Asking(j, t) ==
    /\ job[j].task = t
    /\ \/ At(j, "escalate")
       \/ /\ At(j, "audit") /\ "inbox.send" \in job[j].tools
          /\ "approval.request" \notin job[j].tools

DecisionAwaited ==
    /\ \A j \in Jobs : "approval.request" \in job[j].tools => Asked(job[j].task)
    /\ \A t \in Tasks : session[t] = "waiting_for_approval" => Asked(t)

AnswerAwaited ==
    \A t \in Tasks : session[t] = "waiting_for_input" =>
        inbox[t] # "none" \/ t \in unasked \/ \E j \in Jobs : Asking(j, t)

PInv == IInv /\ DecisionAwaited /\ AnswerAwaited

-----------------------------------------------------------------------------
(* What a step does to a job                                                *)

LEMMA IdleTyped ==
    /\ ReturnedJob \in JobState /\ ReturnedJob.pc = "finish" /\ ReturnedJob.task = NoTask
    /\ ReturnedJob.found = {} /\ ReturnedJob.tools = {}
    /\ NoEdit \in [task : Tasks \cup {NoTask}, needs : Needs]
    /\ IdleJob \in JobState /\ IdleJob.pc = "idle" /\ IdleJob.task = NoTask
    /\ IdleJob.found = {} /\ IdleJob.tools = {} /\ IdleJob.to = "pending"
    /\ IdleRequest \in HumanState /\ IdleRequest.pc = "idle"
    /\ IdleDecider \in DeciderState /\ IdleDecider.pc = "idle"
    /\ NoTask \notin Tasks
<1>1. 0 \in 0 .. MaxRounds
    BY ExecutionAssumption
<1> QED
    BY <1>1, ExecutionAssumption
       DEF IdleJob, ReturnedJob, JobState, JobPc, TaskStatus, IdleRequest, HumanState,
           IdleDecider, DeciderState, NoEdit, Needs

LEMMA TypesOf ==
    ASSUME IInv
    PROVE  /\ status \in [Tasks -> TaskStatus] /\ session \in [Tasks -> SessionStatus]
           /\ inbox \in [Tasks -> {"none", "open", "answered"}]
           /\ approvals \in [ApprovalIds ->
                                [state : {"none", "pending", "approved", "rejected"},
                                 task  : Tasks \cup {NoTask}]]
           /\ job \in [Jobs -> JobState]
           /\ human \in [Humans -> HumanState] /\ decider \in [Deciders -> DeciderState]
           /\ needs \in [Tasks -> Needs]
           /\ edit \in [Jobs \cup Humans -> [task : Tasks \cup {NoTask}, needs : Needs]]
           /\ queued \subseteq {j \in Jobs : job[j].pc = "idle"}
           /\ \A j \in Jobs : /\ job[j].task # NoTask <=> job[j].pc \in Executing \cup {"next"}
                              /\ job[j].task # NoTask => job[j].task \in Tasks
                              /\ job[j].found \subseteq Tasks
                              /\ job[j].pc = "check" => j \in Tasks
                              /\ job[j].pc \notin InRun => job[j].tools = {}
<1>1. \A j \in Jobs : job[j] \in JobState
    BY DEF IInv, TypeOK
<1> QED
    BY <1>1 DEF IInv, TypeOK, JobsSound, JobState

JobAlone(j) == job' \in [Jobs -> JobState] /\ \A i \in Jobs \ {j} : job'[i] = job[i]

\* The job is at another place, with the same task and the same tools.
Goes(j, pc) ==
    /\ JobAlone(j) /\ job'[j].pc = pc
    /\ job'[j].task = job[j].task /\ job'[j].found = job[j].found
    /\ job'[j].tools = job[j].tools /\ job'[j].to = job[j].to

Stops(j) == JobAlone(j) /\ job'[j] \in {IdleJob, ReturnedJob}

Uses(j, tool) ==
    /\ JobAlone(j) /\ job[j].pc = "loop" /\ job'[j].pc = "loop"
    /\ job'[j].task = job[j].task /\ job'[j].found = job[j].found
    /\ job'[j].tools = job[j].tools \cup {tool}

LEMMA OneJobMoves ==
    ASSUME job \in [Jobs -> JobState], NEW j \in Jobs, NEW n \in JobState,
           job' = [job EXCEPT ![j] = n]
    PROVE  JobAlone(j) /\ job'[j] = n
BY DEF JobAlone

LEMMA GotoGoes ==
    ASSUME job \in [Jobs -> JobState], NEW j \in Jobs, NEW pc \in JobPc, Goto(j, pc)
    PROVE  Goes(j, pc)
<1> DEFINE n == [job[j] EXCEPT !.pc = pc]
<1>1. /\ n \in JobState /\ n.pc = pc /\ n.task = job[j].task /\ n.found = job[j].found
      /\ n.tools = job[j].tools /\ n.to = job[j].to
    BY DEF JobState
<1>2. job' = [job EXCEPT ![j] = n]
    BY DEF Goto
<1> HIDE DEF n
<1> QED
    BY <1>1, <1>2, OneJobMoves DEF Goes

LEMMA UsesToolUses ==
    ASSUME job \in [Jobs -> JobState], NEW j \in Jobs, InLoop(j),
           NEW tool \in {"approval.request", "inbox.send"}, UsesTool(j, tool, "loop")
    PROVE  Uses(j, tool)
<1> DEFINE rounds == job[j].rounds + 1
           tools == job[j].tools \cup {tool}
           n == [job[j] EXCEPT !.rounds = rounds, !.tools = tools, !.pc = "loop"]
<1>1. job[j] \in JobState /\ job[j].pc = "loop" /\ job[j].rounds < MaxRounds
    BY DEF InLoop, At
<1>2. rounds \in 0 .. MaxRounds /\ tools \subseteq {"approval.request", "inbox.send"}
    BY <1>1, ExecutionAssumption DEF JobState
<1>3. job' = [job EXCEPT ![j].rounds = rounds, ![j].tools = tools, ![j].pc = "loop"]
    BY DEF UsesTool
<1> HIDE DEF rounds
<1>4. /\ n \in JobState /\ n.pc = "loop" /\ n.task = job[j].task
      /\ n.found = job[j].found /\ n.tools = tools
    BY <1>1, <1>2 DEF JobState, JobPc
<1>5. job' = [job EXCEPT ![j] = n]
    BY <1>1, <1>3 DEF JobState
<1> HIDE DEF n
<1>6. JobAlone(j) /\ job'[j] = n
    BY <1>4, <1>5, OneJobMoves
<1> QED
    BY <1>1, <1>4, <1>6 DEF Uses

\* The selection of a task.
Lists(j) ==
    /\ JobAlone(j) /\ job'[j].pc = "pick"
    /\ job'[j].task = job[j].task /\ job'[j].found = Selectable(j)
    /\ job'[j].tools = job[j].tools

Loads(j, t) ==
    /\ JobAlone(j) /\ job'[j].pc = "load" /\ job'[j].task = t
    /\ job'[j].found \subseteq job[j].found /\ job'[j].tools = {}

LEMMA SelectionSteps ==
    ASSUME IInv, NEW j \in Jobs
    PROVE  /\ StartJob(j) => Goes(j, "list") \/ (Goes(j, "check") /\ j \in Tasks)
           /\ List(j) => Stops(j) \/ Lists(j)
           /\ Pick(j) => Stops(j) \/ \E t \in job[j].found : Loads(j, t)
           /\ Check(j) => Stops(j) \/ (Loads(j, j) /\ Ready(j) /\ j \in Tasks)
<1>0. /\ job \in [Jobs -> JobState] /\ job[j] \in JobState /\ job[j].found \subseteq Tasks
      /\ job[j].pc = "check" => j \in Tasks
    BY TypesOf
<1>1. ASSUME Return(j) PROVE Stops(j)
    BY <1>0, <1>1, IdleTyped, OneJobMoves DEF Stops, Return
<1>2. StartJob(j) => Goes(j, "list") \/ (Goes(j, "check") /\ j \in Tasks)
    BY <1>0, GotoGoes, ExecutionAssumption DEF StartJob, JobPc
<1>3. ASSUME job' = [job EXCEPT ![j].pc = "pick", ![j].found = Selectable(j)] PROVE Lists(j)
    <2> DEFINE found == Selectable(j)
               n == [job[j] EXCEPT !.pc = "pick", !.found = found]
    <2>1. found \subseteq Tasks
        BY DEF Selectable
    <2>2. job' = [job EXCEPT ![j].pc = "pick", ![j].found = found]
        BY <1>3
    <2>3. found = Selectable(j)
        OBVIOUS
    <2> HIDE DEF found
    <2>4. /\ n \in JobState /\ n.pc = "pick" /\ n.task = job[j].task
          /\ n.found = found /\ n.tools = job[j].tools
        BY <1>0, <2>1 DEF JobState, JobPc
    <2>5. job' = [job EXCEPT ![j] = n]
        BY <1>0, <2>2 DEF JobState
    <2> HIDE DEF n
    <2>6. JobAlone(j) /\ job'[j] = n
        BY <1>0, <2>4, <2>5, OneJobMoves
    <2> QED
        BY <2>3, <2>4, <2>6 DEF Lists
<1>4. List(j) => Stops(j) \/ Lists(j)
    BY <1>1, <1>3 DEF List
<1>5. ASSUME NEW t \in job[j].found,
             job' = [job EXCEPT ![j].pc = "load", ![j].task = t, ![j].found = {},
                                ![j].executed = @ \cup {t}, ![j].tools = {}, ![j].rounds = 0]
      PROVE  Loads(j, t)
    <2> DEFINE executed == job[j].executed \cup {t}
               n == [job[j] EXCEPT !.pc = "load", !.task = t, !.found = {},
                                   !.executed = executed, !.tools = {}, !.rounds = 0]
    <2>1. executed \subseteq Tasks /\ t \in Tasks /\ 0 \in 0 .. MaxRounds
        BY <1>0, ExecutionAssumption DEF JobState
    <2>2. job' = [job EXCEPT ![j].pc = "load", ![j].task = t, ![j].found = {},
                             ![j].executed = executed, ![j].tools = {}, ![j].rounds = 0]
        BY <1>5
    <2> HIDE DEF executed
    <2>3. n \in JobState /\ n.pc = "load" /\ n.task = t /\ n.found = {} /\ n.tools = {}
        BY <1>0, <2>1 DEF JobState, JobPc
    <2>4. job' = [job EXCEPT ![j] = n]
        BY <1>0, <2>2 DEF JobState
    <2> HIDE DEF n
    <2>5. JobAlone(j) /\ job'[j] = n
        BY <1>0, <2>3, <2>4, OneJobMoves
    <2> QED
        BY <2>3, <2>5 DEF Loads
<1>6. Pick(j) => Stops(j) \/ \E t \in job[j].found : Loads(j, t)
    BY <1>1, <1>5 DEF Pick, Candidates
<1>7. ASSUME j \in Tasks,
             job' = [job EXCEPT ![j].pc = "load", ![j].task = j, ![j].tools = {}, ![j].rounds = 0]
      PROVE  Loads(j, j)
    <2> DEFINE n == [job[j] EXCEPT !.pc = "load", !.task = j, !.tools = {}, !.rounds = 0]
    <2>1. 0 \in 0 .. MaxRounds
        BY ExecutionAssumption
    <2>2. n \in JobState /\ n.pc = "load" /\ n.task = j /\ n.found = job[j].found /\ n.tools = {}
        BY <1>0, <1>7, <2>1 DEF JobState, JobPc
    <2>3. job' = [job EXCEPT ![j] = n]
        BY <1>0, <1>7 DEF JobState
    <2> HIDE DEF n
    <2>4. JobAlone(j) /\ job'[j] = n
        BY <1>0, <2>2, <2>3, OneJobMoves
    <2> QED
        BY <2>2, <2>4 DEF Loads
<1>8. Check(j) => Stops(j) \/ (Loads(j, j) /\ Ready(j) /\ j \in Tasks)
    BY <1>0, <1>1, <1>7 DEF Check, At
<1> QED
    BY <1>2, <1>4, <1>6, <1>8

\* The steps of a run.  A job that is at another place with its task, and its
\* tools, has at most another status to write.
Stays(j, pc) ==
    /\ JobAlone(j) /\ job'[j].pc = pc
    /\ job'[j].task = job[j].task /\ job'[j].found = job[j].found
    /\ job'[j].tools = job[j].tools

Tests(j) == Stays(j, "write") /\ MayBecome(job[j].task, job'[j].to)

\* The tools matter no longer.
Forgets(j) ==
    /\ JobAlone(j) /\ job'[j].pc = AfterAudit(ResolveSessionStatus(job[j].tools))
    /\ job'[j].task = job[j].task /\ job'[j].found = job[j].found
    /\ job'[j].tools = {}

Finishes(j) ==
    /\ JobAlone(j) /\ job'[j].pc \in {"idle", "list", "finish"}
    /\ job'[j].task = NoTask /\ job'[j].found = {} /\ job'[j].tools = {}

LEMMA AuditLeads ==
    ASSUME NEW tools
    PROVE  /\ AfterAudit(ResolveSessionStatus(tools)) \in {"settle", "escalate", "next"}
           /\ AfterAudit(ResolveSessionStatus(tools)) = "escalate" => "inbox.send" \in tools
           /\ /\ "inbox.send" \in tools /\ "approval.request" \notin tools
              => AfterAudit(ResolveSessionStatus(tools)) = "escalate"
           /\ ResolveSessionStatus(tools) \in {"waiting_for_approval", "waiting_for_input",
                                               "completed"}
           /\ ResolveSessionStatus(tools) = "waiting_for_approval"
              => "approval.request" \in tools
           /\ ResolveSessionStatus(tools) = "waiting_for_input"
              => "inbox.send" \in tools /\ "approval.request" \notin tools
BY DEF AfterAudit, ResolveSessionStatus

LEMMA RunSteps ==
    ASSUME IInv, NEW j \in Jobs
    PROVE  /\ LoadSession(j) => Goes(j, "create") \/ Goes(j, "loop")
           /\ CreateSession(j) => Goes(j, "loop")
           /\ SkipRun(j) => Stops(j)
           /\ FailJob(j) => Stops(j)
           /\ FinishJob(j) => Stops(j)
           /\ ToolUpdateStatus(j) => Tests(j)
           /\ ToolUpdateTask(j) => Stays(j, "edit")
           /\ ToolEdit(j) => Goes(j, "loop")
           /\ ToolWrite(j) => Stays(j, "loop")
           /\ ToolRequestApproval(j) => Uses(j, "approval.request")
           /\ ToolRequestRefused(j) => Uses(j, "approval.request")
           /\ ToolSendInbox(j) => Uses(j, "inbox.send")
           /\ EndLoop(j) => Stays(j, "save")
           /\ SaveSession(j) => Goes(j, "audit")
           /\ Audit(j) => Forgets(j)
           /\ Escalate(j) => Goes(j, "next")
           /\ Settle(j) => Goes(j, "fallback") \/ Goes(j, "next")
           /\ Fallback(j) => \/ Goes(j, "fallbackWrite") /\ MayBecome(job[j].task, "done")
                             \/ Goes(j, "next")
           /\ FallbackWrite(j) => Goes(j, "next")
           /\ EndRun(j) => Finishes(j)
<1>0. /\ job \in [Jobs -> JobState] /\ job[j] \in JobState
    BY TypesOf
<1>1. ASSUME Return(j) PROVE Stops(j)
    BY <1>0, <1>1, IdleTyped, OneJobMoves DEF Stops, Return
<1>2. SkipRun(j) => Stops(j)
    BY <1>1 DEF SkipRun
<1>3. FailJob(j) => Stops(j)
    BY <1>1 DEF FailJob
<1>4. /\ "create" \in JobPc /\ "loop" \in JobPc /\ "audit" \in JobPc /\ "next" \in JobPc
      /\ "fallback" \in JobPc /\ "fallbackWrite" \in JobPc /\ "write" \in JobPc
      /\ "save" \in JobPc /\ "settle" \in JobPc /\ "escalate" \in JobPc
      /\ "list" \in JobPc /\ "edit" \in JobPc /\ "pending" \in TaskStatus /\ 0 \in 0 .. MaxRounds
    BY ExecutionAssumption DEF JobPc, TaskStatus
<1>5. LoadSession(j) => Goes(j, "create") \/ Goes(j, "loop")
    BY <1>0, <1>4, GotoGoes DEF LoadSession
<1>6. CreateSession(j) => Goes(j, "loop")
    BY <1>0, <1>4, GotoGoes DEF CreateSession
<1>7. SaveSession(j) => Goes(j, "audit")
    BY <1>0, <1>4, GotoGoes DEF SaveSession
<1>8. Escalate(j) => Goes(j, "next")
    BY <1>0, <1>4, GotoGoes DEF Escalate
<1>9. Settle(j) => Goes(j, "fallback") \/ Goes(j, "next")
    BY <1>0, <1>4, GotoGoes DEF Settle
<1>10. Fallback(j) => \/ Goes(j, "fallbackWrite") /\ MayBecome(job[j].task, "done")
                      \/ Goes(j, "next")
    BY <1>0, <1>4, GotoGoes DEF Fallback
<1>11. FallbackWrite(j) => Goes(j, "next")
    BY <1>0, <1>4, GotoGoes DEF FallbackWrite
<1>12. ASSUME InLoop(j), NEW to \in TaskStatus, MayBecome(job[j].task, to),
              job' = [job EXCEPT ![j].rounds = @ + 1, ![j].pc = "write", ![j].to = to]
       PROVE  Tests(j)
    <2> DEFINE rounds == job[j].rounds + 1
               n == [job[j] EXCEPT !.rounds = rounds, !.pc = "write", !.to = to]
    <2>1. job[j].pc = "loop" /\ job[j].rounds < MaxRounds
        BY <1>12 DEF InLoop, At
    <2>2. rounds \in 0 .. MaxRounds
        BY <1>0, <2>1, ExecutionAssumption DEF JobState
    <2>3. job' = [job EXCEPT ![j].rounds = rounds, ![j].pc = "write", ![j].to = to]
        BY <1>12
    <2> HIDE DEF rounds
    <2>4. /\ n \in JobState /\ n.pc = "write" /\ n.task = job[j].task
          /\ n.found = job[j].found /\ n.tools = job[j].tools /\ n.to = to
        BY <1>0, <1>4, <2>2 DEF JobState
    <2>5. job' = [job EXCEPT ![j] = n]
        BY <1>0, <2>3 DEF JobState
    <2> HIDE DEF n
    <2>6. JobAlone(j) /\ job'[j] = n
        BY <1>0, <2>4, <2>5, OneJobMoves
    <2> QED
        BY <1>12, <2>4, <2>6 DEF Tests, Stays
<1>13. ToolUpdateStatus(j) => Tests(j)
    BY <1>12 DEF ToolUpdateStatus, Calling
<1>22. ASSUME ToolUpdateTask(j) PROVE Stays(j, "edit")
    <2> DEFINE rounds == job[j].rounds + 1
               n == [job[j] EXCEPT !.rounds = rounds, !.pc = "edit"]
    <2>1. job[j].pc = "loop" /\ job[j].rounds < MaxRounds
        BY <1>22 DEF ToolUpdateTask, Calling, InLoop, At
    <2>2. rounds \in 0 .. MaxRounds
        BY <1>0, <2>1, ExecutionAssumption DEF JobState
    <2>3. job' = [job EXCEPT ![j].rounds = rounds, ![j].pc = "edit"]
        BY <1>22 DEF ToolUpdateTask
    <2> HIDE DEF rounds
    <2>4. /\ n \in JobState /\ n.pc = "edit" /\ n.task = job[j].task
          /\ n.found = job[j].found /\ n.tools = job[j].tools
        BY <1>0, <1>4, <2>2 DEF JobState
    <2>5. job' = [job EXCEPT ![j] = n]
        BY <1>0, <2>3 DEF JobState
    <2> HIDE DEF n
    <2>6. JobAlone(j) /\ job'[j] = n
        BY <1>0, <2>4, <2>5, OneJobMoves
    <2> QED
        BY <2>4, <2>6 DEF Stays
<1>23. ToolEdit(j) => Goes(j, "loop")
    BY <1>0, <1>4, GotoGoes DEF ToolEdit
<1>24. FinishJob(j) => Stops(j)
    BY <1>0, IdleTyped, OneJobMoves DEF Stops, FinishJob
<1>14. ASSUME NEW to \in TaskStatus, job' = [job EXCEPT ![j].pc = "loop", ![j].to = to]
       PROVE  Stays(j, "loop")
    <2> DEFINE n == [job[j] EXCEPT !.pc = "loop", !.to = to]
    <2>1. /\ n \in JobState /\ n.pc = "loop" /\ n.task = job[j].task
          /\ n.found = job[j].found /\ n.tools = job[j].tools
        BY <1>0, <1>4 DEF JobState
    <2>2. job' = [job EXCEPT ![j] = n]
        BY <1>0, <1>14 DEF JobState
    <2> HIDE DEF n
    <2>3. JobAlone(j) /\ job'[j] = n
        BY <1>0, <2>1, <2>2, OneJobMoves
    <2> QED
        BY <2>1, <2>3 DEF Stays
<1>15. ToolWrite(j) => Stays(j, "loop")
    BY <1>4, <1>14, IdleTyped DEF ToolWrite
<1>16. ToolRequestApproval(j) => Uses(j, "approval.request")
    BY <1>0, UsesToolUses DEF ToolRequestApproval, Calling
<1>17. ToolRequestRefused(j) => Uses(j, "approval.request")
    BY <1>0, UsesToolUses DEF ToolRequestRefused, Calling
<1>18. ToolSendInbox(j) => Uses(j, "inbox.send")
    BY <1>0, UsesToolUses DEF ToolSendInbox, Calling
<1>19. ASSUME EndLoop(j) PROVE Stays(j, "save")
    <2> DEFINE n == [job[j] EXCEPT !.pc = "save", !.rounds = 0]
    <2>1. /\ n \in JobState /\ n.pc = "save" /\ n.task = job[j].task
          /\ n.found = job[j].found /\ n.tools = job[j].tools
        BY <1>0, <1>4 DEF JobState
    <2>2. job' = [job EXCEPT ![j] = n]
        BY <1>0, <1>19 DEF EndLoop, JobState
    <2> HIDE DEF n
    <2>3. JobAlone(j) /\ job'[j] = n
        BY <1>0, <2>1, <2>2, OneJobMoves
    <2> QED
        BY <2>1, <2>3 DEF Stays
<1>20. ASSUME Audit(j) PROVE Forgets(j)
    <2> DEFINE pc == AfterAudit(ResolveSessionStatus(job[j].tools))
               n == [job[j] EXCEPT !.pc = pc, !.tools = {}]
    <2>1. pc \in JobPc /\ pc = AfterAudit(ResolveSessionStatus(job[j].tools))
        BY <1>4, AuditLeads
    <2>2. job' = [job EXCEPT ![j].pc = pc, ![j].tools = {}]
        BY <1>20 DEF Audit
    <2> HIDE DEF pc
    <2>3. /\ n \in JobState /\ n.pc = pc /\ n.task = job[j].task
          /\ n.found = job[j].found /\ n.tools = {}
        BY <1>0, <2>1 DEF JobState
    <2>4. job' = [job EXCEPT ![j] = n]
        BY <1>0, <2>2 DEF JobState
    <2> HIDE DEF n
    <2>5. JobAlone(j) /\ job'[j] = n
        BY <1>0, <2>3, <2>4, OneJobMoves
    <2> QED
        BY <2>1, <2>3, <2>5 DEF Forgets
<1>21. ASSUME EndRun(j) PROVE Finishes(j)
    <2> DEFINE executed == job[j].executed
               n == IF j = Batch THEN [IdleJob EXCEPT !.pc = "list", !.executed = executed]
                    ELSE ReturnedJob
    <2>1. executed \subseteq Tasks
        BY <1>0 DEF JobState
    <2>2. job' = [job EXCEPT ![j] = n]
        BY <1>21 DEF EndRun
    <2> HIDE DEF executed
    <2>3. [IdleJob EXCEPT !.pc = "list", !.executed = executed] \in JobState
        BY <1>4, <2>1, IdleTyped DEF JobState
    <2>4. /\ n \in JobState /\ n.pc \in {"finish", "list"} /\ n.task = NoTask
          /\ n.found = {} /\ n.tools = {}
        BY <2>3, IdleTyped DEF IdleJob
    <2> HIDE DEF n
    <2>5. JobAlone(j) /\ job'[j] = n
        BY <1>0, <2>2, <2>4, OneJobMoves
    <2> QED
        BY <2>4, <2>5 DEF Finishes
<1> QED
    BY <1>2, <1>3, <1>5, <1>6, <1>7, <1>8, <1>9, <1>10, <1>11, <1>13, <1>15, <1>16,
       <1>17, <1>18, <1>19, <1>20, <1>21, <1>22, <1>23, <1>24

-----------------------------------------------------------------------------
(* Types, and requests for approval                                         *)

JobFine(j) ==
    /\ job[j].task # NoTask <=> job[j].pc \in Executing \cup {"next"}
    /\ job[j].pc = "check" => j \in Tasks
    /\ job[j].pc \notin InRun => job[j].tools = {}

LEMMA JobsStayFine ==
    ASSUME IInv, NEW j \in Jobs, StartJob(j) \/ JobStep(j)
    PROVE  JobAlone(j) /\ JobFine(j)'
<1>0. /\ job[j].task # NoTask <=> job[j].pc \in Executing \cup {"next"}
      /\ job[j].task # NoTask => job[j].task \in Tasks
      /\ job[j].found \subseteq Tasks
      /\ job[j].pc \notin InRun => job[j].tools = {}
      /\ NoTask \notin Tasks
    BY TypesOf, ExecutionAssumption
<1> USE DEF JobFine, InRun, Executing, JobPc, At
<1>1. ASSUME Stops(j) PROVE JobAlone(j) /\ JobFine(j)'
    BY <1>1, IdleTyped DEF Stops
<1>20. CASE ToolUpdateTask(j)
    BY <1>0, <1>20, RunSteps DEF ToolUpdateTask, Calling, InLoop, Stays
<1>21. CASE ToolEdit(j)
    BY <1>0, <1>21, RunSteps DEF ToolEdit, Goes
<1>2. CASE StartJob(j)
    <2>1. job[j].pc = "idle"
        BY <1>2, TypesOf DEF StartJob
    <2>2. Goes(j, "list") \/ (Goes(j, "check") /\ j \in Tasks)
        BY <1>2, SelectionSteps
    <2> QED
        BY <1>0, <2>1, <2>2 DEF Goes
<1>3. CASE List(j)
    BY <1>0, <1>1, <1>3, SelectionSteps DEF List, Lists
<1>4. CASE Pick(j)
    BY <1>0, <1>1, <1>4, SelectionSteps DEF Loads
<1>5. CASE Check(j)
    BY <1>0, <1>1, <1>5, SelectionSteps DEF Loads
<1>6. CASE LoadSession(j)
    BY <1>0, <1>6, RunSteps DEF LoadSession, Goes
<1>7. CASE CreateSession(j)
    BY <1>0, <1>7, RunSteps DEF CreateSession, Goes
<1>8. CASE SkipRun(j) \/ FailJob(j) \/ FinishJob(j)
    BY <1>1, <1>8, RunSteps
<1>9. CASE ToolUpdateStatus(j)
    BY <1>0, <1>9, RunSteps DEF ToolUpdateStatus, Calling, InLoop, Tests, Stays
<1>10. CASE ToolWrite(j)
    BY <1>0, <1>10, RunSteps DEF ToolWrite, Stays
<1>11. CASE ToolRequestApproval(j) \/ ToolRequestRefused(j) \/ ToolSendInbox(j)
    <2>1. \E tool : Uses(j, tool)
        BY <1>11, RunSteps
    <2> QED
        BY <1>0, <2>1 DEF Uses
<1>12. CASE EndLoop(j)
    BY <1>0, <1>12, RunSteps DEF EndLoop, Stays
<1>13. CASE SaveSession(j)
    BY <1>0, <1>13, RunSteps DEF SaveSession, Goes
<1>14. CASE Audit(j)
    BY <1>0, <1>14, RunSteps, AuditLeads DEF Audit, Forgets
<1>15. CASE Escalate(j)
    BY <1>0, <1>15, RunSteps DEF Escalate, Goes
<1>16. CASE Settle(j)
    BY <1>0, <1>16, RunSteps DEF Settle, Goes
<1>17. CASE Fallback(j)
    BY <1>0, <1>17, RunSteps DEF Fallback, Goes
<1>18. CASE FallbackWrite(j)
    BY <1>0, <1>18, RunSteps DEF FallbackWrite, Goes
<1>19. CASE EndRun(j)
    BY <1>0, <1>19, RunSteps DEF EndRun, Finishes
<1> QED
    BY <1>2, <1>3, <1>4, <1>5, <1>6, <1>7, <1>8, <1>9, <1>10, <1>11, <1>12, <1>13, <1>14,
       <1>15, <1>16, <1>17, <1>18, <1>19, <1>20, <1>21 DEF JobStep

\* What waits in the queue is idle: enqueue() looks, and only the queue starts it.
LEMMA QueueStays ==
    ASSUME IInv, NEW j \in Jobs, StartJob(j) \/ JobStep(j)
    PROVE  queued' \subseteq {i \in Jobs : job'[i].pc = "idle"}
<1>0. queued \subseteq {i \in Jobs : job[i].pc = "idle"} /\ JobAlone(j)
    BY TypesOf, JobsStayFine
<1>1. CASE StartJob(j)
    BY <1>0, <1>1 DEF StartJob, JobAlone
<1>2. CASE JobStep(j)
    <2>1. job[j].pc # "idle" /\ queued' = queued
        BY <1>2 DEF JobStep, List, Pick, Check, LoadSession, CreateSession, SkipRun,
           ToolUpdateStatus, ToolWrite, ToolUpdateTask, ToolEdit, ToolRequestApproval,
           ToolRequestRefused, ToolSendInbox, EndLoop, SaveSession, Audit, Settle, Fallback,
           FallbackWrite, Escalate, EndRun, FailJob, FinishJob, Calling, InLoop, At, Others
    <2> QED
        BY <1>0, <2>1 DEF JobAlone
<1> QED
    BY <1>1, <1>2

\* What an edit does: it is typed when it is read, and so is what it writes.
EditTyped == edit' \in [Jobs \cup Humans -> [task : Tasks \cup {NoTask}, needs : Needs]]

LEMMA EditSteps ==
    ASSUME IInv, NEW x \in Jobs \cup Humans
    PROVE  /\ \A t \in Tasks : ReadEdit(x, t) => EditTyped
           /\ WriteEdit(x) => EditTyped /\ needs' \in [Tasks -> Needs]
<1>1. /\ needs \in [Tasks -> Needs]
      /\ edit \in [Jobs \cup Humans -> [task : Tasks \cup {NoTask}, needs : Needs]]
    BY TypesOf
<1>2. ASSUME NEW t \in Tasks, ReadEdit(x, t) PROVE EditTyped
    <2>1. PICK n \in EditsOf(t) : edit' = [edit EXCEPT ![x] = [task |-> t, needs |-> n]]
        BY <1>2 DEF ReadEdit
    <2>2. n \in [deps : SUBSET Tasks, rules : RuleSets \cup {needs[t].rules}]
        BY DEF EditsOf
    <2>3. needs[t].rules \in SUBSET RulesOver(Tasks)
        BY <1>1 DEF Needs
    <2>4. n \in Needs
        BY <2>2, <2>3, ExecutionAssumption DEF Needs
    <2> QED
        BY <1>1, <2>1, <2>4 DEF EditTyped
<1>3. ASSUME WriteEdit(x) PROVE EditTyped /\ needs' \in [Tasks -> Needs]
    <2>1. EditTyped
        BY <1>1, <1>3, IdleTyped DEF WriteEdit, EditTyped
    <2>2. edit[x].needs \in Needs
        BY <1>1
    <2>3. needs' = [needs EXCEPT ![edit[x].task] = edit[x].needs]
        BY <1>3 DEF WriteEdit
    <2> QED
        BY <1>1, <2>1, <2>2, <2>3
<1> QED
    BY <1>2, <1>3

\* What a job does to the rows.
SetsStatus(t, to) == t \in Tasks /\ to \in TaskStatus /\ Write(t, to)

RequestsFor(t) ==
    \E a \in ApprovalIds :
        /\ approvals[a].state = "none"
        /\ approvals' = [approvals EXCEPT ![a] = [state |-> "pending", task |-> t]]

LEMMA JobEffects ==
    ASSUME IInv, NEW j \in Jobs, StartJob(j) \/ JobStep(j)
    PROVE  /\ UNCHANGED <<human, decider>>
           /\ \/ UNCHANGED <<needs, edit>>
              \/ needs' = needs /\ \E t \in Tasks : ReadEdit(j, t)
              \/ WriteEdit(j) /\ UNCHANGED status
           /\ \/ status' = status
              \/ ToolWrite(j) /\ SetsStatus(job[j].task, job[j].to)
              \/ FallbackWrite(j) /\ SetsStatus(job[j].task, "done")
           /\ \/ session' = session
              \/ /\ CreateSession(j) /\ job[j].task \in Tasks
                 /\ session' = [session EXCEPT ![job[j].task] = "active"]
              \/ /\ SaveSession(j) /\ job[j].task \in Tasks
                 /\ session' = [session EXCEPT
                                   ![job[j].task] = ResolveSessionStatus(job[j].tools)]
           /\ \/ approvals' = approvals
              \/ ToolRequestApproval(j) /\ job[j].task \in Tasks /\ RequestsFor(job[j].task)
           /\ \/ inbox' = inbox
              \/ /\ Escalate(j) /\ job[j].task \in Tasks
                 /\ inbox' = [inbox EXCEPT ![job[j].task] = "open"]
<1>0. /\ job[j].pc \in Executing => job[j].task \in Tasks
      /\ job[j].to \in TaskStatus /\ "done" \in TaskStatus
    BY TypesOf DEF JobState, TaskStatus
<1> USE DEF Others, Requesters
<1>1. CASE StartJob(j)
    BY <1>1 DEF StartJob, Rows
<1>12. CASE ToolUpdateTask(j)
    BY <1>12 DEF ToolUpdateTask
<1>13. CASE ToolEdit(j)
    BY <1>13 DEF ToolEdit
<1>2. CASE List(j) \/ Pick(j) \/ Check(j)
    BY <1>2 DEF List, Pick, Check
<1>3. CASE \/ LoadSession(j) \/ SkipRun(j) \/ FailJob(j) \/ EndLoop(j) \/ Audit(j)
           \/ EndRun(j) \/ FinishJob(j)
    BY <1>3 DEF LoadSession, SkipRun, FailJob, EndLoop, Audit, EndRun, FinishJob
<1>4. CASE Settle(j) \/ Fallback(j)
    BY <1>4 DEF Settle, Fallback
<1>5. CASE ToolUpdateStatus(j) \/ ToolRequestRefused(j) \/ ToolSendInbox(j)
    BY <1>5 DEF ToolUpdateStatus, ToolRequestRefused, ToolSendInbox
<1>6. CASE CreateSession(j)
    BY <1>0, <1>6 DEF CreateSession, At, Executing, JobPc
<1>7. CASE SaveSession(j)
    BY <1>0, <1>7 DEF SaveSession, At, Executing, JobPc
<1>8. CASE ToolWrite(j)
    BY <1>0, <1>8 DEF ToolWrite, At, Executing, JobPc, SetsStatus
<1>9. CASE FallbackWrite(j)
    BY <1>0, <1>9 DEF FallbackWrite, At, Executing, JobPc, SetsStatus
<1>10. CASE ToolRequestApproval(j)
    BY <1>0, <1>10 DEF ToolRequestApproval, Calling, InLoop, At, Executing, JobPc, RequestsFor
<1>11. CASE Escalate(j)
    BY <1>0, <1>11 DEF Escalate, At, Executing, JobPc
<1> QED
    BY <1>1, <1>2, <1>3, <1>4, <1>5, <1>6, <1>7, <1>8, <1>9, <1>10, <1>11, <1>12, <1>13
    DEF JobStep

\* What the requests do.
DeciderAlone(d) ==
    decider' \in [Deciders -> DeciderState] /\ \A e \in Deciders \ {d} : decider'[e] = decider[e]

Decides(d, pc) ==
    /\ DeciderAlone(d) /\ decider'[d].pc = pc
    /\ decider'[d].approval = decider[d].approval /\ decider'[d].verdict = decider[d].verdict

Concludes(d) == DeciderAlone(d) /\ decider'[d] = IdleDecider

LEMMA DeciderSteps ==
    ASSUME IInv, NEW d \in Deciders
    PROVE  /\ FindApproval(d) =>
                 /\ DeciderAlone(d) /\ decider[d].pc = "idle" /\ decider'[d].pc = "update"
                 /\ decider'[d].approval \in ApprovalIds
                 /\ approvals[decider'[d].approval].state = "pending"
           /\ UpdateApproval(d) => Decides(d, "unblock") \/ Decides(d, "checkpoint")
           /\ ExecutionFails(d) => Concludes(d)
           /\ ReadBlocked(d) => Decides(d, "transition") \/ Decides(d, "checkpoint")
           /\ ReadTransition(d) => \/ Decides(d, "write") /\ MayBecome(Named(d), "in_progress")
                                   \/ Decides(d, "checkpoint")
           /\ Unblock(d) => Decides(d, "checkpoint")
           /\ DecisionCheckpoint(d) => Concludes(d)
<1>0. decider \in [Deciders -> DeciderState] /\ decider[d] \in DeciderState
    BY TypesOf
<1>1. ASSUME NEW n \in DeciderState, decider' = [decider EXCEPT ![d] = n]
      PROVE  DeciderAlone(d) /\ decider'[d] = n
    BY <1>0, <1>1 DEF DeciderAlone
<1>2. ASSUME NEW pc \in {"unblock", "transition", "write", "checkpoint"}, DecideGoto(d, pc)
      PROVE  Decides(d, pc)
    <2> DEFINE n == [decider[d] EXCEPT !.pc = pc]
    <2>1. /\ n \in DeciderState /\ n.pc = pc /\ n.approval = decider[d].approval
          /\ n.verdict = decider[d].verdict
        BY <1>0 DEF DeciderState
    <2>2. decider' = [decider EXCEPT ![d] = n]
        BY <1>2 DEF DecideGoto
    <2> HIDE DEF n
    <2> QED
        BY <1>1, <2>1, <2>2 DEF Decides
<1>3. ASSUME decider' = [decider EXCEPT ![d] = IdleDecider] PROVE Concludes(d)
    BY <1>1, <1>3, IdleTyped DEF Concludes
<1>4. ASSUME FindApproval(d)
      PROVE  /\ DeciderAlone(d) /\ decider[d].pc = "idle" /\ decider'[d].pc = "update"
             /\ decider'[d].approval \in ApprovalIds
             /\ approvals[decider'[d].approval].state = "pending"
    <2>1. PICK a \in ApprovalIds, v \in {"approved", "rejected"} :
              /\ approvals[a].state = "pending"
              /\ decider' = [decider EXCEPT
                                ![d] = [pc |-> "update", approval |-> a, verdict |-> v]]
        BY <1>4 DEF FindApproval
    <2> DEFINE n == [pc |-> "update", approval |-> a, verdict |-> v]
    <2>2. n \in DeciderState /\ n.pc = "update" /\ n.approval = a
        BY DEF DeciderState
    <2>3. decider' = [decider EXCEPT ![d] = n]
        BY <2>1
    <2> HIDE DEF n
    <2>4. DeciderAlone(d) /\ decider'[d] = n
        BY <1>1, <2>2, <2>3
    <2> QED
        BY <1>4, <2>1, <2>2, <2>4 DEF FindApproval, DecideAt
<1>5. UpdateApproval(d) => Decides(d, "unblock") \/ Decides(d, "checkpoint")
    BY <1>2 DEF UpdateApproval
<1>6. ExecutionFails(d) => Concludes(d)
    BY <1>3 DEF ExecutionFails
<1>7. ReadBlocked(d) => Decides(d, "transition") \/ Decides(d, "checkpoint")
    BY <1>2 DEF ReadBlocked
<1>8. ReadTransition(d) => \/ Decides(d, "write") /\ MayBecome(Named(d), "in_progress")
                           \/ Decides(d, "checkpoint")
    BY <1>2 DEF ReadTransition
<1>9. Unblock(d) => Decides(d, "checkpoint")
    BY <1>2 DEF Unblock
<1>10. DecisionCheckpoint(d) => Concludes(d)
    BY <1>3 DEF DecisionCheckpoint
<1> QED
    BY <1>4, <1>5, <1>6, <1>7, <1>8, <1>9, <1>10

HumanAlone(h) ==
    human' \in [Humans -> HumanState] /\ \A g \in Humans \ {h} : human'[g] = human[g]

LEMMA HumanSteps ==
    ASSUME IInv, NEW h \in Humans
    PROVE  /\ HumanRead(h) => /\ HumanAlone(h) /\ human'[h].task \in Tasks
                              /\ \/ human'[h].pc = "wake"
                                 \/ /\ human'[h].pc = "write"
                                    /\ MayBecome(human'[h].task, human'[h].to)
           /\ HumanReadEdit(h) => HumanAlone(h) /\ human'[h].pc = "edit"
           /\ HumanStep(h) => HumanAlone(h) /\ human'[h].pc \in {"idle", "wake"}
<1>0. human \in [Humans -> HumanState]
    BY TypesOf
<1>1. ASSUME NEW n \in HumanState, human' = [human EXCEPT ![h] = n]
      PROVE  HumanAlone(h) /\ human'[h] = n
    BY <1>0, <1>1 DEF HumanAlone
<1>2. ASSUME HumanRead(h)
      PROVE  /\ HumanAlone(h) /\ human'[h].task \in Tasks
             /\ \/ human'[h].pc = "wake"
                \/ human'[h].pc = "write" /\ MayBecome(human'[h].task, human'[h].to)
    <2>1. PICK t \in Tasks, to \in TaskStatus :
              /\ MayBecome(t, to) \/ status[t] = to
              /\ human' = [human EXCEPT
                              ![h] = [pc |-> IF status[t] = to THEN "wake" ELSE "write",
                                      task |-> t, to |-> to]]
        BY <1>2 DEF HumanRead
    <2> DEFINE pc == IF status[t] = to THEN "wake" ELSE "write"
               n == [pc |-> pc, task |-> t, to |-> to]
    <2>2. /\ n \in HumanState /\ n.pc = pc /\ n.task = t /\ n.to = to
          /\ pc = "wake" \/ (pc = "write" /\ MayBecome(t, to))
        BY <2>1 DEF HumanState
    <2>3. human' = [human EXCEPT ![h] = n]
        BY <2>1
    <2> HIDE DEF n
    <2>4. HumanAlone(h) /\ human'[h] = n
        BY <1>1, <2>2, <2>3
    <2> QED
        BY <2>1, <2>2, <2>4
<1>3. ASSUME human' = [human EXCEPT ![h] = IdleRequest]
      PROVE  HumanAlone(h) /\ human'[h].pc = "idle"
    BY <1>1, <1>3, IdleTyped
<1>4. ASSUME human' = [human EXCEPT ![h].pc = "wake"]
      PROVE  HumanAlone(h) /\ human'[h].pc = "wake"
    <2> DEFINE n == [human[h] EXCEPT !.pc = "wake"]
    <2>1. n \in HumanState /\ n.pc = "wake"
        BY <1>0 DEF HumanState
    <2>2. human' = [human EXCEPT ![h] = n]
        BY <1>4
    <2> HIDE DEF n
    <2> QED
        BY <1>1, <2>1, <2>2
<1>5. HumanStep(h) => HumanAlone(h) /\ human'[h].pc \in {"idle", "wake"}
    BY <1>3, <1>4 DEF HumanStep, HumanWrite, HumanEdit, HumanWake
<1>6. ASSUME HumanReadEdit(h) PROVE HumanAlone(h) /\ human'[h].pc = "edit"
    <2>1. PICK t \in Tasks :
              human' = [human EXCEPT ![h] = [IdleRequest EXCEPT !.pc = "edit", !.task = t]]
        BY <1>6 DEF HumanReadEdit
    <2> DEFINE n == [IdleRequest EXCEPT !.pc = "edit", !.task = t]
    <2>2. n \in HumanState /\ n.pc = "edit"
        BY DEF IdleRequest, HumanState, TaskStatus
    <2>3. human' = [human EXCEPT ![h] = n]
        BY <2>1
    <2> HIDE DEF n
    <2> QED
        BY <1>1, <2>2, <2>3
<1> QED
    BY <1>2, <1>5, <1>6

\* The rows, when one of them is written.
LEMMA RowsTyped ==
    ASSUME IInv
    PROVE  /\ \A t, to : SetsStatus(t, to) => status' \in [Tasks -> TaskStatus]
           /\ \A t, s : s \in SessionStatus /\ session' = [session EXCEPT ![t] = s]
              => session' \in [Tasks -> SessionStatus]
           /\ \A t, s : s \in {"open", "answered"} /\ inbox' = [inbox EXCEPT ![t] = s]
              => inbox' \in [Tasks -> {"none", "open", "answered"}]
BY TypesOf DEF SetsStatus, Write

\* A request for approval keeps its task once it is made.
RequestsKept ==
    /\ approvals' \in [ApprovalIds -> [state : {"none", "pending", "approved", "rejected"},
                                       task  : Tasks \cup {NoTask}]]
    /\ \A a \in ApprovalIds : approvals[a].state # "none" =>
          approvals'[a].state # "none" /\ approvals'[a].task = approvals[a].task

LEMMA RequestsSound ==
    ASSUME IInv
    PROVE  /\ approvals' = approvals => RequestsKept
           /\ \A t \in Tasks : RequestsFor(t) =>
                 RequestsKept /\ \A a \in ApprovalIds :
                    approvals'[a].state # "none" => approvals'[a].task \in Tasks
           /\ \A d \in Deciders : UpdateApproval(d) =>
                 RequestsKept /\ \A a \in ApprovalIds :
                    approvals'[a].state # "none" => approvals'[a].task \in Tasks
<1>0. /\ approvals \in [ApprovalIds -> [state : {"none", "pending", "approved", "rejected"},
                                        task  : Tasks \cup {NoTask}]]
      /\ \A a \in ApprovalIds : approvals[a].state # "none" => approvals[a].task \in Tasks
    BY TypesOf DEF IInv, ApprovalsSound
<1>1. ASSUME NEW a \in ApprovalIds, NEW state \in {"pending", "approved", "rejected"},
             NEW t \in Tasks, approvals' = [approvals EXCEPT ![a] = [state |-> state, task |-> t]],
             approvals[a].state = "none" \/ approvals[a].task = t
      PROVE  RequestsKept /\ \A b \in ApprovalIds :
                    approvals'[b].state # "none" => approvals'[b].task \in Tasks
    <2> DEFINE n == [state |-> state, task |-> t]
    <2>1. /\ n \in [state : {"none", "pending", "approved", "rejected"},
                    task  : Tasks \cup {NoTask}]
          /\ n.task = t /\ n.state # "none"
        OBVIOUS
    <2>2. approvals' = [approvals EXCEPT ![a] = n]
        BY <1>1
    <2> HIDE DEF n
    <2> QED
        BY <1>0, <1>1, <2>1, <2>2 DEF RequestsKept
<1>2. \A t \in Tasks : RequestsFor(t) =>
          RequestsKept /\ \A a \in ApprovalIds :
                    approvals'[a].state # "none" => approvals'[a].task \in Tasks
    BY <1>1 DEF RequestsFor
<1>3. ASSUME NEW d \in Deciders, UpdateApproval(d)
      PROVE  RequestsKept /\ \A a \in ApprovalIds :
                    approvals'[a].state # "none" => approvals'[a].task \in Tasks
    <2> DEFINE a == decider[d].approval
               v == decider[d].verdict
               t == approvals[a].task
    <2>1. a \in ApprovalIds /\ approvals[a].state # "none" /\ v \in {"approved", "rejected"}
        BY <1>3, TypesOf DEF UpdateApproval, DecideAt, IInv, ApprovalsSound, DeciderState
    <2>2. t \in Tasks
        BY <1>0, <2>1
    <2>3. approvals' = [approvals EXCEPT ![a].state = v]
        BY <1>3 DEF UpdateApproval
    <2> HIDE DEF a, v
    <2>4. approvals' = [approvals EXCEPT ![a] = [state |-> v, task |-> t]]
        <3>1. approvals[a] \in [state : {"none", "pending", "approved", "rejected"},
                                task  : Tasks \cup {NoTask}]
            BY <1>0, <2>1
        <3>2. [approvals[a] EXCEPT !.state = v] = [state |-> v, task |-> t]
            BY <3>1
        <3>3. approvals' = [approvals EXCEPT ![a] = [approvals[a] EXCEPT !.state = v]]
            BY <1>0, <2>1, <2>3
        <3> QED
            BY <3>2, <3>3
    <2> HIDE DEF t
    <2>5. approvals[a].task = t
        BY DEF t
    <2> QED
        BY <1>1, <2>1, <2>2, <2>4, <2>5
<1> QED
    BY <1>0, <1>2, <1>3 DEF RequestsKept

LEMMA TypesStart ==
    Init => IInv
<1> SUFFICES ASSUME Init PROVE IInv
    OBVIOUS
<1>1. /\ status \in [Tasks -> TaskStatus] /\ session \in [Tasks -> SessionStatus]
      /\ inbox \in [Tasks -> {"none", "open", "answered"}]
      /\ job \in [Jobs -> JobState]
      /\ human \in [Humans -> HumanState] /\ decider \in [Deciders -> DeciderState]
    BY IdleTyped DEF Init, TaskStatus, SessionStatus
<1>7. /\ needs \in [Tasks -> Needs] /\ queued = {}
      /\ edit \in [Jobs \cup Humans -> [task : Tasks \cup {NoTask}, needs : Needs]]
    BY IdleTyped, ExecutionAssumption DEF Init, Needs
<1>2. approvals \in [ApprovalIds -> [state : {"none", "pending", "approved", "rejected"},
                                     task  : Tasks \cup {NoTask}]]
    BY DEF Init
<1>3. \A j \in Jobs : job[j] = IdleJob
    BY DEF Init
<1>4. \A j \in Jobs : job[j].task # NoTask <=> job[j].pc \in Executing \cup {"next"}
    BY <1>3, IdleTyped DEF Executing
<1>5. JobsSound
    BY <1>3, IdleTyped DEF JobsSound
<1>6. ApprovalsSound
    BY IdleTyped DEF ApprovalsSound, Init
<1> QED
    BY <1>1, <1>2, <1>4, <1>5, <1>6, <1>7 DEF IInv, TypeOK

LEMMA TypesKeptByJobs ==
    ASSUME IInv, NEW j \in Jobs, StartJob(j) \/ JobStep(j)
    PROVE  IInv'
<1>1. /\ job' \in [Jobs -> JobState]
      /\ \A i \in Jobs : /\ job'[i].task # NoTask <=> job'[i].pc \in Executing \cup {"next"}
                         /\ job'[i].pc = "check" => i \in Tasks
                         /\ job'[i].pc \notin InRun => job'[i].tools = {}
    BY TypesOf, JobsStayFine DEF JobAlone, JobFine
<1>2. /\ human' \in [Humans -> HumanState] /\ decider' \in [Deciders -> DeciderState]
      /\ decider' = decider
    BY TypesOf, JobEffects
<1>3. status' \in [Tasks -> TaskStatus]
    BY TypesOf, JobEffects, RowsTyped
<1>4. session' \in [Tasks -> SessionStatus]
    BY TypesOf, JobEffects, RowsTyped, AuditLeads DEF SessionStatus
<1>5. inbox' \in [Tasks -> {"none", "open", "answered"}]
    BY TypesOf, JobEffects, RowsTyped
<1>6. RequestsKept
    BY JobEffects, RequestsSound
<1>7. \A a \in ApprovalIds : approvals'[a].state # "none" => approvals'[a].task \in Tasks
    BY JobEffects, RequestsSound DEF IInv, ApprovalsSound
<1>8. ApprovalsSound'
    BY <1>2, <1>6, <1>7 DEF IInv, ApprovalsSound, RequestsKept
<1>9. needs' \in [Tasks -> Needs] /\ EditTyped
    <2>1. needs \in [Tasks -> Needs] /\ (edit' = edit => EditTyped)
        BY TypesOf DEF EditTyped
    <2> QED
        BY <2>1, JobEffects, EditSteps
<1>10. queued' \subseteq {i \in Jobs : job'[i].pc = "idle"}
    BY QueueStays
<1> QED
    BY <1>1, <1>2, <1>3, <1>4, <1>5, <1>6, <1>8, <1>9, <1>10
    DEF IInv, TypeOK, JobsSound, RequestsKept, EditTyped

\* What a decision does to the rows.
LEMMA DeciderEffects ==
    ASSUME NEW d \in Deciders, FindApproval(d) \/ DeciderStep(d)
    PROVE  /\ UNCHANGED <<needs, inbox, job, queued, human, edit>>
           /\ status' = status \/ (Unblock(d) /\ Write(Named(d), "in_progress"))
           /\ session' = session \/ DecisionCheckpoint(d)
           /\ approvals' = approvals \/ UpdateApproval(d)
           /\ DeciderStep(d) => decider[d].pc # "idle"
<1>1. CASE FindApproval(d)
    BY <1>1 DEF FindApproval, DecideAt, DeciderStep, UpdateApproval, ExecutionFails, ReadBlocked,
                ReadTransition, Unblock, DecisionCheckpoint, Rows, Workers
<1>2. CASE ExecutionFails(d) \/ ReadBlocked(d) \/ ReadTransition(d)
    BY <1>2 DEF ExecutionFails, ReadBlocked, ReadTransition, DecideAt, Rows, Workers
<1>3. CASE UpdateApproval(d)
    BY <1>3 DEF UpdateApproval, DecideAt, Workers
<1>4. CASE Unblock(d)
    BY <1>4 DEF Unblock, DecideAt, Workers
<1>5. CASE DecisionCheckpoint(d)
    BY <1>5 DEF DecisionCheckpoint, DecideAt, Workers
<1> QED
    BY <1>1, <1>2, <1>3, <1>4, <1>5 DEF DeciderStep

LEMMA TypesKeptByDeciders ==
    ASSUME IInv, NEW d \in Deciders, FindApproval(d) \/ DeciderStep(d)
    PROVE  IInv'
<1>0. ApprovalsSound /\ Named(d) = approvals[decider[d].approval].task
    BY DEF IInv, Named
<1>1. UNCHANGED <<needs, inbox, job, queued, human, edit>>
    BY DeciderEffects
<1>2. DeciderAlone(d)
    BY DeciderSteps DEF DeciderStep, Decides, Concludes
<1>3. RequestsKept /\ \A a \in ApprovalIds :
              approvals'[a].state # "none" => approvals'[a].task \in Tasks
    BY <1>0, DeciderEffects, RequestsSound DEF ApprovalsSound
<1>4. decider'[d].pc # "idle" => /\ decider'[d].approval \in ApprovalIds
                                 /\ approvals[decider'[d].approval].state # "none"
    <2>1. CASE FindApproval(d)
        BY <2>1, DeciderSteps
    <2>2. CASE DeciderStep(d)
        <3>1. decider[d].pc # "idle"
            BY <2>2, DeciderEffects
        <3>2. decider'[d].approval = decider[d].approval \/ decider'[d] = IdleDecider
            BY <2>2, DeciderSteps DEF DeciderStep, Decides, Concludes
        <3> QED
            BY <1>0, <3>1, <3>2, IdleTyped DEF ApprovalsSound
    <2> QED
        BY <2>1, <2>2
<1>5. ApprovalsSound'
    BY <1>0, <1>2, <1>3, <1>4 DEF ApprovalsSound, DeciderAlone, RequestsKept
<1>6. status' \in [Tasks -> TaskStatus]
    BY DeciderEffects, TypesOf DEF Write, TaskStatus
<1>7. session' \in [Tasks -> SessionStatus]
    <2>1. DecisionStatus(decider[d].verdict) \in SessionStatus
        BY DEF DecisionStatus, SessionStatus
    <2> QED
        BY <2>1, DeciderEffects, TypesOf DEF DecisionCheckpoint
<1> QED
    BY <1>1, <1>2, <1>3, <1>5, <1>6, <1>7 DEF IInv, TypeOK, JobsSound, DeciderAlone, RequestsKept

LEMMA HumanEffects ==
    ASSUME IInv, NEW h \in Humans, HumanRead(h) \/ HumanReadEdit(h) \/ HumanStep(h)
    PROVE  /\ UNCHANGED <<session, approvals, inbox, job, decider>>
           /\ status' = status \/ (HumanWrite(h) /\ Write(human[h].task, human[h].to))
           /\ \/ UNCHANGED <<needs, edit>>
              \/ needs' = needs /\ \E t \in Tasks : ReadEdit(h, t)
              \/ WriteEdit(h) /\ UNCHANGED status
           /\ queued' = queued \/ queued' = Enqueued(Batch)
BY DEF HumanRead, HumanReadEdit, HumanStep, HumanWrite, HumanEdit, HumanWake, Rows

LEMMA EnqueueIdle ==
    ASSUME IInv, NEW j
    PROVE  Enqueued(j) \subseteq {i \in Jobs : job[i].pc = "idle"}
BY TypesOf DEF Enqueued, At

LEMMA TypesKeptByHumans ==
    ASSUME IInv, NEW h \in Humans, HumanRead(h) \/ HumanReadEdit(h) \/ HumanStep(h)
    PROVE  IInv'
<1>1. human' \in [Humans -> HumanState]
    BY HumanSteps DEF HumanAlone
<1>2. UNCHANGED <<session, approvals, inbox, job, decider>>
    BY HumanEffects
<1>3. status' \in [Tasks -> TaskStatus]
    BY HumanEffects, TypesOf DEF Write, HumanState
<1>4. needs' \in [Tasks -> Needs] /\ EditTyped
    <2>1. needs \in [Tasks -> Needs] /\ (edit' = edit => EditTyped)
        BY TypesOf DEF EditTyped
    <2> QED
        BY <2>1, HumanEffects, EditSteps
<1>5. queued' \subseteq {j \in Jobs : job[j].pc = "idle"}
    BY HumanEffects, TypesOf, EnqueueIdle
<1> QED
    BY <1>1, <1>2, <1>3, <1>4, <1>5 DEF IInv, TypeOK, JobsSound, ApprovalsSound, EditTyped

LEMMA TypesKeptByEnqueue ==
    ASSUME IInv, NEW j, queued' = Enqueued(j), UNCHANGED <<Rows, job, edit, Requesters>>
    PROVE  IInv'
<1>1. queued' \subseteq {i \in Jobs : job[i].pc = "idle"}
    BY EnqueueIdle
<1> QED
    BY <1>1 DEF IInv, TypeOK, JobsSound, ApprovalsSound, Rows, Requesters

LEMMA TypesKeptByCrash ==
    ASSUME IInv, Crash
    PROVE  IInv'
<1>1. /\ job' = [j \in Jobs |-> IdleJob] /\ queued' = {}
      /\ UNCHANGED <<status, needs, session, approvals, inbox>>
    BY DEF Crash, Rows
<1>2. /\ job' \in [Jobs -> JobState] /\ EditTyped
      /\ human' \in [Humans -> HumanState] /\ decider' \in [Deciders -> DeciderState]
    BY IdleTyped DEF Crash, EditTyped
<1>3. /\ \A j \in Jobs : job'[j].task # NoTask <=> job'[j].pc \in Executing \cup {"next"}
      /\ JobsSound'
    BY <1>1, IdleTyped DEF JobsSound, Executing
<1>4. ApprovalsSound'
    BY <1>1, IdleTyped DEF ApprovalsSound, Crash, IInv
<1> QED
    BY <1>1, <1>2, <1>3, <1>4 DEF IInv, TypeOK, EditTyped

\* Everybody else: founders who answer, and what puts a job into the queue.
StandsBy ==
    /\ UNCHANGED <<status, needs, session, approvals, job, human, edit, decider>>
    /\ inbox' = inbox \/ \E t \in Tasks : Answer(t)

LEMMA StepsAre ==
    ASSUME [Next]_vars
    PROVE  \/ \E j \in Jobs : StartJob(j) \/ JobStep(j)
           \/ \E h \in Humans : HumanRead(h) \/ HumanReadEdit(h) \/ HumanStep(h)
           \/ \E d \in Deciders : FindApproval(d) \/ DeciderStep(d)
           \/ StandsBy
           \/ Crash
<1>1. ASSUME NEW t \in Tasks, Answer(t) PROVE StandsBy
    BY <1>1 DEF Answer, Workers, StandsBy
<1>2. ASSUME UNCHANGED <<Rows, job, edit, Requesters>> PROVE StandsBy
    BY <1>2 DEF Rows, Requesters, StandsBy
<1>3. ASSUME NEW t \in Tasks, Dispatch(t) PROVE StandsBy
    BY <1>2, <1>3 DEF Dispatch
<1>4. ASSUME CallAgent PROVE StandsBy
    BY <1>2, <1>4 DEF CallAgent
<1>5. CASE UNCHANGED vars
    BY <1>5 DEF vars, StandsBy
<1> QED
    BY <1>1, <1>3, <1>4, <1>5 DEF Next

LEMMA TypesKept ==
    ASSUME IInv, [Next]_vars
    PROVE  IInv'
<1>1. ASSUME NEW j \in Jobs, StartJob(j) \/ JobStep(j) PROVE IInv'
    BY <1>1, TypesKeptByJobs
<1>2. ASSUME NEW h \in Humans, HumanRead(h) \/ HumanReadEdit(h) \/ HumanStep(h) PROVE IInv'
    BY <1>2, TypesKeptByHumans
<1>3. ASSUME NEW d \in Deciders, FindApproval(d) \/ DeciderStep(d) PROVE IInv'
    BY <1>3, TypesKeptByDeciders
<1>4. ASSUME NEW t \in Tasks, Answer(t) PROVE IInv'
    <2>1. inbox' \in [Tasks -> {"none", "open", "answered"}]
        BY <1>4, TypesOf DEF Answer
    <2>2. UNCHANGED <<status, needs, session, approvals, job, queued, human, edit, decider>>
        BY <1>4 DEF Answer, Workers
    <2> QED
        BY <2>1, <2>2 DEF IInv, TypeOK, JobsSound, ApprovalsSound
<1>5. ASSUME Crash PROVE IInv'
    BY <1>5, TypesKeptByCrash
<1>6. CASE UNCHANGED vars
    BY <1>6 DEF vars, IInv, TypeOK, JobsSound, ApprovalsSound
<1>7. ASSUME NEW j, queued' = Enqueued(j), UNCHANGED <<Rows, job, edit, Requesters>> PROVE IInv'
    BY <1>7, TypesKeptByEnqueue
<1>8. ASSUME NEW t \in Tasks, Dispatch(t) PROVE IInv'
    BY <1>7, <1>8 DEF Dispatch
<1>9. ASSUME CallAgent PROVE IInv'
    BY <1>7, <1>9 DEF CallAgent
<1> QED
    BY <1>1, <1>2, <1>3, <1>4, <1>5, <1>6, <1>8, <1>9 DEF Next

\* Whatever coroutines do, in whatever order, with crashes and failures: a job
\* holds a task exactly while it runs one and tools only inside a run, and
\* whoever decides holds a request that exists and names a task
\* (TaskExecutionCoordinator, ApprovalController.decide).
THEOREM TaskInvariant ==
    Spec => []IInv
<1>1. Init => IInv
    BY TypesStart
<1>2. IInv /\ [Next]_vars => IInv'
    BY TypesKept
<1> QED
    BY <1>1, <1>2, PTL DEF Spec

\* The types of the rows and of the coroutines (TaskExecutionCoordinator).
THEOREM TypesHold ==
    Spec => []TypeOK
<1>1. IInv => TypeOK
    BY DEF IInv
<1> QED
    BY <1>1, TaskInvariant, PTL

-----------------------------------------------------------------------------
(* Dependencies under a run                                                 *)

\* The ways a job moves, by what they do to its task and its tools.
Moved(j) ==
    \/ Finishes(j)
    \/ Lists(j)
    \/ \E t \in Tasks : Loads(j, t) /\ (t \in job[j].found \/ Ready(t))
    \/ Tests(j) /\ status' = status
    \/ Uses(j, "inbox.send")
    \/ Uses(j, "approval.request") /\ (ToolRequestApproval(j) \/ ToolRequestRefused(j))
    \/ Forgets(j)
    \/ \E pc \in JobPc \ {"write"} :
          /\ Stays(j, pc)
          /\ pc = "fallbackWrite" => MayBecome(job[j].task, "done") /\ status' = status

LEMMA JobMoves ==
    ASSUME IInv, NEW j \in Jobs, StartJob(j) \/ JobStep(j)
    PROVE  Moved(j)
<1>0. job[j].found \subseteq Tasks
    BY TypesOf
<1>1. ASSUME Stops(j) PROVE Finishes(j)
    BY <1>1, IdleTyped DEF Stops, Finishes
<1>2. ASSUME NEW pc, Goes(j, pc) PROVE Stays(j, pc)
    BY <1>2 DEF Goes, Stays
<1>3. CASE StartJob(j)
    BY <1>2, <1>3, SelectionSteps DEF Moved, JobPc
<1>4. CASE List(j)
    BY <1>1, <1>4, SelectionSteps DEF Moved
<1>5. CASE Pick(j)
    BY <1>0, <1>1, <1>5, SelectionSteps DEF Moved
<1>6. CASE Check(j)
    BY <1>1, <1>6, SelectionSteps DEF Moved
<1>7. CASE LoadSession(j) \/ CreateSession(j) \/ SaveSession(j) \/ Escalate(j) \/ Settle(j)
           \/ FallbackWrite(j) \/ ToolEdit(j)
    <2>1. \E pc \in {"create", "loop", "audit", "next", "fallback"} : Goes(j, pc)
        BY <1>7, RunSteps
    <2> QED
        BY <1>2, <2>1 DEF Moved, JobPc
<1>8. CASE SkipRun(j) \/ FailJob(j) \/ EndRun(j) \/ FinishJob(j)
    BY <1>1, <1>8, RunSteps DEF Moved
<1>9. CASE ToolUpdateStatus(j)
    BY <1>9, RunSteps DEF Moved, ToolUpdateStatus
<1>10. CASE ToolWrite(j) \/ EndLoop(j) \/ ToolUpdateTask(j)
    BY <1>10, RunSteps DEF Moved, JobPc
<1>11. CASE ToolRequestApproval(j) \/ ToolRequestRefused(j) \/ ToolSendInbox(j)
    BY <1>11, RunSteps DEF Moved
<1>12. CASE Audit(j)
    BY <1>12, RunSteps DEF Moved
<1>13. CASE Fallback(j)
    <2>1. status' = status
        BY <1>13 DEF Fallback
    <2> QED
        BY <1>2, <1>13, <2>1, RunSteps DEF Moved, JobPc
<1> QED
    BY <1>3, <1>4, <1>5, <1>6, <1>7, <1>8, <1>9, <1>10, <1>11, <1>12, <1>13 DEF JobStep

\* evaluateTaskReadiness: nothing is ready while a dependency is open.
LEMMA ReadyMeansDone ==
    ASSUME IInv, NEW t \in Tasks, Ready(t), NEW u \in needs[t].deps
    PROVE  status[u] = "done"
<1>1. u \in Tasks /\ DOMAIN status = Tasks
    BY TypesOf DEF Needs
<1>2. DependencyBlockers(t, needs[t].deps, status) = {}
    BY DEF Ready, IsReady, Blockers
<1>3. u # t
    <2>1. {[code |-> "DEPENDENCY_CYCLE", taskId |-> d] : d \in needs[t].deps \cap {t}} = {}
        BY <1>2 DEF DependencyBlockers
    <2> QED
        BY <2>1
<1>4. {[code |-> "DEPENDENCY_NOT_DONE", taskId |-> d] :
          d \in {x \in (needs[t].deps \ {t}) \cap DOMAIN status : status[x] # "done"}} = {}
    BY <1>2 DEF DependencyBlockers
<1> QED
    BY <1>1, <1>3, <1>4

\* Steps of others leave a job alone, but for a crash, which ends them all.
LEMMA JobsElsewhere ==
    ASSUME IInv, [Next]_vars
    PROVE  \/ job' = job
           \/ Crash /\ job' = [j \in Jobs |-> IdleJob]
           \/ \E j \in Jobs : StartJob(j) \/ JobStep(j)
BY StepsAre, HumanEffects, DeciderEffects DEF StandsBy, Crash

\* A job comes to hold only what is ready.
LEMMA HeldIsReady ==
    ASSUME IInv, [Next]_vars, NEW j \in Jobs, NEW t, Holds(j, t)'
    PROVE  Holds(j, t) \/ (t \in Tasks /\ Ready(t))
<1>0. NoTask \notin Tasks /\ t \in Tasks
    BY ExecutionAssumption DEF Holds
<1>1. CASE job' = job
    BY <1>1 DEF Holds
<1>2. CASE job' = [i \in Jobs |-> IdleJob]
    BY <1>0, <1>2, IdleTyped DEF Holds
<1>3. ASSUME NEW i \in Jobs \ {j}, StartJob(i) \/ JobStep(i) PROVE Holds(j, t)
    BY <1>3, JobsStayFine DEF JobAlone, Holds
<1>4. ASSUME StartJob(j) \/ JobStep(j) PROVE Holds(j, t) \/ Ready(t)
    <2>1. Moved(j)
        BY <1>4, JobMoves
    <2>2. CASE Finishes(j)
        BY <1>0, <2>2 DEF Finishes, Holds
    <2>3. CASE Lists(j)
        BY <2>3 DEF Lists, Holds, Selectable
    <2>4. ASSUME NEW u \in Tasks, Loads(j, u), u \in job[j].found \/ Ready(u)
          PROVE  Holds(j, t) \/ Ready(t)
        BY <2>4 DEF Loads, Holds
    <2>5. CASE Tests(j) \/ Forgets(j) \/ \E tool : Uses(j, tool)
        BY <2>5 DEF Tests, Stays, Forgets, Uses, Holds
    <2>6. ASSUME NEW pc, Stays(j, pc) PROVE Holds(j, t)
        BY <2>6 DEF Stays, Holds
    <2> QED
        BY <2>1, <2>2, <2>3, <2>4, <2>5, <2>6 DEF Moved
<1> QED
    BY <1>0, <1>1, <1>2, <1>3, <1>4, JobsElsewhere

LEMMA DependenciesStay ==
    ASSUME IInv, ReadinessKept, HNext
    PROVE  ReadinessKept'
<1>1. [Next]_vars
    BY DEF HNext
<1>2. \A u \in Tasks : status[u] = "done" \/ u \in undone
                       => status'[u] = "done" \/ u \in undone'
    BY DEF HNext
<1>3. ASSUME NEW j \in Jobs, NEW t, Holds(j, t)', <<j, t>> \notin overtaken',
             NEW u \in needs'[t].deps
      PROVE  status'[u] = "done" \/ u \in undone'
    <2>1. t \in Tasks /\ <<j, t>> \in Jobs \X Tasks
        BY <1>3 DEF Holds
    <2>2. <<j, t>> \notin overtaken /\ ~Opens(t)
        BY <1>3, <2>1 DEF HNext
    <2>3. u \in Tasks
        <3>1. needs' \in [Tasks -> Needs]
            BY <1>1, TypesKept DEF IInv, TypeOK
        <3> QED
            BY <1>3, <2>1, <3>1 DEF Needs
    <2>4. CASE u \notin needs[t].deps
        <3>1. status[u] = "done"
            BY <1>3, <2>2, <2>4 DEF Opens
        <3> QED
            BY <1>2, <2>3, <3>1
    <2>5. CASE u \in needs[t].deps /\ Holds(j, t)
        <3>1. status[u] = "done" \/ u \in undone
            BY <2>2, <2>5 DEF ReadinessKept
        <3> QED
            BY <1>2, <2>3, <3>1
    <2>6. CASE u \in needs[t].deps /\ Ready(t)
        BY <1>2, <2>1, <2>3, <2>6, ReadyMeansDone
    <2>7. Holds(j, t) \/ Ready(t)
        BY <1>1, <1>3, HeldIsReady
    <2> QED
        BY <2>4, <2>5, <2>6, <2>7
<1> QED
    BY <1>3 DEF ReadinessKept

-----------------------------------------------------------------------------
(* Writers of a status                                                      *)

\* Who changed the status of t: a writer that tested before, and is none now.
JobWrote(t) ==
    \E j \in Jobs : /\ job[j].task = t /\ job[j].pc = "write" /\ job'[j].pc = "loop"
                    /\ status'[t] = job[j].to

FallbackWrote(t) ==
    \E j \in Jobs : /\ job[j].task = t /\ job[j].pc = "fallbackWrite" /\ job'[j].pc = "next"
                    /\ status'[t] = "done"

HumanWrote(t) ==
    \E h \in Humans : /\ human[h].task = t /\ human[h].pc = "write" /\ human'[h].pc # "write"
                      /\ status'[t] = human[h].to

DeciderWrote(t) ==
    \E d \in Deciders : /\ Named(d) = t /\ decider[d].pc = "write"
                        /\ decider'[d].pc = "checkpoint" /\ status'[t] = "in_progress"

LEMMA WhoWrote ==
    ASSUME IInv, [Next]_vars, NEW t \in Tasks, status'[t] # status[t]
    PROVE  JobWrote(t) \/ FallbackWrote(t) \/ HumanWrote(t) \/ DeciderWrote(t)
<1>0. status \in [Tasks -> TaskStatus]
    BY TypesOf
<1>1. ASSUME NEW j \in Jobs, StartJob(j) \/ JobStep(j)
      PROVE  JobWrote(t) \/ FallbackWrote(t)
    <2>1. CASE ToolWrite(j) /\ SetsStatus(job[j].task, job[j].to)
        <3>1. job[j].task = t /\ status'[t] = job[j].to
            BY <1>0, <2>1 DEF SetsStatus, Write
        <3>2. job[j].pc = "write" /\ job'[j].pc = "loop"
            BY <2>1, RunSteps DEF ToolWrite, At, Stays
        <3> QED
            BY <3>1, <3>2 DEF JobWrote
    <2>2. CASE FallbackWrite(j) /\ SetsStatus(job[j].task, "done")
        <3>1. job[j].task = t /\ status'[t] = "done"
            BY <1>0, <2>2 DEF SetsStatus, Write
        <3>2. job[j].pc = "fallbackWrite" /\ job'[j].pc = "next"
            BY <2>2, RunSteps DEF FallbackWrite, At, Goes
        <3> QED
            BY <3>1, <3>2 DEF FallbackWrote
    <2> QED
        BY <1>1, <2>1, <2>2, JobEffects
<1>2. ASSUME NEW h \in Humans, HumanRead(h) \/ HumanReadEdit(h) \/ HumanStep(h)
      PROVE  HumanWrote(t)
    <2>1. HumanWrite(h)
        BY <1>2, HumanEffects
    <2>2. human[h].task = t /\ status'[t] = human[h].to
        BY <1>0, <2>1 DEF HumanWrite, Write
    <2>3. human[h].pc = "write" /\ human'[h].pc # "write"
        BY <2>1, HumanSteps DEF HumanWrite, HumanAt, HumanStep
    <2> QED
        BY <2>2, <2>3 DEF HumanWrote
<1>3. ASSUME NEW d \in Deciders, FindApproval(d) \/ DeciderStep(d) PROVE DeciderWrote(t)
    <2>1. Unblock(d)
        BY <1>3, DeciderEffects
    <2>2. Named(d) = t /\ status'[t] = "in_progress"
        BY <1>0, <2>1 DEF Unblock, Write
    <2>3. decider[d].pc = "write" /\ decider'[d].pc = "checkpoint"
        BY <2>1, DeciderSteps DEF Unblock, DecideAt, Decides
    <2> QED
        BY <2>2, <2>3 DEF DeciderWrote
<1> QED
    BY <1>1, <1>2, <1>3, StepsAre DEF StandsBy, Crash, Rows

\* Who has tested: a test in this step finds the status it leaves, and an
\* earlier one is remembered as it was.
LEMMA JobTested ==
    ASSUME IInv, [Next]_vars, NEW j \in Jobs
    PROVE  /\ job'[j].pc = "write" =>
                 \/ status' = status /\ MayBecome(job'[j].task, job'[j].to)
                 \/ job'[j] = job[j]
           /\ job'[j].pc = "fallbackWrite" =>
                 \/ status' = status /\ MayBecome(job'[j].task, "done")
                 \/ job'[j] = job[j]
<1>1. CASE job' = job
    BY <1>1
<1>2. CASE job' = [i \in Jobs |-> IdleJob]
    BY <1>2, IdleTyped
<1>3. ASSUME NEW i \in Jobs \ {j}, StartJob(i) \/ JobStep(i) PROVE job'[j] = job[j]
    BY <1>3, JobsStayFine DEF JobAlone
<1>4. ASSUME StartJob(j) \/ JobStep(j)
      PROVE  /\ job'[j].pc = "write" => status' = status /\ MayBecome(job'[j].task, job'[j].to)
             /\ job'[j].pc = "fallbackWrite" =>
                   status' = status /\ MayBecome(job'[j].task, "done")
    <2>1. Moved(j)
        BY <1>4, JobMoves
    <2>2. CASE Finishes(j) \/ Lists(j) \/ (\E tool : Uses(j, tool)) \/ (\E t \in Tasks : Loads(j, t))
        BY <2>2 DEF Finishes, Lists, Uses, Loads
    <2>3. CASE Forgets(j)
        BY <2>3, AuditLeads DEF Forgets
    <2>4. CASE Tests(j) /\ status' = status
        BY <2>4 DEF Tests, Stays
    <2>5. ASSUME NEW pc \in JobPc \ {"write"}, Stays(j, pc),
                 pc = "fallbackWrite" => MayBecome(job[j].task, "done") /\ status' = status
          PROVE  /\ job'[j].pc # "write"
                 /\ job'[j].pc = "fallbackWrite" =>
                       status' = status /\ MayBecome(job'[j].task, "done")
        BY <2>5 DEF Stays
    <2> QED
        BY <2>1, <2>2, <2>3, <2>4, <2>5 DEF Moved
<1> QED
    BY <1>1, <1>2, <1>3, <1>4, JobsElsewhere

LEMMA HumanTested ==
    ASSUME IInv, [Next]_vars, NEW h \in Humans, human'[h].pc = "write"
    PROVE  \/ status' = status /\ MayBecome(human'[h].task, human'[h].to)
           \/ human'[h] = human[h]
<1>1. ASSUME NEW g \in Humans, HumanRead(g) \/ HumanReadEdit(g) \/ HumanStep(g), h # g
      PROVE  human'[h] = human[h]
    BY <1>1, HumanSteps DEF HumanAlone
<1>2. ASSUME HumanRead(h) PROVE status' = status /\ MayBecome(human'[h].task, human'[h].to)
    BY <1>2, HumanSteps DEF HumanRead, Rows
<1>3. ~HumanReadEdit(h) /\ ~HumanStep(h)
    BY HumanSteps
<1>4. ~Crash
    BY IdleTyped DEF Crash
<1>5. ASSUME NEW j \in Jobs, StartJob(j) \/ JobStep(j) PROVE human' = human
    BY <1>5, JobEffects
<1>6. ASSUME NEW d \in Deciders, FindApproval(d) \/ DeciderStep(d) PROVE human' = human
    BY <1>6, DeciderEffects
<1> QED
    BY <1>1, <1>2, <1>3, <1>4, <1>5, <1>6, StepsAre DEF StandsBy

\* The request a decider holds names the same task as long as it is held.
LEMMA NamesStay ==
    ASSUME IInv, [Next]_vars
    PROVE  RequestsKept
<1>1. ASSUME NEW j \in Jobs, StartJob(j) \/ JobStep(j) PROVE RequestsKept
    BY <1>1, JobEffects, RequestsSound
<1>2. ASSUME NEW d \in Deciders, FindApproval(d) \/ DeciderStep(d) PROVE RequestsKept
    BY <1>2, DeciderEffects, RequestsSound
<1>3. ASSUME ~\E j \in Jobs : StartJob(j) \/ JobStep(j),
             ~\E d \in Deciders : FindApproval(d) \/ DeciderStep(d)
      PROVE  approvals' = approvals
    BY <1>3, StepsAre, HumanEffects DEF StandsBy, Crash, Rows
<1> QED
    BY <1>1, <1>2, <1>3, RequestsSound

\* A decider at work keeps its request, or found it in this step.
LEMMA DecidersElsewhere ==
    ASSUME IInv, [Next]_vars, NEW d \in Deciders
    PROVE  \/ decider'[d] = decider[d]
           \/ /\ decider'[d] = IdleDecider
              /\ ExecutionFails(d) \/ DecisionCheckpoint(d) \/ Crash
           \/ FindApproval(d) /\ decider[d].pc = "idle" /\ decider'[d].pc = "update"
           \/ /\ decider[d].pc # "idle" /\ decider'[d].pc # "idle"
              /\ decider'[d].approval = decider[d].approval
              /\ decider'[d].verdict = decider[d].verdict
              /\ DeciderStep(d)
              /\ decider'[d].pc = "write" =>
                    status' = status /\ MayBecome(Named(d), "in_progress")
              /\ decider'[d].pc = "update" => decider[d].pc = "update"
<1>1. ASSUME NEW e \in Deciders \ {d}, FindApproval(e) \/ DeciderStep(e)
      PROVE  decider'[d] = decider[d]
    BY <1>1, DeciderSteps DEF DeciderStep, Decides, Concludes, DeciderAlone
<1>2. CASE FindApproval(d)
    BY <1>2, DeciderSteps
<1>3. ASSUME NEW pc \in {"unblock", "transition", "checkpoint"}, Decides(d, pc), DeciderStep(d),
             decider[d].pc # "idle"
      PROVE  /\ decider[d].pc # "idle" /\ decider'[d].pc # "idle"
             /\ decider'[d].approval = decider[d].approval
             /\ decider'[d].verdict = decider[d].verdict
             /\ DeciderStep(d) /\ decider'[d].pc # "write" /\ decider'[d].pc # "update"
    BY <1>3 DEF Decides
<1>4. CASE UpdateApproval(d) \/ ReadBlocked(d) \/ Unblock(d)
    <2>1. decider[d].pc # "idle" /\ DeciderStep(d)
        BY <1>4, DeciderEffects DEF DeciderStep
    <2>2. \E pc \in {"unblock", "transition", "checkpoint"} : Decides(d, pc)
        BY <1>4, DeciderSteps
    <2> QED
        BY <1>3, <2>1, <2>2
<1>5. CASE ReadTransition(d)
    <2>1. decider[d].pc # "idle" /\ DeciderStep(d) /\ status' = status
        BY <1>5 DEF ReadTransition, DecideAt, DeciderStep, Rows
    <2>2. CASE Decides(d, "checkpoint")
        BY <1>3, <2>1, <2>2
    <2>3. CASE Decides(d, "write") /\ MayBecome(Named(d), "in_progress")
        BY <2>1, <2>3 DEF Decides
    <2> QED
        BY <1>5, <2>2, <2>3, DeciderSteps
<1>6. CASE ExecutionFails(d) \/ DecisionCheckpoint(d)
    BY <1>6, DeciderSteps DEF Concludes
<1>7. CASE Crash
    BY <1>7 DEF Crash
<1>8. ASSUME NEW j \in Jobs, StartJob(j) \/ JobStep(j) PROVE decider' = decider
    BY <1>8, JobEffects
<1>9. ASSUME NEW h \in Humans, HumanRead(h) \/ HumanReadEdit(h) \/ HumanStep(h)
      PROVE  decider' = decider
    BY <1>9, HumanEffects
<1> QED
    BY <1>1, <1>2, <1>4, <1>5, <1>6, <1>7, <1>8, <1>9, StepsAre DEF StandsBy, DeciderStep

LEMMA DeciderTested ==
    ASSUME IInv, [Next]_vars, NEW d \in Deciders, decider'[d].pc = "write"
    PROVE  \/ status' = status /\ MayBecome(Named(d)', "in_progress")
           \/ decider'[d] = decider[d] /\ Named(d)' = Named(d)
<1>1. decider[d].pc # "idle" /\ decider'[d].approval = decider[d].approval
    BY DecidersElsewhere, IdleTyped
<1>2. Named(d)' = Named(d)
    BY <1>1, NamesStay DEF RequestsKept, Named, IInv, ApprovalsSound
<1>3. \/ status' = status /\ MayBecome(Named(d), "in_progress")
      \/ decider'[d] = decider[d]
    BY DecidersElsewhere, IdleTyped
<1> QED
    BY <1>2, <1>3

\* The writers as movers.
LEMMA MoversAre ==
    ASSUME NEW t
    PROVE  /\ \A j \in Jobs : job[j].task = t /\ job[j].pc \in {"write", "fallbackWrite"}
                              => <<"job", j>> \in Movers(t)
           /\ \A h \in Humans : human[h].task = t /\ human[h].pc = "write"
                              => <<"human", h>> \in Movers(t)
           /\ \A d \in Deciders : Named(d) = t /\ decider[d].pc = "write"
                              => <<"decider", d>> \in Movers(t)
BY DEF Movers, DecideAt

\* While one mover is all there is, nobody else writes.
LEMMA LoneJob ==
    ASSUME IInv, TestsHold, [Next]_vars, NEW t \in Tasks \ raced, NEW j \in Jobs,
           job[j].task = t, job[j].pc \in {"write", "fallbackWrite"}, job'[j] = job[j]
    PROVE  status'[t] = status[t]
<1>1. \A x, y \in Movers(t) : x = y
    BY DEF TestsHold
<1>2. <<"job", j>> \in Movers(t)
    BY MoversAre
<1>3. ~JobWrote(t) /\ ~FallbackWrote(t)
    <2>1. ASSUME NEW i \in Jobs, job[i].task = t, job[i].pc \in {"write", "fallbackWrite"}
          PROVE  i = j
        BY <1>1, <1>2, <2>1, MoversAre
    <2> QED
        BY <2>1 DEF JobWrote, FallbackWrote
<1>4. ~HumanWrote(t)
    <2>1. ASSUME NEW h \in Humans, human[h].task = t, human[h].pc = "write"
          PROVE  FALSE
        <3>1. <<"human", h>> = <<"job", j>>
            BY <1>1, <1>2, <2>1, MoversAre
        <3> QED
            BY <3>1
    <2> QED
        BY <2>1 DEF HumanWrote
<1>5. ~DeciderWrote(t)
    <2>1. ASSUME NEW d \in Deciders, Named(d) = t, decider[d].pc = "write"
          PROVE  FALSE
        <3>1. <<"decider", d>> = <<"job", j>>
            BY <1>1, <1>2, <2>1, MoversAre
        <3> QED
            BY <3>1
    <2> QED
        BY <2>1 DEF DeciderWrote
<1> QED
    BY <1>3, <1>4, <1>5, WhoWrote

LEMMA LoneHuman ==
    ASSUME IInv, TestsHold, [Next]_vars, NEW t \in Tasks \ raced, NEW h \in Humans,
           human[h].task = t, human[h].pc = "write", human'[h] = human[h]
    PROVE  status'[t] = status[t]
<1>1. \A x, y \in Movers(t) : x = y
    BY DEF TestsHold
<1>2. <<"human", h>> \in Movers(t)
    BY MoversAre
<1>3. ~JobWrote(t) /\ ~FallbackWrote(t)
    <2>1. ASSUME NEW i \in Jobs, job[i].task = t, job[i].pc \in {"write", "fallbackWrite"}
          PROVE  FALSE
        <3>1. <<"human", h>> = <<"job", i>>
            BY <1>1, <1>2, <2>1, MoversAre
        <3> QED
            BY <3>1
    <2> QED
        BY <2>1 DEF JobWrote, FallbackWrote
<1>4. ~HumanWrote(t)
    <2>1. ASSUME NEW g \in Humans, human[g].task = t, human[g].pc = "write"
          PROVE  g = h
        BY <1>1, <1>2, <2>1, MoversAre
    <2> QED
        BY <2>1 DEF HumanWrote
<1>5. ~DeciderWrote(t)
    <2>1. ASSUME NEW d \in Deciders, Named(d) = t, decider[d].pc = "write"
          PROVE  FALSE
        <3>1. <<"decider", d>> = <<"human", h>>
            BY <1>1, <1>2, <2>1, MoversAre
        <3> QED
            BY <3>1
    <2> QED
        BY <2>1 DEF DeciderWrote
<1> QED
    BY <1>3, <1>4, <1>5, WhoWrote

LEMMA LoneDecider ==
    ASSUME IInv, TestsHold, [Next]_vars, NEW t \in Tasks \ raced, NEW d \in Deciders,
           Named(d) = t, decider[d].pc = "write", decider'[d] = decider[d]
    PROVE  status'[t] = status[t]
<1>1. \A x, y \in Movers(t) : x = y
    BY DEF TestsHold
<1>2. <<"decider", d>> \in Movers(t)
    BY MoversAre
<1>3. ~JobWrote(t) /\ ~FallbackWrote(t)
    <2>1. ASSUME NEW i \in Jobs, job[i].task = t, job[i].pc \in {"write", "fallbackWrite"}
          PROVE  FALSE
        <3>1. <<"decider", d>> = <<"job", i>>
            BY <1>1, <1>2, <2>1, MoversAre
        <3> QED
            BY <3>1
    <2> QED
        BY <2>1 DEF JobWrote, FallbackWrote
<1>4. ~HumanWrote(t)
    <2>1. ASSUME NEW h \in Humans, human[h].task = t, human[h].pc = "write"
          PROVE  FALSE
        <3>1. <<"decider", d>> = <<"human", h>>
            BY <1>1, <1>2, <2>1, MoversAre
        <3> QED
            BY <3>1
    <2> QED
        BY <2>1 DEF HumanWrote
<1>5. ~DeciderWrote(t)
    <2>1. ASSUME NEW e \in Deciders, Named(e) = t, decider[e].pc = "write"
          PROVE  e = d
        BY <1>1, <1>2, <2>1, MoversAre
    <2> QED
        BY <2>1 DEF DeciderWrote
<1> QED
    BY <1>3, <1>4, <1>5, WhoWrote

LEMMA TestsStay ==
    ASSUME IInv, TestsHold, HNext
    PROVE  TestsHold'
<1>0. [Next]_vars /\ raced' = raced \cup {t \in Tasks : \E x, y \in Movers(t)' : x # y}
    BY DEF HNext
<1> SUFFICES ASSUME NEW t \in Tasks \ raced'
             PROVE  /\ \A x, y \in Movers(t)' : x = y
                    /\ \A j \in Jobs : job'[j].task = t /\ job'[j].pc = "write"
                                       => MayBecome(t, job[j].to)'
                    /\ \A j \in Jobs : job'[j].task = t /\ job'[j].pc = "fallbackWrite"
                                       => MayBecome(t, "done")'
                    /\ \A h \in Humans : human'[h].task = t /\ human'[h].pc = "write"
                                       => MayBecome(t, human[h].to)'
                    /\ \A d \in Deciders : decider'[d].pc = "write" /\ Named(d)' = t
                                       => MayBecome(t, "in_progress")'
    BY DEF TestsHold
<1>1. t \in Tasks \ raced
    BY <1>0
<1>2. \A x, y \in Movers(t)' : x = y
    BY <1>0
<1>3. ASSUME NEW j \in Jobs, job'[j].task = t, job'[j].pc = "write"
      PROVE  MayBecome(t, job[j].to)'
    <2>1. CASE status' = status /\ MayBecome(job'[j].task, job'[j].to)
        BY <1>3, <2>1 DEF MayBecome
    <2>2. CASE job'[j] = job[j]
        <3>1. MayBecome(t, job[j].to)
            BY <1>1, <1>3, <2>2 DEF TestsHold
        <3>2. status'[t] = status[t]
            BY <1>0, <1>1, <1>3, <2>2, LoneJob
        <3> QED
            BY <2>2, <3>1, <3>2 DEF MayBecome
    <2> QED
        BY <1>0, <1>3, <2>1, <2>2, JobTested
<1>4. ASSUME NEW j \in Jobs, job'[j].task = t, job'[j].pc = "fallbackWrite"
      PROVE  MayBecome(t, "done")'
    <2>1. CASE status' = status /\ MayBecome(job'[j].task, "done")
        BY <1>4, <2>1 DEF MayBecome
    <2>2. CASE job'[j] = job[j]
        <3>1. MayBecome(t, "done")
            BY <1>1, <1>4, <2>2 DEF TestsHold
        <3>2. status'[t] = status[t]
            BY <1>0, <1>1, <1>4, <2>2, LoneJob
        <3> QED
            BY <3>1, <3>2 DEF MayBecome
    <2> QED
        BY <1>0, <1>4, <2>1, <2>2, JobTested
<1>5. ASSUME NEW h \in Humans, human'[h].task = t, human'[h].pc = "write"
      PROVE  MayBecome(t, human[h].to)'
    <2>1. CASE status' = status /\ MayBecome(human'[h].task, human'[h].to)
        BY <1>5, <2>1 DEF MayBecome
    <2>2. CASE human'[h] = human[h]
        <3>1. MayBecome(t, human[h].to)
            BY <1>1, <1>5, <2>2 DEF TestsHold
        <3>2. status'[t] = status[t]
            BY <1>0, <1>1, <1>5, <2>2, LoneHuman
        <3> QED
            BY <2>2, <3>1, <3>2 DEF MayBecome
    <2> QED
        BY <1>0, <1>5, <2>1, <2>2, HumanTested
<1>6. ASSUME NEW d \in Deciders, decider'[d].pc = "write", Named(d)' = t
      PROVE  MayBecome(t, "in_progress")'
    <2>1. CASE status' = status /\ MayBecome(Named(d)', "in_progress")
        BY <1>6, <2>1 DEF MayBecome
    <2>2. CASE decider'[d] = decider[d] /\ Named(d)' = Named(d)
        <3>1. MayBecome(t, "in_progress")
            BY <1>1, <1>6, <2>2 DEF TestsHold
        <3>2. status'[t] = status[t]
            BY <1>0, <1>1, <1>6, <2>2, LoneDecider
        <3> QED
            BY <3>1, <3>2 DEF MayBecome
    <2> QED
        BY <1>0, <1>6, <2>1, <2>2, DeciderTested
<1> QED
    BY <1>2, <1>3, <1>4, <1>5, <1>6

LEMMA MovesAreLegal ==
    ASSUME IInv, TestsHold, [Next]_vars, NEW t \in Tasks \ raced, status'[t] # status[t]
    PROVE  status'[t] \in AllowedTransitions[status[t]]
BY WhoWrote DEF TestsHold, JobWrote, FallbackWrote, HumanWrote, DeciderWrote, MayBecome

LEMMA HistoryStarts ==
    HInit => HInv
<1> SUFFICES ASSUME HInit PROVE HInv
    OBVIOUS
<1>1. IInv /\ Init
    BY TypesStart DEF HInit
<1>2. /\ \A j \in Jobs : job[j] = IdleJob
      /\ \A h \in Humans : human[h] = IdleRequest
      /\ \A d \in Deciders : decider[d] = IdleDecider
    BY <1>1 DEF Init
<1>3. ReadinessKept
    BY <1>2, IdleTyped DEF ReadinessKept, Holds
<1>4. \A t \in Tasks : Movers(t) = {}
    BY <1>2, IdleTyped DEF Movers, DecideAt
<1>5. TestsHold
    BY <1>2, <1>4, IdleTyped DEF TestsHold
<1> QED
    BY <1>1, <1>3, <1>5 DEF HInv

LEMMA HistoryKept ==
    ASSUME HInv, [HNext]_hvars
    PROVE  HInv'
<1>1. CASE HNext
    BY <1>1, TypesKept, DependenciesStay, TestsStay DEF HInv, HNext
<1>2. CASE UNCHANGED hvars
    <2>1. UNCHANGED vars /\ UNCHANGED <<undone, raced, overtaken>>
        BY <1>2 DEF hvars
    <2>2. IInv'
        BY <2>1, TypesKept DEF HInv
    <2>3. UNCHANGED <<status, needs, approvals, job, human, decider, undone, raced, overtaken>>
        BY <2>1 DEF vars
    <2>4. ReadinessKept'
        BY <2>3 DEF HInv, ReadinessKept, Holds
    <2>5. TestsHold'
        BY <2>3 DEF HInv, TestsHold, Movers, DecideAt, Named, MayBecome
    <2> QED
        BY <2>2, <2>4, <2>5 DEF HInv
<1> QED
    BY <1>1, <1>2

\* What was ready when it was selected stays so until an edit gives it an open
\* dependency, and what was tested alone still holds when it is written
\* (TaskExecutionCoordinator, updateTask, updateTaskStatus).
THEOREM HistoryInvariant ==
    HSpec => []HInv
<1>1. HInit => HInv
    BY HistoryStarts
<1>2. HInv /\ [HNext]_hvars => HInv'
    BY HistoryKept
<1> QED
    BY <1>1, <1>2, PTL DEF HSpec

\* No run starts or goes on before every task its task depends on is done,
\* but for a dependency that an edit added since the task was selected, or that
\* a racing write has reopened (selectNextTask, executeTask, runTaskForAgent).
THEOREM DependenciesComeFirst ==
    HSpec => []DependenciesDone
<1>1. HInv => DependenciesDone
    BY DEF HInv, ReadinessKept, DependenciesDone, Runs, Holds
<1> QED
    BY <1>1, HistoryInvariant, PTL

\* A status changes by the transition table, whoever changes it, unless two
\* writers have tested their moves of the task at the same time
\* (updateTaskStatus).
THEOREM StatusesMoveLegally ==
    HSpec => MovesLegallyAlone
<1>1. ASSUME HInv, [HNext]_hvars
      PROVE  [\A t \in Tasks :
                 \/ status'[t] = status[t]
                 \/ status'[t] \in AllowedTransitions[status[t]]
                 \/ t \in raced]_hvars
    <2>1. CASE UNCHANGED hvars
        BY <2>1
    <2>2. CASE HNext
        BY <1>1, <2>2, MovesAreLegal DEF HInv, HNext
    <2> QED
        BY <1>1, <2>1, <2>2
<1> QED
    BY <1>1, HistoryInvariant, PTL DEF HSpec, MovesLegallyAlone

-----------------------------------------------------------------------------
(* What a session waits for                                                 *)

LEMMA WhoSaved ==
    ASSUME IInv, [Next]_vars, NEW t \in Tasks, session'[t] # session[t]
    PROVE  \/ session'[t] = "active"
           \/ \E j \in Jobs : /\ SaveSession(j) /\ job[j].task = t
                              /\ session'[t] = ResolveSessionStatus(job[j].tools)
           \/ \E d \in Deciders : /\ DecisionCheckpoint(d) /\ Named(d) = t
                                  /\ session'[t] = DecisionStatus(decider[d].verdict)
<1>0. session \in [Tasks -> SessionStatus]
    BY TypesOf
<1>1. ASSUME NEW j \in Jobs, StartJob(j) \/ JobStep(j)
      PROVE  \/ session'[t] = "active"
             \/ /\ SaveSession(j) /\ job[j].task = t
                /\ session'[t] = ResolveSessionStatus(job[j].tools)
    BY <1>0, <1>1, JobEffects
<1>2. ASSUME NEW d \in Deciders, FindApproval(d) \/ DeciderStep(d)
      PROVE  /\ DecisionCheckpoint(d) /\ Named(d) = t
             /\ session'[t] = DecisionStatus(decider[d].verdict)
    <2>1. DecisionCheckpoint(d)
        BY <1>2, DeciderEffects
    <2> QED
        BY <1>0, <2>1 DEF DecisionCheckpoint
<1> QED
    BY <1>1, <1>2, StepsAre, HumanEffects DEF StandsBy, Crash, Rows

\* A request that is undecided stays so, or its decision is carried out.
LEMMA UndecidedStays ==
    ASSUME IInv, [Next]_vars, NEW t \in Tasks, Undecided(t)
    PROVE  Undecided(t)' \/ DecisionInProgress(t)'
<1>1. PICK a \in ApprovalIds : approvals[a] = [state |-> "pending", task |-> t]
    BY DEF Undecided
<1>2. approvals[a].state = "pending" /\ approvals[a].task = t
    BY <1>1
<1>3. CASE approvals'[a] = approvals[a]
    BY <1>1, <1>3 DEF Undecided
<1>4. ASSUME approvals'[a] # approvals[a] PROVE \E d \in Deciders : UpdateApproval(d)
    <2>1. ASSUME NEW j \in Jobs, StartJob(j) \/ JobStep(j) PROVE approvals'[a] = approvals[a]
        <3>1. CASE approvals' = approvals
            BY <3>1
        <3>2. ASSUME NEW u, RequestsFor(u) PROVE approvals'[a] = approvals[a]
            BY <1>2, <3>2 DEF RequestsFor
        <3> QED
            BY <2>1, <3>1, <3>2, JobEffects
    <2> QED
        BY <1>4, <2>1, StepsAre, HumanEffects, DeciderEffects DEF StandsBy, Crash, Rows
<1>5. ASSUME NEW d \in Deciders, UpdateApproval(d), approvals'[a] # approvals[a]
      PROVE  DecisionInProgress(t)'
    <2>1. decider[d].approval = a
        BY <1>5, TypesOf DEF UpdateApproval
    <2>2. decider'[d].approval = a /\ decider'[d].pc \notin {"idle", "update"}
        BY <1>5, <2>1, DeciderSteps DEF Decides
    <2>3. approvals'[a].task = t
        BY <1>2, NamesStay DEF RequestsKept
    <2> QED
        BY <2>2, <2>3 DEF DecisionInProgress
<1> QED
    BY <1>3, <1>4, <1>5

\* Somebody stays asked, unless a decision is recorded while nothing runs.
LEMMA AskedStays ==
    ASSUME IInv, PNext, NEW t \in Tasks, Asked(t)
    PROVE  \/ Asked(t)'
           \/ /\ \E d \in Deciders : DecisionCheckpoint(d) /\ Named(d) = t
              /\ ~\E j \in Jobs : Runs(j, t)
<1>0. /\ [Next]_vars
      /\ excused' = excused \cup {u \in Tasks : Excuse(u)}
    BY DEF PNext
<1>1. CASE t \in excused
    BY <1>0, <1>1 DEF Asked
<1>2. CASE Undecided(t)
    BY <1>0, <1>2, UndecidedStays DEF Asked
<1>3. ASSUME DecisionInProgress(t)
      PROVE  \/ Asked(t)'
             \/ /\ \E d \in Deciders : DecisionCheckpoint(d) /\ Named(d) = t
                /\ ~\E j \in Jobs : Runs(j, t)
    <2>1. PICK d \in Deciders : /\ decider[d].pc \notin {"idle", "update"}
                                /\ approvals[decider[d].approval].task = t
        BY <1>3 DEF DecisionInProgress
    <2>2. /\ decider[d].approval \in ApprovalIds
          /\ approvals[decider[d].approval].state # "none"
        BY <2>1 DEF IInv, ApprovalsSound
    <2>3. approvals'[decider[d].approval].task = t
        BY <1>0, <2>1, <2>2, NamesStay DEF RequestsKept
    <2>4. ASSUME decider'[d].pc \notin {"idle", "update"},
                 decider'[d].approval = decider[d].approval
          PROVE  Asked(t)'
        BY <2>3, <2>4 DEF Asked, DecisionInProgress
    <2>5. CASE decider'[d] = decider[d]
        BY <2>1, <2>4, <2>5
    <2>6. ASSUME ExecutionFails(d) \/ Crash PROVE Asked(t)'
        <3>1. DecisionDropped(t)
            BY <1>3, <2>1, <2>6 DEF DecisionDropped, Named
        <3> QED
            BY <1>0, <3>1 DEF Excuse, Asked
    <2>7. ASSUME DecisionCheckpoint(d)
          PROVE  \/ Asked(t)'
                 \/ /\ \E e \in Deciders : DecisionCheckpoint(e) /\ Named(e) = t
                    /\ ~\E j \in Jobs : Runs(j, t)
        <3>1. Named(d) = t
            BY <2>1 DEF Named
        <3>2. ASSUME NEW j \in Jobs, Runs(j, t) PROVE Asked(t)'
            BY <1>0, <2>7, <3>1, <3>2 DEF DecisionOverlapsRun, Excuse, Asked
        <3> QED
            BY <2>7, <3>1, <3>2
    <2> QED
        BY <1>0, <2>1, <2>4, <2>5, <2>6, <2>7, DecidersElsewhere
<1> QED
    BY <1>1, <1>2, <1>3 DEF Asked

\* The tool is used only by asking, or by being refused.
LEMMA AskingTools ==
    ASSUME IInv, [Next]_vars, NEW j \in Jobs, "approval.request" \in job'[j].tools
    PROVE  /\ job'[j].task = job[j].task
           /\ \/ "approval.request" \in job[j].tools
              \/ ToolRequestApproval(j) \/ ToolRequestRefused(j)
<1>1. CASE job' = job
    BY <1>1
<1>2. CASE job' = [i \in Jobs |-> IdleJob]
    BY <1>2, IdleTyped
<1>3. ASSUME NEW i \in Jobs \ {j}, StartJob(i) \/ JobStep(i) PROVE job'[j] = job[j]
    BY <1>3, JobsStayFine DEF JobAlone
<1>4. ASSUME StartJob(j) \/ JobStep(j)
      PROVE  /\ job'[j].task = job[j].task
             /\ \/ "approval.request" \in job[j].tools
                \/ ToolRequestApproval(j) \/ ToolRequestRefused(j)
    BY <1>4, JobMoves DEF Moved, Finishes, Lists, Loads, Tests, Stays, Uses, Forgets
<1> QED
    BY <1>1, <1>2, <1>3, <1>4, JobsElsewhere

LEMMA DecisionsStayAwaited ==
    ASSUME IInv, DecisionAwaited, PNext
    PROVE  DecisionAwaited'
<1>0. /\ [Next]_vars
      /\ excused' = excused \cup {u \in Tasks : Excuse(u)}
    BY DEF PNext
<1>1. ASSUME NEW j \in Jobs, "approval.request" \in job'[j].tools
      PROVE  Asked(job[j].task)'
    <2>1. /\ job'[j].task = job[j].task
          /\ \/ "approval.request" \in job[j].tools
             \/ ToolRequestApproval(j) \/ ToolRequestRefused(j)
        BY <1>0, <1>1, AskingTools
    <2>2. job[j].pc \in InRun
        BY <2>1, TypesOf
           DEF ToolRequestApproval, ToolRequestRefused, Calling, InLoop, At, InRun
    <2>3. PICK t \in Tasks : t = job[j].task /\ Runs(j, t)
        BY <2>2, TypesOf DEF InRun, Executing, JobPc, Runs
    <2>4. ASSUME "approval.request" \in job[j].tools PROVE Asked(t)'
        BY <2>3, <2>4, AskedStays DEF DecisionAwaited
    <2>5. CASE ToolRequestApproval(j)
        <3>1. \E a \in ApprovalIds : /\ approvals[a].state = "none"
                                     /\ approvals' = [approvals EXCEPT
                                           ![a] = [state |-> "pending", task |-> t]]
            BY <2>3, <2>5 DEF ToolRequestApproval
        <3>2. Undecided(t)'
            BY <3>1, TypesOf DEF Undecided
        <3>3. Asked(t)'
            BY <3>2 DEF Asked
        <3> QED
            BY <2>1, <2>3, <3>3
    <2>6. CASE ToolRequestRefused(j)
        <3>1. Asked(t)'
            BY <1>0, <2>3, <2>6 DEF Excuse, CallLost, Asked
        <3> QED
            BY <2>1, <2>3, <3>1
    <2> QED
        BY <2>1, <2>3, <2>4, <2>5, <2>6
<1>2. ASSUME NEW t \in Tasks, session'[t] = "waiting_for_approval"
      PROVE  Asked(t)'
    <2>1. ASSUME NEW d \in Deciders, DecisionCheckpoint(d), Named(d) = t PROVE FALSE
        BY <1>2, <2>1, TypesOf DEF DecisionCheckpoint, DecisionStatus
    <2>2. CASE session'[t] = session[t]
        BY <1>2, <2>1, <2>2, AskedStays DEF DecisionAwaited
    <2>3. ASSUME NEW j \in Jobs, SaveSession(j), job[j].task = t,
                 session'[t] = ResolveSessionStatus(job[j].tools)
          PROVE  Asked(t)'
        <3>1. "approval.request" \in job[j].tools
            BY <1>2, <2>3, AuditLeads
        <3> QED
            BY <2>1, <2>3, <3>1, AskedStays DEF DecisionAwaited
    <2> QED
        BY <1>0, <1>2, <2>1, <2>2, <2>3, WhoSaved
<1> QED
    BY <1>1, <1>2 DEF DecisionAwaited

\* A question goes on to the inbox, or its run stops and that is recorded.
LEMMA QuestionsGoOn ==
    ASSUME IInv, PNext, NEW t \in Tasks, NEW j \in Jobs, Asking(j, t)
    PROVE  Asking(j, t)' \/ inbox'[t] # "none" \/ t \in unasked'
<1>0. /\ [Next]_vars
      /\ unasked' = unasked \cup {u \in Tasks : QuestionLost(u) \/ SentBack(u)}
      /\ job[j].pc \in {"escalate", "audit"} /\ job[j].task = t
    BY DEF PNext, Asking, At
<1>1. CASE job'[j] = job[j]
    BY <1>1 DEF Asking, At
<1>2. ASSUME Crash \/ FailJob(j) PROVE t \in unasked'
    <2>1. QuestionLost(t)
        BY <1>2 DEF QuestionLost, Asking
    <2> QED
        BY <1>0, <2>1
<1>3. ASSUME NEW i \in Jobs \ {j}, StartJob(i) \/ JobStep(i) PROVE job'[j] = job[j]
    BY <1>3, JobsStayFine DEF JobAlone
<1>4. ASSUME StartJob(j) \/ JobStep(j) PROVE Escalate(j) \/ Audit(j) \/ FailJob(j)
    <2>1. ~StartJob(j)
        BY <1>0, TypesOf DEF StartJob
    <2> QED
        BY <1>0, <1>4, <2>1 DEF JobStep, List, Pick, Check, LoadSession, CreateSession, SkipRun,
           ToolUpdateStatus, ToolWrite, ToolUpdateTask, ToolEdit, ToolRequestApproval,
           ToolRequestRefused, ToolSendInbox, EndLoop, SaveSession, Settle, Fallback,
           FallbackWrite, EndRun, FinishJob, Calling, InLoop, At
<1>5. CASE Escalate(j)
    BY <1>0, <1>5, TypesOf DEF Escalate
<1>6. CASE Audit(j)
    <2>1. "inbox.send" \in job[j].tools /\ "approval.request" \notin job[j].tools
        BY <1>6 DEF Asking, Audit, At
    <2>2. job'[j].pc = "escalate" /\ job'[j].task = t
        BY <1>0, <1>6, <2>1, RunSteps, AuditLeads DEF Forgets
    <2> QED
        BY <2>2 DEF Asking, At
<1> QED
    BY <1>0, <1>1, <1>2, <1>3, <1>4, <1>5, <1>6, JobsElsewhere

\* A message stays in the inbox, answered or not.
LEMMA MessagesStay ==
    ASSUME IInv, [Next]_vars, NEW t \in Tasks, inbox[t] # "none"
    PROVE  inbox'[t] # "none"
<1>0. inbox \in [Tasks -> {"none", "open", "answered"}]
    BY TypesOf
<1>1. ASSUME NEW j \in Jobs, StartJob(j) \/ JobStep(j) PROVE inbox'[t] # "none"
    BY <1>0, <1>1, JobEffects
<1>2. ASSUME NEW u \in Tasks, Answer(u) PROVE inbox'[t] # "none"
    BY <1>0, <1>2 DEF Answer
<1>3. ASSUME ~\E j \in Jobs : StartJob(j) \/ JobStep(j), ~\E u \in Tasks : Answer(u)
      PROVE  inbox' = inbox
    BY <1>3, StepsAre, HumanEffects, DeciderEffects DEF StandsBy, Crash, Rows
<1> QED
    BY <1>1, <1>2, <1>3

LEMMA AnswersStayAwaited ==
    ASSUME IInv, AnswerAwaited, PNext
    PROVE  AnswerAwaited'
<1>0. /\ [Next]_vars
      /\ unasked' = unasked \cup {u \in Tasks : QuestionLost(u) \/ SentBack(u)}
    BY DEF PNext
<1>1. ASSUME NEW t \in Tasks, session'[t] = "waiting_for_input"
      PROVE  inbox'[t] # "none" \/ t \in unasked' \/ \E j \in Jobs : Asking(j, t)'
    <2>1. CASE session'[t] = session[t]
        <3>1. inbox[t] # "none" \/ t \in unasked \/ \E j \in Jobs : Asking(j, t)
            BY <1>1, <2>1 DEF AnswerAwaited
        <3> QED
            BY <1>0, <3>1, MessagesStay, QuestionsGoOn
    <2>2. ASSUME NEW j \in Jobs, SaveSession(j), job[j].task = t,
                 session'[t] = ResolveSessionStatus(job[j].tools)
          PROVE  Asking(j, t)'
        <3>1. "inbox.send" \in job[j].tools /\ "approval.request" \notin job[j].tools
            BY <1>1, <2>2, AuditLeads
        <3> QED
            BY <2>2, <3>1, RunSteps DEF Goes, Asking, At
    <2>3. ASSUME NEW d \in Deciders, DecisionCheckpoint(d), Named(d) = t,
                 session'[t] = DecisionStatus(decider[d].verdict)
          PROVE  t \in unasked'
        <3>1. decider[d].verdict = "rejected"
            BY <1>1, <2>3, TypesOf DEF DecisionStatus, DeciderState
        <3>2. SentBack(t)
            BY <2>3, <3>1 DEF SentBack
        <3> QED
            BY <1>0, <3>2
    <2> QED
        BY <1>0, <1>1, <2>1, <2>2, <2>3, WhoSaved
<1> QED
    BY <1>1 DEF AnswerAwaited

LEMMA ParkingKept ==
    ASSUME PInv, [PNext]_pvars
    PROVE  PInv'
<1>1. CASE PNext
    BY <1>1, TypesKept, DecisionsStayAwaited, AnswersStayAwaited DEF PInv, PNext
<1>2. CASE UNCHANGED pvars
    <2>1. UNCHANGED vars /\ UNCHANGED <<excused, unasked>>
        BY <1>2 DEF pvars
    <2>2. IInv'
        BY <2>1, TypesKept DEF PInv
    <2>3. UNCHANGED <<status, session, approvals, inbox, job, human, decider, excused, unasked>>
        BY <2>1 DEF vars
    <2>4. DecisionAwaited'
        BY <2>3 DEF PInv, DecisionAwaited, Asked, Undecided, DecisionInProgress
    <2>5. AnswerAwaited'
        BY <2>3 DEF PInv, AnswerAwaited, Asking, At
    <2> QED
        BY <2>2, <2>4, <2>5 DEF PInv
<1> QED
    BY <1>1, <1>2

\* Whoever waits has asked: a run that used approval.request left a request
\* somebody can decide, and one that waits for input has its question in the
\* inbox or on its way there, unless one of the recorded events came between
\* (resolveSessionStatus, appendApprovalDecisionCheckpoint, handleInfoEscalation).
THEOREM ParkingInvariant ==
    PSpec => []PInv
<1>1. PInit => PInv
    <2> SUFFICES ASSUME PInit PROVE PInv
        OBVIOUS
    <2>1. IInv /\ Init
        BY TypesStart DEF PInit
    <2>2. \A j \in Jobs : job[j].tools = {}
        BY <2>1, IdleTyped DEF Init
    <2>3. \A t \in Tasks : session[t] = "none"
        BY <2>1 DEF Init
    <2> QED
        BY <2>1, <2>2, <2>3 DEF PInv, DecisionAwaited, AnswerAwaited
<1>2. PInv /\ [PNext]_pvars => PInv'
    BY ParkingKept
<1> QED
    BY <1>1, <1>2, PTL DEF PSpec

\* A session waits only for what somebody was asked: a decision on a request
\* that names its task, or the answer to a question in the inbox; the events
\* TaskParking records are the only exceptions (resolveSessionStatus,
\* appendApprovalDecisionCheckpoint, handleInfoEscalation).
THEOREM WaitsHaveSomebody ==
    PSpec => []WaitsAreAnswerable
<1>1. PInv => WaitsAreAnswerable
    <2> SUFFICES ASSUME PInv PROVE WaitsAreAnswerable
        OBVIOUS
    <2>1. ParkedOnlyByRace
        BY DEF PInv, DecisionAwaited, Asked, ParkedOnlyByRace, Quiet
    <2>2. ASSUME NEW t \in Tasks, Quiet(t), NEW j \in Jobs PROVE ~Asking(j, t)
        BY <2>2 DEF Quiet, Asking, At, Runs, Executing, JobPc
    <2>3. InputWaitHasQuestion
        BY <2>2 DEF PInv, AnswerAwaited, InputWaitHasQuestion
    <2> QED
        BY <2>1, <2>3 DEF WaitsAreAnswerable
<1> QED
    BY <1>1, ParkingInvariant, PTL
-----------------------------------------------------------------------------
(* The board of tasks (TaskBoard), for any requests, and any board to begin *)
(* with that is finite                                                      *)

TaskRow == [status : TaskStatus, deps : SUBSET Ids]

RequestType ==
    [op : Op, pc : {"idle", "work", "wake", "list"}, read : SUBSET Ids,
     write : SUBSET Ids, seen : SUBSET Ids, status : TaskStatus]

BoardTyped ==
    /\ rows \in [DOMAIN rows -> TaskRow] /\ IsFiniteSet(DOMAIN rows)
    /\ wish \in [Ids -> SUBSET Ids]
    /\ request \in [Requests -> RequestType]

\* What is asked for names tasks that there were, one task unless it is a
\* creation or a bulk change.
OpSound(op, ids) ==
    /\ op \in Op /\ op.tasks \subseteq ids /\ op.deps \subseteq ids
    /\ op.kind \in {"edit", "delete", "status"} => \E t \in Ids : op.tasks = {t}

\* An edit that has read its task stores no dependency of the task on itself;
\* what it has read is still so, unless an edit came in between.
EditSound(q, b, ids, mixed) ==
    q.op.kind = "edit" =>
        \A t \in q.write :
            /\ t \notin q.op.deps /\ t \notin q.seen /\ q.seen \subseteq ids
            /\ t \in DOMAIN b => q.seen = b[t].deps \/ t \in mixed

RequestSound(q, b, ids, mixed) ==
    /\ OpSound(q.op, ids)
    /\ q.pc = "idle" <=> q = Idle
    /\ q.pc = "work" => q.op.kind \in {"create", "edit", "delete", "status", "bulk"}
    /\ q.pc = "work" => q.read \subseteq q.op.tasks /\ q.write \subseteq q.op.tasks
    /\ q.pc = "work" /\ q.op.kind = "create" => q.op.tasks = {}
    /\ q.pc \in {"wake", "list"} => \E t \in Ids : q.op.tasks = {t}
    /\ q.pc # "work" => q.write = {}
    /\ EditSound(q, b, ids, mixed)

BoardRequestsSound == \A r \in Requests : RequestSound(request[r], rows, used, boardRaced)

BoardApprovalsSound == \A op \in boardApprovals :
    /\ OpSound(op, used)
    /\ op.kind \in {"create", "edit", "delete", "status", "bulk"}
    /\ op.kind = "create" => op.tasks = {}

\* The agent of a task to work on that is ready was called, or nobody will do
\* it, or a request is about to, and has seen the task as it is.
AboutToCall(q, t) ==
    /\ q.op.tasks = {t}
    /\ q.pc = "wake" \/ (q.pc = "list" /\ q.seen = rows[t].deps /\ q.status = rows[t].status)

ReadyIsSeen ==
    \A t \in Open(rows) :
        ReadyOn(rows, t) =>
            t \in asked \cup boardUnasked \/ \E r \in Requests : AboutToCall(request[r], t)

BoardInv ==
    /\ BoardTypeOK /\ BoardTyped
    /\ BoardRequestsSound /\ BoardApprovalsSound
    /\ DependenciesKept /\ ReadyIsSeen

(* The rows and what is asked for *)

\* A task is ready when it does not depend on itself, and all it depends on is
\* there and done.
LEMMA ReadyWhen ==
    ASSUME NEW b, NEW t
    PROVE  ReadyOn(b, t) <=>
               \A d \in b[t].deps : d # t /\ d \in DOMAIN b /\ b[d].status = "done"
<1> DEFINE found == [u \in DOMAIN b |-> b[u].status]
<1>1. DOMAIN found = DOMAIN b /\ \A u \in DOMAIN b : found[u] = b[u].status
    OBVIOUS
<1> HIDE DEF found
<1>2. RuleBlockers(t, {}, found) = {}
    BY DEF RuleBlockers
<1>3. DependencyBlockers(t, b[t].deps, found) = {} <=>
          \A d \in b[t].deps : d # t /\ d \in DOMAIN b /\ b[d].status = "done"
    <2>1. ASSUME DependencyBlockers(t, b[t].deps, found) = {}, NEW d \in b[t].deps
          PROVE  d # t /\ d \in DOMAIN b /\ b[d].status = "done"
        <3>1. d # t
            BY <2>1, ZenonT(60) DEF DependencyBlockers
        <3>2. d \in DOMAIN b
            <4>1. ASSUME d \notin DOMAIN b
                  PROVE  [code |-> "DEPENDENCY_MISSING", taskId |-> d] \in
                             DependencyBlockers(t, b[t].deps, found)
                <5>1. d \in (b[t].deps \ {t}) \ DOMAIN found
                    BY <1>1, <3>1, <4>1
                <5> QED
                    BY <5>1 DEF DependencyBlockers
            <4> QED
                BY <2>1, <4>1
        <3>3. found[d] = "done"
            BY <1>1, <2>1, <3>1, <3>2, ZenonT(60) DEF DependencyBlockers
        <3> QED
            BY <1>1, <3>1, <3>2, <3>3
    <2>2. ASSUME \A d \in b[t].deps : d # t /\ d \in DOMAIN b /\ b[d].status = "done"
          PROVE  DependencyBlockers(t, b[t].deps, found) = {}
        BY <1>1, <2>2 DEF DependencyBlockers
    <2> QED
        BY <2>1, <2>2
<1>4. ReadyOn(b, t) <=>
          DependencyBlockers(t, b[t].deps, found) \cup RuleBlockers(t, {}, found) = {}
    BY DEF ReadyOn, IsReady, Blockers, found
<1> QED
    BY <1>2, <1>3, <1>4

\* Every operation that can be asked for is sound.
LEMMA OpsSound ==
    ASSUME BoardTypeOK, NEW op \in Ops
    PROVE  /\ OpSound(op, used) /\ op.kind \in {"create", "edit", "delete", "status", "bulk"}
           /\ op.kind = "create" => op.tasks = {}
<1>1. used \subseteq Ids
    BY DEF BoardTypeOK
<1>2. "pending" \in TaskStatus
    BY DEF TaskStatus
<1>3. ASSUME NEW via \in {"route", "tool"}, op \in Asks(via)
      PROVE  /\ OpSound(op, used) /\ op.kind \in {"create", "edit", "delete", "status", "bulk"}
             /\ op.kind = "create" => op.tasks = {}
    <2>1. CASE \E D \in SUBSET used : op = Creation(via, D)
        <3>1. PICK D \in SUBSET used : op = Creation(via, D)
            BY <2>1
        <3>2. op.kind = "create" /\ op.tasks = {} /\ op.deps = D
            BY <3>1 DEF Creation, Nop
        <3>3. op \in Op
            BY <1>1, <1>2, <3>1 DEF Creation, Op, Nop
        <3> QED
            BY <3>2, <3>3 DEF OpSound
    <2>2. CASE \E t \in used, D \in SUBSET used : op = Naming(via, t, D)
        <3>1. PICK t \in used, D \in SUBSET used : op = Naming(via, t, D)
            BY <2>2
        <3>2. op.kind = "edit" /\ op.tasks = {t} /\ op.deps = D
            BY <3>1 DEF Naming, Nop
        <3>3. op \in Op
            BY <1>1, <1>2, <3>1 DEF Naming, Op, Nop
        <3> QED
            BY <1>1, <3>2, <3>3 DEF OpSound
    <2>3. CASE \E k \in {"edit", "delete"}, t \in used : op = Plain(via, k, t)
        <3>1. PICK k \in {"edit", "delete"}, t \in used : op = Plain(via, k, t)
            BY <2>3
        <3>2. op.kind \in {"edit", "delete"} /\ op.tasks = {t} /\ op.deps = {}
            BY <3>1 DEF Plain, Nop
        <3>3. op \in Op
            BY <1>1, <1>2, <3>1 DEF Plain, Op, Nop
        <3> QED
            BY <1>1, <3>2, <3>3 DEF OpSound
    <2>4. \/ \E D \in SUBSET used : op = Creation(via, D)
          \/ \E t \in used, D \in SUBSET used : op = Naming(via, t, D)
          \/ \E k \in {"edit", "delete"}, t \in used : op = Plain(via, k, t)
        BY <1>3 DEF Asks
    <2> QED
        BY <2>1, <2>2, <2>3, <2>4
<1>4. ASSUME op \in AsksStatus
      PROVE  /\ OpSound(op, used) /\ op.kind \in {"create", "edit", "delete", "status", "bulk"}
             /\ op.kind = "create" => op.tasks = {}
    <2>1. PICK k \in {"status", "bulk"}, T \in {{t} : t \in used} \cup {used},
               s \in TaskStatus : op = Change(k, T, s)
        BY <1>4 DEF AsksStatus
    <2>t. T \subseteq used
        OBVIOUS
    <2>2. op \in Op /\ op.tasks = T /\ op.deps = {} /\ op.kind = k
        BY <1>1, <2>1, <2>t DEF Change, Op, Nop
    <2>3. k = "status" => \E t \in used : T = {t}
        BY <2>2 DEF Ops
    <2> QED
        BY <1>1, <2>2, <2>3, <2>t DEF OpSound
<1> QED
    BY <1>3, <1>4 DEF Ops

-----------------------------------------------------------------------------
(* What requests know                                                       *)

LEMMA IdleSound ==
    /\ Idle \in RequestType /\ Idle.pc = "idle" /\ Idle.op.tasks = {}
    /\ \A b, ids, mixed : RequestSound(Idle, b, ids, mixed)
<1>1. Nop \in Op /\ Nop.kind = "none" /\ Nop.tasks = {} /\ Nop.deps = {}
    BY DEF Nop, Op, TaskStatus
<1>2. "pending" \in TaskStatus
    BY DEF TaskStatus
<1>3. /\ Idle.op = Nop /\ Idle.pc = "idle" /\ Idle.write = {}
      /\ Idle \in RequestType
    BY <1>1, <1>2 DEF Idle, RequestType
<1> QED
    BY <1>1, <1>3 DEF RequestSound, OpSound, EditSound

\* What a request knows is not spoilt by ids and edits that come later, if the
\* dependencies of what it is about to edit stay, or that is recorded.
LEMMA SoundLater ==
    ASSUME NEW q, NEW b, NEW ids, NEW mixed, NEW b2, NEW ids2, NEW mixed2,
           RequestSound(q, b, ids, mixed), ids \subseteq ids2, mixed \subseteq mixed2,
           \A t \in q.write : t \in DOMAIN b2 =>
               t \in DOMAIN b /\ (b2[t].deps = b[t].deps \/ t \in mixed2 \/ q.op.kind # "edit")
    PROVE  RequestSound(q, b2, ids2, mixed2)
<1>1. OpSound(q.op, ids2)
    BY DEF RequestSound, OpSound
<1>2. EditSound(q, b2, ids2, mixed2)
    BY DEF RequestSound, EditSound
<1> QED
    BY <1>1, <1>2 DEF RequestSound

\* A request of which nothing but the step changes.
LEMMA BeginSound ==
    ASSUME NEW op, OpSound(op, used), used \subseteq Ids,
           op.kind \in {"create", "edit", "delete", "status", "bulk"},
           op.kind = "create" => op.tasks = {}
    PROVE  LET v == [Idle EXCEPT !.op = op, !.pc = "work", !.read = op.tasks] IN
           /\ v \in RequestType /\ v.pc = "work"
           /\ \A b, mixed : RequestSound(v, b, used, mixed)
<1> DEFINE v == [Idle EXCEPT !.op = op, !.pc = "work", !.read = op.tasks]
<1>1. v \in RequestType /\ v.op = op /\ v.pc = "work" /\ v.read = op.tasks /\ v.write = {}
    <2>1. op \in Op /\ op.tasks \subseteq Ids
        BY DEF OpSound
    <2>2. Idle.write = {}
        BY DEF Idle
    <2> QED
        BY <2>1, <2>2, IdleSound DEF RequestType
<1>2. v # Idle
    BY <1>1, IdleSound
<1> HIDE DEF v
<1>3. \A b, mixed : RequestSound(v, b, used, mixed)
    BY <1>1, <1>2 DEF RequestSound, EditSound
<1> QED
    BY <1>1, <1>3 DEF v

\* What is left to do when a task is done with.
LEMMA RestSound ==
    ASSUME BoardTyped, BoardRequestsSound, NEW r \in Requests, request[r].pc = "work", NEW t
    PROVE  /\ Rest(r, t) \in RequestType
           /\ Rest(r, t).pc \in {"idle", "work"}
           /\ RequestSound(Rest(r, t), rows, used, boardRaced)
           /\ Rest(r, t).write \subseteq request[r].write \ {t}
<1> DEFINE q == request[r]
           v == [q EXCEPT !.read = @ \ {t}, !.write = @ \ {t}]
<1>1. CASE q.read \cup q.write \subseteq {t}
    BY <1>1, IdleSound DEF Rest, Idle
<1>2. CASE ~(q.read \cup q.write \subseteq {t})
    <2>1. q \in RequestType /\ RequestSound(q, rows, used, boardRaced)
        BY DEF BoardTyped, BoardRequestsSound
    <2>2. /\ v \in RequestType /\ v.op = q.op /\ v.pc = "work" /\ v.seen = q.seen
          /\ v.read = q.read \ {t} /\ v.write = q.write \ {t}
        BY <2>1 DEF RequestType
    <2>3. Rest(r, t) = v
        BY <1>2 DEF Rest
    <2>4. v # Idle
        BY <2>2, IdleSound
    <2> HIDE DEF v
    <2>5. RequestSound(v, rows, used, boardRaced)
        BY <2>1, <2>2, <2>4 DEF RequestSound, EditSound
    <2> QED
        BY <2>2, <2>3, <2>5
<1> QED
    BY <1>1, <1>2

\* What is left to do when a task is written, or need not be.
LEMMA AfterSound ==
    ASSUME BoardTyped, BoardRequestsSound, NEW r \in Requests, request[r].pc = "work",
           NEW ids, used \subseteq ids, NEW t \in ids, ids \subseteq Ids
    PROVE  /\ After(r, t) \in RequestType
           /\ \A b, mixed :
                 (After(r, t) = Rest(r, t) => RequestSound(Rest(r, t), b, ids, mixed))
                    => RequestSound(After(r, t), b, ids, mixed)
           /\ IF Calls(request[r].op)
              THEN After(r, t).pc = "wake" /\ After(r, t).op.tasks = {t}
              ELSE After(r, t) = Rest(r, t)
<1> DEFINE q == request[r]
           v == [q EXCEPT !.pc = "wake", !.op.tasks = {t}, !.write = {}]
<1>1. CASE ~Calls(q.op)
    BY <1>1, RestSound DEF After
<1>2. CASE Calls(q.op)
    <2>1. q \in RequestType /\ RequestSound(q, rows, used, boardRaced) /\ q.op \in Op
        BY DEF BoardTyped, BoardRequestsSound, RequestType
    <2>2. /\ v \in RequestType /\ v.op = [q.op EXCEPT !.tasks = {t}] /\ v.pc = "wake"
          /\ v.write = {}
        BY <2>1 DEF RequestType, Op
    <2>3. v.op \in Op /\ v.op.tasks = {t} /\ v.op.deps = q.op.deps /\ v.op.kind = q.op.kind
        BY <2>1, <2>2 DEF Op
    <2>4. After(r, t) = v
        BY <1>2 DEF After
    <2>5. v # Idle
        BY <2>2, IdleSound
    <2> HIDE DEF v
    <2>6. \A b, mixed : RequestSound(v, b, ids, mixed)
        BY <2>1, <2>2, <2>3, <2>5 DEF RequestSound, EditSound, OpSound
    <2> QED
        BY <1>2, <2>2, <2>3, <2>4, <2>6
<1> QED
    BY <1>1, <1>2

\* One request moves, and its move leaves what the others know.
LEMMA OneRequestMoves ==
    ASSUME BoardTyped, BoardRequestsSound, used \subseteq used', boardRaced \subseteq boardRaced',
           NEW r \in Requests, NEW v \in RequestType,
           request' = [request EXCEPT ![r] = v],
           RequestSound(v, rows', used', boardRaced'),
           \A q \in Requests \ {r} : \A t \in request[q].write : t \in DOMAIN rows' =>
               /\ t \in DOMAIN rows
               /\ rows'[t].deps = rows[t].deps \/ t \in boardRaced' \/ request[q].op.kind # "edit"
    PROVE  /\ request' \in [Requests -> RequestType]
           /\ BoardRequestsSound'
<1>1. /\ request' \in [Requests -> RequestType]
      /\ request'[r] = v /\ \A q \in Requests \ {r} : request'[q] = request[q]
    BY DEF BoardTyped
<1>2. ASSUME NEW q \in Requests \ {r} PROVE RequestSound(request'[q], rows', used', boardRaced')
    BY <1>1, SoundLater DEF BoardRequestsSound
<1> QED
    BY <1>1, <1>2 DEF BoardRequestsSound

(* The steps *)

LEMMA ApprovalsLater ==
    ASSUME BoardApprovalsSound, used \subseteq used', boardApprovals' \subseteq boardApprovals
    PROVE  BoardApprovalsSound'
BY DEF BoardApprovalsSound, OpSound

\* What a write has to see to, for the board to be sound after it: task t is
\* written, the others stay or go.
WriteSound(r, t, b) ==
    /\ DOMAIN b \subseteq used' /\ IsFiniteSet(DOMAIN b) /\ b \in [DOMAIN b -> TaskRow]
    /\ \A u \in DOMAIN b \ {t} : u \in DOMAIN rows /\ b[u] = rows[u]
    /\ t \in DOMAIN b => b[t].deps \subseteq used' \ {t}
    /\ t \in DOMAIN b => \A q \in Requests \ {r} : t \in request[q].write =>
           /\ t \in DOMAIN rows
           /\ b[t].deps = rows[t].deps \/ t \in boardRaced' \/ request[q].op.kind # "edit"
    /\ t \in used' /\ used \subseteq used' /\ used' \subseteq Ids
    /\ boardRaced \subseteq boardRaced' /\ boardRaced' \cup granted' \subseteq used'
    /\ wish' \in [Ids -> SUBSET Ids]
    /\ UNCHANGED <<boardApprovals, requests, faults>>

\* After a write every request knows what it knew, and the new rows are sound.
LEMMA WrittenSound ==
    ASSUME BoardInv, NEW r \in Requests, request[r].pc = "work",
           NEW t, NEW b, Written(r, t, b), WriteSound(r, t, b)
    PROVE  BoardTypeOK' /\ BoardTyped' /\ BoardRequestsSound' /\ BoardApprovalsSound'
<1> DEFINE v == After(r, t)
           ready == {u \in Open(b) \ {t} : ReadyOn(b, u) /\
                        ~(u \in Open(rows) /\ ReadyOn(rows, u))}
           left == ready \cup (IF Calls(request[r].op) THEN {} ELSE {t})
<1> USE DEF BoardInv
<1>1. /\ rows' = b /\ boardUnasked' = (boardUnasked \ {t}) \cup left
      /\ asked' = asked \ ({t} \cup left) /\ request' = [request EXCEPT ![r] = v]
    BY DEF Written
<1>2. left \subseteq used'
    BY DEF WriteSound, Open
<1>3. v \in RequestType
    BY AfterSound DEF WriteSound
<1>4. RequestSound(v, b, used', boardRaced')
    <2>1. /\ Rest(r, t).write \subseteq request[r].write \ {t}
          /\ RequestSound(Rest(r, t), rows, used, boardRaced)
        BY RestSound
    <2>2. \A u \in Rest(r, t).write : u \in DOMAIN b =>
              u \in DOMAIN rows /\ b[u].deps = rows[u].deps
        BY <2>1 DEF WriteSound
    <2>3. RequestSound(Rest(r, t), b, used', boardRaced')
        BY <2>1, <2>2, SoundLater DEF WriteSound
    <2> QED
        BY <2>3, AfterSound DEF WriteSound
<1> HIDE DEF v, left
<1>5. ASSUME NEW q \in Requests \ {r}, NEW u \in request[q].write, u \in DOMAIN b
      PROVE  /\ u \in DOMAIN rows
             /\ b[u].deps = rows[u].deps \/ u \in boardRaced' \/ request[q].op.kind # "edit"
    BY <1>5 DEF WriteSound
<1>6. request' \in [Requests -> RequestType] /\ BoardRequestsSound'
    BY <1>1, <1>3, <1>4, <1>5, OneRequestMoves DEF WriteSound
<1>7. BoardTyped'
    BY <1>1, <1>6 DEF WriteSound, BoardTyped
<1>8. BoardApprovalsSound'
    BY ApprovalsLater DEF WriteSound
<1>9. BoardTypeOK'
    <2>1. ASSUME NEW u \in DOMAIN b
          PROVE  b[u].status \in TaskStatus /\ b[u].deps \subseteq used' \ {u}
        <3>1. b[u] \in TaskRow
            BY DEF WriteSound
        <3>2. CASE u = t
            BY <3>1, <3>2 DEF WriteSound, TaskRow
        <3>3. CASE u # t
            BY <3>3 DEF WriteSound, BoardTypeOK
        <3> QED
            BY <3>2, <3>3
    <2>2. boardApprovals' \subseteq Op
        BY DEF WriteSound, BoardTypeOK
    <2>3. \A q \in Requests :
              /\ request'[q].op \in Op
              /\ request'[q].pc \in {"idle", "work", "wake", "list"}
              /\ request'[q].pc = "idle" <=> request'[q] = Idle
        BY <1>6 DEF RequestType, BoardRequestsSound, RequestSound
    <2>4. requests' \in 0 .. MaxRequests /\ faults' \in 0 .. MaxFaults
        BY DEF WriteSound, BoardTypeOK
    <2>5. asked' \cup boardUnasked' \cup boardRaced' \cup granted' \subseteq used'
        BY <1>1, <1>2 DEF WriteSound, BoardTypeOK
    <2>6. asked' \cap boardUnasked' = {}
        BY <1>1 DEF BoardTypeOK
    <2>7. DOMAIN rows' \subseteq used' /\ used' \subseteq Ids
        BY <1>1 DEF WriteSound
    <2> QED
        BY <1>1, <2>1, <2>2, <2>3, <2>4, <2>5, <2>6, <2>7 DEF BoardTypeOK
<1> QED
    BY <1>6, <1>7, <1>8, <1>9

\* After a write every ready task was called, or is left out, or is about to be
\* called: the write makes a note of each that it made ready.
LEMMA WrittenSeen ==
    ASSUME BoardInv, NEW r \in Requests, request[r].pc = "work",
           NEW t, NEW b, Written(r, t, b), WriteSound(r, t, b)
    PROVE  ReadyIsSeen'
<1> DEFINE v == After(r, t)
           ready == {u \in Open(b) \ {t} : ReadyOn(b, u) /\
                        ~(u \in Open(rows) /\ ReadyOn(rows, u))}
           left == ready \cup (IF Calls(request[r].op) THEN {} ELSE {t})
<1> USE DEF BoardInv
<1>1. /\ rows' = b /\ boardUnasked' = (boardUnasked \ {t}) \cup left
      /\ asked' = asked \ ({t} \cup left) /\ request' = [request EXCEPT ![r] = v]
    BY DEF Written
<1>2. request'[r] = v /\ \A q \in Requests \ {r} : request'[q] = request[q]
    BY <1>1 DEF BoardTyped
<1>3. SUFFICES ASSUME NEW u \in Open(b), ReadyOn(b, u)
               PROVE  \/ u \in asked' \cup boardUnasked'
                      \/ \E q \in Requests :
                            /\ request'[q].op.tasks = {u}
                            /\ \/ request'[q].pc = "wake"
                               \/ /\ request'[q].pc = "list" /\ request'[q].seen = b[u].deps
                                  /\ request'[q].status = b[u].status
    <2>1. SUFFICES ASSUME NEW u \in Open(rows'), ReadyOn(rows', u)
                   PROVE  \/ u \in asked' \cup boardUnasked'
                          \/ \E q \in Requests : AboutToCall(request[q], u)'
        BY DEF ReadyIsSeen, Open, ReadyOn
    <2>2. \A q \in Requests : AboutToCall(request[q], u)' <=>
              /\ request'[q].op.tasks = {u}
              /\ \/ request'[q].pc = "wake"
                 \/ /\ request'[q].pc = "list" /\ request'[q].seen = b[u].deps
                    /\ request'[q].status = b[u].status
        BY <1>1 DEF AboutToCall
    <2> QED
        BY <1>1, <2>1, <2>2
<1>4. CASE u = t /\ Calls(request[r].op)
    <2>1. v.pc = "wake" /\ v.op.tasks = {t}
        BY <1>4, AfterSound DEF WriteSound
    <2> QED
        BY <1>2, <1>4, <2>1
<1>5. CASE u = t /\ ~Calls(request[r].op)
    BY <1>1, <1>5
<1>6. CASE u # t /\ ~(u \in Open(rows) /\ ReadyOn(rows, u))
    <2>1. u \in ready
        BY <1>3, <1>6
    <2> QED
        BY <1>1, <2>1
<1>7. CASE u # t /\ u \in Open(rows) /\ ReadyOn(rows, u)
    <2>1. u \in DOMAIN rows /\ b[u] = rows[u]
        BY <1>7 DEF WriteSound, Open
    <2> HIDE DEF left
    <2>2. CASE u \in asked \cup boardUnasked
        BY <1>1, <1>7, <2>2
    <2>3. CASE \E q \in Requests : AboutToCall(request[q], u)
        <3>1. PICK q \in Requests : AboutToCall(request[q], u)
            BY <2>3
        <3>2. q # r
            BY <3>1 DEF AboutToCall
        <3> QED
            BY <1>2, <2>1, <3>1, <3>2 DEF AboutToCall
    <2> QED
        BY <1>7, <2>2, <2>3 DEF ReadyIsSeen
<1> QED
    BY <1>4, <1>5, <1>6, <1>7

\* A step that writes no task and moves at most one request, to v: what is to be
\* shown of it is that v is sound and loses no call.
LEMMA MoveSound ==
    ASSUME BoardInv, NEW r \in Requests, NEW v \in RequestType,
           request' = [request EXCEPT ![r] = v],
           RequestSound(v, rows, used, boardRaced),
           UNCHANGED <<rows, used, boardRaced>>,
           \A op \in boardApprovals' \ boardApprovals :
               /\ OpSound(op, used)
               /\ op.kind \in {"create", "edit", "delete", "status", "bulk"}
               /\ op.kind = "create" => op.tasks = {},
           wish' \in [Ids -> SUBSET Ids], granted' \subseteq used,
           requests' \in 0 .. MaxRequests, faults' \in 0 .. MaxFaults,
           asked' \cup boardUnasked' \subseteq used, asked' \cap boardUnasked' = {},
           asked \cup boardUnasked \subseteq asked' \cup boardUnasked',
           \A u \in DOMAIN rows : AboutToCall(request[r], u) /\ ReadyOn(rows, u) =>
               u \in asked' \cup boardUnasked' \/ AboutToCall(v, u)
    PROVE  BoardTypeOK' /\ BoardTyped' /\ BoardRequestsSound' /\ BoardApprovalsSound' /\ ReadyIsSeen'
<1> USE DEF BoardInv
<1>1. request' \in [Requests -> RequestType] /\ BoardRequestsSound'
    BY OneRequestMoves
<1>2. request'[r] = v /\ \A q \in Requests \ {r} : request'[q] = request[q]
    BY DEF BoardTyped
<1>3. BoardTyped'
    BY <1>1 DEF BoardTyped
<1>4. BoardApprovalsSound'
    BY DEF BoardApprovalsSound, OpSound
<1>5. BoardTypeOK'
    <2>1. \A q \in Requests :
              /\ request'[q].op \in Op
              /\ request'[q].pc \in {"idle", "work", "wake", "list"}
              /\ request'[q].pc = "idle" <=> request'[q] = Idle
        BY <1>1 DEF RequestType, BoardRequestsSound, RequestSound
    <2>2. boardApprovals' \subseteq Op
        BY <1>4 DEF BoardApprovalsSound, OpSound
    <2> QED
        BY <2>1, <2>2 DEF BoardTypeOK
<1>6. ReadyIsSeen'
    <2>1. SUFFICES ASSUME NEW u \in Open(rows), ReadyOn(rows, u)
                   PROVE  \/ u \in asked' \cup boardUnasked'
                          \/ \E q \in Requests : AboutToCall(request[q], u)'
        BY DEF ReadyIsSeen, Open, ReadyOn
    <2>2. \A q \in Requests \ {r} : AboutToCall(request[q], u)' <=> AboutToCall(request[q], u)
        BY <1>2 DEF AboutToCall
    <2>3. AboutToCall(request[r], u)' <=> AboutToCall(v, u)
        BY <1>2 DEF AboutToCall
    <2>4. u \in DOMAIN rows
        BY DEF Open
    <2>5. CASE u \in asked \cup boardUnasked
        BY <2>5
    <2>6. CASE \E q \in Requests : AboutToCall(request[q], u)
        BY <2>1, <2>2, <2>3, <2>4, <2>6
    <2> QED
        BY <2>1, <2>5, <2>6 DEF ReadyIsSeen
<1> QED
    BY <1>1, <1>3, <1>4, <1>5, <1>6

\* A request that does not move.
LEMMA NoMove ==
    ASSUME BoardInv, NEW r \in Requests, UNCHANGED request
    PROVE  /\ request[r] \in RequestType /\ request' = [request EXCEPT ![r] = request[r]]
           /\ RequestSound(request[r], rows, used, boardRaced)
BY DEF BoardInv, BoardTyped, BoardRequestsSound

LEMMA AskSound ==
    ASSUME BoardInv, NEW r \in Requests, Ask(r)
    PROVE  BoardInv'
<1> USE DEF BoardInv
<1>1. PICK op \in Ops :
          \/ Begin(r, op) /\ UNCHANGED boardApprovals
          \/ op.via = "route" /\ boardApprovals' = boardApprovals \cup {op} /\ UNCHANGED request
    BY DEF Ask
<1>2. /\ OpSound(op, used) /\ op.kind \in {"create", "edit", "delete", "status", "bulk"}
      /\ op.kind = "create" => op.tasks = {}
    BY OpsSound
<1>3. /\ request[r] = Idle /\ requests' \in 0 .. MaxRequests
      /\ UNCHANGED <<rows, faults, used, wish, asked, boardUnasked, boardRaced, granted>>
    BY BoardAssumption DEF Ask, History, BoardTypeOK
<1>4. \A u : ~AboutToCall(request[r], u)
    BY <1>3, IdleSound DEF AboutToCall
<1>5. DependenciesKept'
    BY <1>3 DEF DependenciesKept
<1>6. used \subseteq Ids /\ wish \in [Ids -> SUBSET Ids] /\ granted \subseteq used
      /\ faults \in 0 .. MaxFaults /\ asked \cup boardUnasked \subseteq used
      /\ asked \cap boardUnasked = {}
    BY DEF BoardTypeOK, BoardTyped
<1>7. CASE Begin(r, op) /\ UNCHANGED boardApprovals
    <2> DEFINE v == [Idle EXCEPT !.op = op, !.pc = "work", !.read = op.tasks]
    <2>1. v \in RequestType /\ RequestSound(v, rows, used, boardRaced)
        BY <1>2, <1>6, BeginSound
    <2>2. request' = [request EXCEPT ![r] = v]
        BY <1>7 DEF Begin
    <2> HIDE DEF v
    <2>3. BoardTypeOK' /\ BoardTyped' /\ BoardRequestsSound' /\ BoardApprovalsSound' /\ ReadyIsSeen'
        BY <1>3, <1>4, <1>6, <1>7, <2>1, <2>2, MoveSound
    <2> QED
        BY <1>5, <2>3
<1>8. CASE boardApprovals' = boardApprovals \cup {op} /\ UNCHANGED request
    <2>1. BoardTypeOK' /\ BoardTyped' /\ BoardRequestsSound' /\ BoardApprovalsSound' /\ ReadyIsSeen'
        BY <1>2, <1>3, <1>4, <1>6, <1>8, NoMove, MoveSound
    <2> QED
        BY <1>5, <2>1
<1> QED
    BY <1>1, <1>7, <1>8

LEMMA GrantSound ==
    ASSUME BoardInv, NEW r \in Requests, Grant(r)
    PROVE  BoardInv'
<1> USE DEF BoardInv
<1>1. PICK op \in boardApprovals :
          /\ boardApprovals' = boardApprovals \ {op}
          /\ IF op.kind \in Executed THEN Begin(r, [op EXCEPT !.via = "grant"])
                                     ELSE UNCHANGED request
          /\ IF op.kind = "edit" /\ op.names
             THEN /\ wish' = [t \in Ids |-> IF t \in op.tasks THEN op.deps ELSE wish[t]]
                  /\ granted' = granted \cup op.tasks
             ELSE UNCHANGED <<wish, granted>>
    BY DEF Grant
<1>2. /\ OpSound(op, used) /\ op.kind \in {"create", "edit", "delete", "status", "bulk"}
      /\ op.kind = "create" => op.tasks = {}
    BY DEF BoardApprovalsSound
<1>3. /\ request[r] = Idle
      /\ UNCHANGED <<rows, requests, faults, used, asked, boardUnasked, boardRaced>>
    BY DEF Grant, Counts
<1>4. \A u : ~AboutToCall(request[r], u)
    BY <1>3, IdleSound DEF AboutToCall
<1>6. used \subseteq Ids /\ wish \in [Ids -> SUBSET Ids] /\ granted \subseteq used
      /\ requests \in 0 .. MaxRequests /\ faults \in 0 .. MaxFaults
      /\ asked \cup boardUnasked \subseteq used /\ asked \cap boardUnasked = {}
      /\ DOMAIN rows \subseteq used
    BY DEF BoardTypeOK, BoardTyped
<1>5. /\ wish' \in [Ids -> SUBSET Ids] /\ granted' \subseteq used /\ granted \subseteq granted'
      /\ \A t \in DOMAIN rows : wish'[t] = wish[t] \/ t \in granted'
    <2>1. CASE op.kind = "edit" /\ op.names
        <3>1. op.deps \subseteq Ids /\ op.tasks \subseteq used
            BY <1>2, <1>6 DEF OpSound
        <3>2. /\ wish' = [t \in Ids |-> IF t \in op.tasks THEN op.deps ELSE wish[t]]
              /\ granted' = granted \cup op.tasks
            BY <1>1, <2>1
        <3> QED
            BY <1>6, <3>1, <3>2
    <2>2. CASE ~(op.kind = "edit" /\ op.names)
        BY <1>1, <1>6, <2>2
    <2> QED
        BY <2>1, <2>2
<1>7. DependenciesKept'
    BY <1>3, <1>5 DEF DependenciesKept
<1>8. CASE op.kind \in Executed
    <2> DEFINE o == [op EXCEPT !.via = "grant"]
               v == [Idle EXCEPT !.op = o, !.pc = "work", !.read = o.tasks]
    <2>1. o \in Op /\ o.kind = op.kind /\ o.tasks = op.tasks /\ o.deps = op.deps
        BY <1>2 DEF OpSound, Op
    <2>2. request' = [request EXCEPT ![r] = v]
        BY <1>1, <1>8 DEF Begin
    <2> HIDE DEF o
    <2>3. OpSound(o, used)
        BY <1>2, <2>1 DEF OpSound
    <2>4. v \in RequestType /\ RequestSound(v, rows, used, boardRaced)
        BY <1>2, <1>6, <2>1, <2>3, BeginSound
    <2> HIDE DEF v
    <2>5. BoardTypeOK' /\ BoardTyped' /\ BoardRequestsSound' /\ BoardApprovalsSound' /\ ReadyIsSeen'
        BY <1>1, <1>3, <1>4, <1>5, <1>6, <2>2, <2>4, MoveSound
    <2> QED
        BY <1>7, <2>5
<1>9. CASE op.kind \notin Executed
    <2>1. BoardTypeOK' /\ BoardTyped' /\ BoardRequestsSound' /\ BoardApprovalsSound' /\ ReadyIsSeen'
        BY <1>1, <1>3, <1>4, <1>5, <1>6, <1>9, NoMove, MoveSound
    <2> QED
        BY <1>7, <2>1
<1> QED
    BY <1>8, <1>9

\* What the steps below find unchanged, or in its place.
LEMMA Kept ==
    ASSUME BoardInv
    PROVE  /\ used \subseteq Ids /\ wish \in [Ids -> SUBSET Ids] /\ granted \subseteq used
           /\ requests \in 0 .. MaxRequests /\ faults \in 0 .. MaxFaults
           /\ asked \cup boardUnasked \subseteq used /\ asked \cap boardUnasked = {}
           /\ DOMAIN rows \subseteq used
           /\ \A r \in Requests :
                 request[r] \in RequestType /\ RequestSound(request[r], rows, used, boardRaced)
BY DEF BoardInv, BoardTypeOK, BoardTyped, BoardRequestsSound

LEMMA WakeReadSound ==
    ASSUME BoardInv, NEW r \in Requests, NEW t \in Ids, WakeRead(r, t)
    PROVE  BoardInv'
<1> DEFINE q == request[r]
           v == IF t \notin DOMAIN rows THEN Idle
                ELSE [q EXCEPT !.pc = "list", !.seen = rows[t].deps, !.status = rows[t].status]
<1>1. q.pc = "wake" /\ t \in q.op.tasks /\ request' = [request EXCEPT ![r] = v]
    BY DEF WakeRead
<1>2. UNCHANGED <<rows, boardApprovals, requests, faults, used, wish, asked, boardUnasked,
                  boardRaced, granted>>
    BY DEF WakeRead, Counts, History
<1>3. q \in RequestType /\ RequestSound(q, rows, used, boardRaced) /\ q.op.tasks = {t}
    BY <1>1, Kept DEF RequestSound
<1>4. DependenciesKept'
    BY <1>2 DEF BoardInv, DependenciesKept
<1>5. /\ v \in RequestType /\ RequestSound(v, rows, used, boardRaced)
      /\ \A u \in DOMAIN rows : AboutToCall(q, u) => AboutToCall(v, u)
    <2>1. CASE t \notin DOMAIN rows
        BY <1>3, <2>1, IdleSound DEF AboutToCall
    <2>2. CASE t \in DOMAIN rows
        <3>1. rows[t] \in TaskRow
            BY <2>2 DEF BoardInv, BoardTyped
        <3>2. /\ v \in RequestType /\ v.op = q.op /\ v.pc = "list" /\ v.write = q.write
              /\ v.seen = rows[t].deps /\ v.status = rows[t].status
            BY <1>3, <2>2, <3>1 DEF RequestType, TaskRow
        <3>3. v # Idle
            BY <3>2, IdleSound
        <3> HIDE DEF v
        <3>4. RequestSound(v, rows, used, boardRaced)
            BY <1>1, <1>3, <3>2, <3>3 DEF RequestSound, EditSound
        <3> QED
            BY <1>3, <3>2, <3>4 DEF AboutToCall
    <2> QED
        BY <2>1, <2>2
<1> HIDE DEF v
<1>6. BoardTypeOK' /\ BoardTyped' /\ BoardRequestsSound' /\ BoardApprovalsSound' /\ ReadyIsSeen'
    BY <1>1, <1>2, <1>5, Kept, MoveSound
<1> QED
    BY <1>4, <1>6 DEF BoardInv

LEMMA WakeListSound ==
    ASSUME BoardInv, NEW r \in Requests, NEW t \in Ids, WakeList(r, t)
    PROVE  BoardInv'
<1> DEFINE q == request[r]
           b == With(rows, t, [status |-> q.status, deps |-> q.seen])
<1>1. /\ q.pc = "list" /\ t \in q.op.tasks /\ request' = [request EXCEPT ![r] = Idle]
      /\ IF ReadyOn(b, t)
         THEN asked' = asked \cup {t} /\ boardUnasked' = boardUnasked \ {t}
         ELSE UNCHANGED <<asked, boardUnasked>>
    BY DEF WakeList
<1>2. UNCHANGED <<rows, boardApprovals, requests, faults, used, wish, boardRaced, granted>>
    BY DEF WakeList, Counts
<1>3. q.op.tasks = {t} /\ t \in used
    BY <1>1, Kept DEF RequestSound, OpSound
<1>4. DependenciesKept'
    BY <1>2 DEF BoardInv, DependenciesKept
<1>5. ASSUME NEW u \in DOMAIN rows, AboutToCall(q, u), ReadyOn(rows, u)
      PROVE  u \in asked'
    <2>1. u = t /\ q.seen = rows[t].deps /\ q.status = rows[t].status
        BY <1>1, <1>3, <1>5 DEF AboutToCall
    <2>2. /\ DOMAIN b = DOMAIN rows /\ b[t].deps = rows[t].deps
          /\ \A d \in DOMAIN rows : b[d].status = rows[d].status
        BY <2>1 DEF With
    <2> HIDE DEF b
    <2>3. ReadyOn(b, t)
        BY <1>5, <2>1, <2>2, ReadyWhen
    <2> QED
        BY <1>1, <2>1, <2>3
<1> HIDE DEF b
<1>6. /\ asked' \cup boardUnasked' \subseteq used /\ asked' \cap boardUnasked' = {}
      /\ asked \cup boardUnasked \subseteq asked' \cup boardUnasked'
    BY <1>1, <1>3, Kept
<1>7. BoardTypeOK' /\ BoardTyped' /\ BoardRequestsSound' /\ BoardApprovalsSound' /\ ReadyIsSeen'
    BY <1>1, <1>2, <1>5, <1>6, Kept, IdleSound, MoveSound
<1> QED
    BY <1>4, <1>7 DEF BoardInv

LEMMA CallFailsSound ==
    ASSUME BoardInv, NEW r \in Requests, CallFails(r)
    PROVE  BoardInv'
<1> DEFINE q == request[r]
<1>1. /\ q.pc \in {"wake", "list"} /\ request' = [request EXCEPT ![r] = Idle]
      /\ boardUnasked' = boardUnasked \cup (q.op.tasks \ asked)
      /\ faults < MaxFaults /\ faults' = faults + 1
    BY DEF CallFails
<1>2. UNCHANGED <<rows, boardApprovals, requests, used, wish, asked, boardRaced, granted>>
    BY DEF CallFails
<1>3. q.op.tasks \subseteq used /\ faults' \in 0 .. MaxFaults
    BY <1>1, Kept, BoardAssumption DEF RequestSound, OpSound
<1>4. DependenciesKept'
    BY <1>2 DEF BoardInv, DependenciesKept
<1>5. \A u : AboutToCall(q, u) => u \in asked' \cup boardUnasked'
    BY <1>1, <1>2 DEF AboutToCall
<1>6. /\ asked' \cup boardUnasked' \subseteq used /\ asked' \cap boardUnasked' = {}
      /\ asked \cup boardUnasked \subseteq asked' \cup boardUnasked'
    BY <1>1, <1>2, <1>3, Kept
<1>7. BoardTypeOK' /\ BoardTyped' /\ BoardRequestsSound' /\ BoardApprovalsSound' /\ ReadyIsSeen'
    BY <1>1, <1>2, <1>3, <1>5, <1>6, Kept, IdleSound, MoveSound
<1> QED
    BY <1>4, <1>7 DEF BoardInv

LEMMA ReadSound ==
    ASSUME BoardInv, NEW r \in Requests, NEW t \in Ids, ReadTask(r, t)
    PROVE  BoardInv'
<1> DEFINE q == request[r]
           seen == IF q.op.kind = "edit" THEN rows[t].deps ELSE {}
           w == [q EXCEPT !.read = @ \ {t}, !.write = @ \cup {t}, !.seen = seen]
<1>1. q.pc = "work" /\ t \in q.read
    BY DEF ReadTask
<1>2. UNCHANGED <<rows, boardApprovals, requests, faults, used, wish, asked, boardUnasked,
                  boardRaced, granted>>
    BY DEF ReadTask, Counts, History
<1>3. q \in RequestType /\ RequestSound(q, rows, used, boardRaced) /\ request \in [Requests -> RequestType]
    BY Kept DEF BoardInv, BoardTyped
<1>4. DependenciesKept'
    BY <1>2 DEF BoardInv, DependenciesKept
<1>5. t \in q.op.tasks /\ q.op.tasks \subseteq used /\ t \in used /\ used \subseteq Ids
    BY <1>1, <1>3, Kept DEF RequestSound, OpSound
<1>6. \E v \in RequestType :
          request' = [request EXCEPT ![r] = v] /\ RequestSound(v, rows, used, boardRaced)
    <2>1. CASE request' = [request EXCEPT ![r] = Rest(r, t)]
        BY <1>1, <2>1, RestSound DEF BoardInv
    <2>2. CASE request' = [request EXCEPT ![r] = After(r, t)]
        <3>1. After(r, t) \in RequestType /\ RequestSound(After(r, t), rows, used, boardRaced)
            BY <1>1, <1>5, RestSound, AfterSound DEF BoardInv
        <3> QED
            BY <2>2, <3>1
    <2>3. CASE /\ ~Refused(q.op, t)
               /\ request' = [request EXCEPT ![r].read = @ \ {t}, ![r].write = @ \cup {t},
                                             ![r].seen = seen]
        <3>1. t \in DOMAIN rows /\ (q.op.kind = "edit" => t \notin q.op.deps)
            BY <2>3 DEF Refused
        <3>2. rows[t] \in TaskRow /\ rows[t].deps \subseteq used \ {t}
            BY <3>1 DEF BoardInv, BoardTyped, BoardTypeOK
        <3>3. seen \subseteq used \ {t} /\ (q.op.kind = "edit" => seen = rows[t].deps)
            BY <3>2
        <3> HIDE DEF seen
        <3>4. request' = [request EXCEPT ![r] = w]
            BY <1>3, <2>3 DEF RequestType
        <3>5. /\ w \in RequestType /\ w.op = q.op /\ w.pc = "work" /\ w.read = q.read \ {t}
              /\ w.write = q.write \cup {t} /\ w.seen = seen
            BY <1>1, <1>3, <1>5, <3>3 DEF RequestType
        <3>6. w # Idle
            BY <3>5, IdleSound
        <3> HIDE DEF w
        <3>7. ASSUME q.op.kind = "edit" PROVE w.write = {t}
            BY <1>1, <1>3, <1>5, <3>5, <3>7 DEF RequestSound, OpSound
        <3>8. EditSound(w, rows, used, boardRaced)
            BY <3>1, <3>3, <3>5, <3>7 DEF EditSound
        <3>9. RequestSound(w, rows, used, boardRaced)
            BY <1>1, <1>3, <1>5, <3>5, <3>6, <3>8 DEF RequestSound
        <3> QED
            BY <3>4, <3>5, <3>9
    <2> QED
        BY <2>1, <2>2, <2>3 DEF ReadTask
<1>7. \A u : ~AboutToCall(q, u)
    BY <1>1 DEF AboutToCall
<1>8. BoardTypeOK' /\ BoardTyped' /\ BoardRequestsSound' /\ BoardApprovalsSound' /\ ReadyIsSeen'
    BY <1>2, <1>6, <1>7, Kept, MoveSound
<1> QED
    BY <1>4, <1>8 DEF BoardInv

LEMMA CreateSound ==
    ASSUME BoardInv, NEW r \in Requests, Create(r)
    PROVE  BoardInv'
<1> DEFINE q == request[r]
<1>1. q.pc = "work" /\ q.op.kind = "create"
    BY DEF Create
<1>2. PICK t \in Ids \ used :
          /\ Written(r, t, With(rows, t, Created(q.op)))
          /\ used' = used \cup {t}
          /\ wish' = [wish EXCEPT ![t] = q.op.deps]
          /\ granted' = IF q.op.via = "grant" THEN granted \cup {t} ELSE granted
    BY DEF Create
<1> DEFINE row == Created(q.op)
           b == With(rows, t, row)
<1>3. UNCHANGED <<boardApprovals, requests, faults, boardRaced>>
    BY DEF Create, Counts
<1>4. q.op.deps \subseteq used
    BY Kept DEF RequestSound, OpSound
<1>5. /\ row \in TaskRow /\ row.deps \subseteq used
      /\ row.deps = IF q.op.via = "grant" THEN {} ELSE q.op.deps
    BY <1>4, Kept DEF Created, TaskRow, TaskStatus
<1> HIDE DEF row
<1>6. /\ DOMAIN b = DOMAIN rows \cup {t} /\ b[t] = row
      /\ \A u \in DOMAIN rows : b[u] = rows[u]
    BY <1>2, Kept DEF With
<1>7. b \in [DOMAIN b -> TaskRow]
    <2>1. \A u \in DOMAIN rows : rows[u] \in TaskRow
        BY DEF BoardInv, BoardTyped
    <2> QED
        BY <1>5, <2>1 DEF With
<1>8. Written(r, t, b)
    BY <1>2 DEF row
<1> HIDE DEF b
<1>9. IsFiniteSet(DOMAIN b)
    BY <1>6, FS_AddElement DEF BoardInv, BoardTyped
<1>10. \A p \in Requests : t \notin request[p].write
    BY <1>2, Kept DEF RequestSound, OpSound, RequestType
<1>11. WriteSound(r, t, b)
    <2>1. /\ DOMAIN b \subseteq used' /\ t \in used' /\ used \subseteq used' /\ used' \subseteq Ids
          /\ \A u \in DOMAIN b \ {t} : u \in DOMAIN rows /\ b[u] = rows[u]
        BY <1>2, <1>6, Kept
    <2>2. b[t].deps \subseteq used' \ {t}
        BY <1>2, <1>5, <1>6
    <2>3. boardRaced \subseteq boardRaced' /\ boardRaced' \cup granted' \subseteq used'
        BY <1>2, <1>3, Kept DEF BoardInv, BoardTypeOK
    <2>4. wish' \in [Ids -> SUBSET Ids]
        BY <1>2, <1>4, Kept
    <2> QED
        BY <1>3, <1>7, <1>9, <1>10, <2>1, <2>2, <2>3, <2>4 DEF WriteSound
<1>12. DependenciesKept'
    <2>1. rows' = b
        BY <1>8 DEF Written
    <2>2. b[t].deps = wish'[t] \/ t \in granted'
        BY <1>2, <1>5, <1>6, Kept
    <2>3. ASSUME NEW u \in DOMAIN rows PROVE b[u].deps = wish'[u] \/ u \in boardRaced' \cup granted'
        BY <1>2, <1>3, <1>6, Kept DEF BoardInv, DependenciesKept
    <2> QED
        BY <1>6, <2>1, <2>2, <2>3 DEF DependenciesKept
<1> QED
    BY <1>1, <1>8, <1>11, <1>12, WrittenSound, WrittenSeen DEF BoardInv

\* The rows a write leaves: task t edited, deleted or given a status.
LEMMA WriteSees ==
    ASSUME BoardInv, NEW r \in Requests, NEW t \in Ids, WriteTask(r, t), t \in DOMAIN rows,
           NEW b, DOMAIN b \subseteq DOMAIN rows, b \in [DOMAIN b -> TaskRow],
           \A u \in DOMAIN b \ {t} : b[u] = rows[u],
           t \in DOMAIN b => b[t].deps \subseteq used \ {t},
           t \in DOMAIN b => b[t].deps = rows[t].deps \/ request[r].op.kind = "edit"
    PROVE  WriteSound(r, t, b)
<1> DEFINE op == request[r].op
<1>1. /\ UNCHANGED <<boardApprovals, requests, faults, used, granted>>
      /\ wish' = IF op.kind = "edit" /\ op.names THEN [wish EXCEPT ![t] = op.deps] ELSE wish
      /\ boardRaced' = IF op.kind = "edit" /\ Editing(r, t) # {}
                       THEN boardRaced \cup {t} ELSE boardRaced
    BY DEF WriteTask, Counts
<1>2. IsFiniteSet(DOMAIN b) /\ boardRaced \subseteq used
    BY FS_Subset DEF BoardInv, BoardTyped, BoardTypeOK
<1>3. wish' \in [Ids -> SUBSET Ids]
    <2>1. op.deps \subseteq Ids
        BY Kept DEF RequestSound, OpSound
    <2> QED
        BY <1>1, <2>1, Kept
<1>4. ASSUME NEW q \in Requests \ {r}, t \in request[q].write, t \in DOMAIN b
      PROVE  b[t].deps = rows[t].deps \/ t \in boardRaced' \/ request[q].op.kind # "edit"
    <2>1. ASSUME request[q].op.kind = "edit" PROVE q \in Editing(r, t)
        BY <1>4, <2>1 DEF Editing
    <2> QED
        BY <1>1, <1>4, <2>1
<1>5. t \in used
    BY Kept
<1> QED
    BY <1>1, <1>2, <1>3, <1>4, <1>5, Kept DEF WriteSound

LEMMA WriteKeeps ==
    ASSUME BoardInv, NEW r \in Requests, NEW t \in Ids, WriteTask(r, t)
    PROVE  BoardInv'
<1> DEFINE q == request[r]
           op == request[r].op
<1>1. q.pc = "work" /\ t \in q.write
    BY DEF WriteTask
<1>2. q \in RequestType /\ RequestSound(q, rows, used, boardRaced)
    BY Kept
<1>3. CASE t \notin DOMAIN rows
    <2>1. /\ request' = [request EXCEPT ![r] = Rest(r, t)]
          /\ UNCHANGED <<rows, wish, asked, boardUnasked, boardRaced, boardApprovals, requests,
                         faults, used, granted>>
        BY <1>3 DEF WriteTask, Counts
    <2>2. DependenciesKept'
        BY <2>1 DEF BoardInv, DependenciesKept
    <2>3. Rest(r, t) \in RequestType /\ RequestSound(Rest(r, t), rows, used, boardRaced)
        BY <1>1, RestSound DEF BoardInv
    <2>4. \A u : ~AboutToCall(q, u)
        BY <1>1 DEF AboutToCall
    <2>5. BoardTypeOK' /\ BoardTyped' /\ BoardRequestsSound' /\ BoardApprovalsSound' /\ ReadyIsSeen'
        BY <2>1, <2>3, <2>4, Kept, MoveSound
    <2> QED
        BY <2>2, <2>5 DEF BoardInv
<1>4. CASE t \in DOMAIN rows
    <2>1. /\ CASE op.kind = "edit" -> Written(r, t, [rows EXCEPT ![t].deps = EditedDeps(r)])
               [] op.kind = "delete" -> Written(r, t, [u \in DOMAIN rows \ {t} |-> rows[u]])
               [] op.kind \in {"status", "bulk"} ->
                      Written(r, t, [rows EXCEPT ![t].status = op.status])
          /\ wish' = IF op.kind = "edit" /\ op.names THEN [wish EXCEPT ![t] = op.deps] ELSE wish
          /\ boardRaced \subseteq boardRaced' /\ UNCHANGED granted
        BY <1>4 DEF WriteTask
    <2>2. rows \in [DOMAIN rows -> TaskRow] /\ rows[t] \in TaskRow /\ rows[t].deps \subseteq used \ {t}
        BY <1>4 DEF BoardInv, BoardTyped, BoardTypeOK
    <2>3. op.kind \in {"create", "edit", "delete", "status", "bulk"} /\ op.kind # "create"
        BY <1>1, <1>2 DEF RequestSound
    <2>4. ASSUME NEW b, Written(r, t, b), WriteSound(r, t, b),
                 t \in DOMAIN b => b[t].deps = wish'[t] \/ t \in boardRaced' \cup granted'
          PROVE  BoardInv'
        <3>1. rows' = b
            BY <2>4 DEF Written
        <3>2. ASSUME NEW u \in DOMAIN b, u # t
              PROVE  b[u].deps = wish'[u] \/ u \in boardRaced' \cup granted'
            <4>1. u \in DOMAIN rows /\ b[u] = rows[u]
                BY <2>4, <3>2 DEF WriteSound
            <4> QED
                BY <2>1, <3>2, <4>1, Kept DEF BoardInv, DependenciesKept
        <3>3. DependenciesKept'
            BY <2>4, <3>1, <3>2 DEF DependenciesKept
        <3> QED
            BY <1>1, <2>4, <3>3, WrittenSound, WrittenSeen DEF BoardInv
    <2>5. CASE op.kind = "edit"
        <3> DEFINE b == [rows EXCEPT ![t].deps = EditedDeps(r)]
        <3>1. Written(r, t, b)
            BY <2>1, <2>5
        <3>2. t \notin op.deps /\ t \notin q.seen /\ q.seen \subseteq used
              /\ (q.seen = rows[t].deps \/ t \in boardRaced)
            BY <1>1, <1>2, <1>4, <2>5 DEF RequestSound, EditSound
        <3>3. op.deps \subseteq used
            BY <1>2 DEF RequestSound, OpSound
        <3>4. EditedDeps(r) \subseteq used \ {t}
            BY <3>2, <3>3 DEF EditedDeps
        <3>5. /\ DOMAIN b = DOMAIN rows /\ b[t].deps = EditedDeps(r)
              /\ b \in [DOMAIN rows -> TaskRow] /\ \A u \in DOMAIN rows \ {t} : b[u] = rows[u]
            BY <1>4, <2>2, <3>4, Kept DEF TaskRow
        <3> HIDE DEF b
        <3>6. WriteSound(r, t, b)
            BY <1>4, <2>5, <3>4, <3>5, WriteSees
        <3>7. b[t].deps = wish'[t] \/ t \in boardRaced' \cup granted'
            <4>1. CASE op.names
                BY <2>1, <2>5, <3>5, <4>1, Kept DEF EditedDeps
            <4>2. CASE ~op.names
                <5>1. rows[t].deps = wish[t] \/ t \in boardRaced \cup granted
                    BY <1>4 DEF BoardInv, DependenciesKept
                <5>2. wish' = wish /\ EditedDeps(r) = q.seen
                    BY <2>1, <4>2 DEF EditedDeps
                <5> QED
                    BY <2>1, <3>2, <3>5, <5>1, <5>2
            <4> QED
                BY <4>1, <4>2
        <3> QED
            BY <2>4, <3>1, <3>6, <3>7
    <2>6. CASE op.kind = "delete"
        <3> DEFINE b == [u \in DOMAIN rows \ {t} |-> rows[u]]
        <3>1. Written(r, t, b)
            BY <2>1, <2>6
        <3>2. /\ DOMAIN b = DOMAIN rows \ {t} /\ \A u \in DOMAIN b : b[u] = rows[u]
              /\ b \in [DOMAIN b -> TaskRow]
            BY <2>2
        <3> HIDE DEF b
        <3>3. WriteSound(r, t, b)
            BY <1>4, <3>2, WriteSees
        <3> QED
            BY <2>4, <3>1, <3>2, <3>3
    <2>7. CASE op.kind \in {"status", "bulk"}
        <3> DEFINE b == [rows EXCEPT ![t].status = op.status]
        <3>1. Written(r, t, b)
            BY <2>1, <2>7
        <3>2. op.status \in TaskStatus
            BY <1>2 DEF RequestType, Op
        <3>3. /\ DOMAIN b = DOMAIN rows /\ b[t].deps = rows[t].deps
              /\ b \in [DOMAIN rows -> TaskRow] /\ \A u \in DOMAIN rows \ {t} : b[u] = rows[u]
            BY <1>4, <2>2, <3>2 DEF TaskRow
        <3> HIDE DEF b
        <3>4. WriteSound(r, t, b)
            BY <1>4, <2>2, <3>3, WriteSees
        <3>5. b[t].deps = wish'[t] \/ t \in boardRaced' \cup granted'
            <4>1. wish' = wish
                BY <2>1, <2>7
            <4> QED
                BY <1>4, <2>1, <3>3, <4>1 DEF BoardInv, DependenciesKept
        <3> QED
            BY <2>4, <3>1, <3>4, <3>5
    <2> QED
        BY <2>3, <2>5, <2>6, <2>7
<1> QED
    BY <1>3, <1>4

LEMMA BoardStarts ==
    ASSUME IsFiniteSet(Old), BoardInit
    PROVE  BoardInv
<1>1. PICK s \in [Old -> TaskStatus], d \in [Old -> SUBSET Old] :
          /\ \A t \in Old : t \notin d[t]
          /\ rows = [t \in Old |-> [status |-> s[t], deps |-> d[t]]]
          /\ wish = [t \in Ids |-> IF t \in Old THEN d[t] ELSE {}]
    BY DEF BoardInit
<1>2. /\ boardApprovals = {} /\ request = [r \in Requests |-> Idle]
      /\ requests = 0 /\ faults = 0
      /\ used = Old /\ asked = {} /\ boardUnasked = Old /\ boardRaced = {} /\ granted = {}
    BY DEF BoardInit
<1>3. Old \subseteq Ids /\ 0 \in 0 .. MaxRequests /\ 0 \in 0 .. MaxFaults
    BY BoardAssumption
<1>4. /\ DOMAIN rows = Old
      /\ \A t \in Old : rows[t].status \in TaskStatus /\ rows[t].deps = d[t]
                        /\ rows[t] \in TaskRow
    BY <1>1, <1>3 DEF TaskRow
<1>5. rows \in [DOMAIN rows -> TaskRow]
    BY <1>1, <1>4
<1>6. BoardTyped
    BY <1>1, <1>2, <1>3, <1>4, <1>5, IdleSound DEF BoardTyped
<1>7. BoardTypeOK
    <2>1. \A r \in Requests : request[r] = Idle
        BY <1>2
    <2>2. Idle.op \in Op
        BY IdleSound DEF RequestType
    <2> QED
        BY <1>1, <1>2, <1>3, <1>4, <2>1, <2>2, IdleSound DEF BoardTypeOK
<1>8. BoardRequestsSound /\ BoardApprovalsSound
    BY <1>2, IdleSound DEF BoardRequestsSound, BoardApprovalsSound
<1>9. DependenciesKept
    BY <1>1, <1>3, <1>4 DEF DependenciesKept
<1>10. ReadyIsSeen
    BY <1>2, <1>4 DEF ReadyIsSeen, Open
<1> QED
    BY <1>6, <1>7, <1>8, <1>9, <1>10 DEF BoardInv

LEMMA BoardSteps ==
    ASSUME BoardInv, [BoardNext]_boardVars
    PROVE  BoardInv'
<1>1. CASE UNCHANGED boardVars
    <2>1. UNCHANGED <<rows, boardApprovals, request, requests, faults, used, wish, asked,
                      boardUnasked, boardRaced, granted>>
        BY <1>1 DEF boardVars, Counts, History
    <2>2. BoardTypeOK' /\ BoardTyped'
        BY <2>1 DEF BoardInv, BoardTypeOK, BoardTyped
    <2>3. BoardRequestsSound' /\ BoardApprovalsSound'
        BY <2>1 DEF BoardInv, BoardRequestsSound, BoardApprovalsSound
    <2>4. DependenciesKept'
        BY <2>1 DEF BoardInv, DependenciesKept
    <2>5. ReadyIsSeen'
        BY <2>1 DEF BoardInv, ReadyIsSeen, AboutToCall, Open, ReadyOn
    <2> QED
        BY <2>2, <2>3, <2>4, <2>5 DEF BoardInv
<1>2. ASSUME NEW r \in Requests,
             \/ Ask(r) \/ Grant(r) \/ Create(r) \/ CallFails(r)
             \/ \E t \in Ids : ReadTask(r, t) \/ WriteTask(r, t)
                               \/ WakeRead(r, t) \/ WakeList(r, t)
      PROVE  BoardInv'
    BY <1>2, AskSound, GrantSound, CreateSound, CallFailsSound, ReadSound, WriteKeeps,
       WakeReadSound, WakeListSound
<1> QED
    BY <1>1, <1>2 DEF BoardNext

LEMMA BoardHolds ==
    ASSUME IsFiniteSet(Old)
    PROVE  BoardSpec => []BoardInv
<1>1. BoardInit => BoardInv
    BY BoardStarts
<1>2. BoardInv /\ [BoardNext]_boardVars => BoardInv'
    BY BoardSteps
<1> QED
    BY <1>1, <1>2, PTL DEF BoardSpec

\* A task has the dependencies last asked for and none on itself, whatever
\* requests change the board at the same time, unless two edits of it overlap
\* or what was asked for went through an approval (updateTask and
\* executeApprovedAction).
THEOREM BoardIsSound ==
    ASSUME IsFiniteSet(Old)
    PROVE  BoardSpec => []BoardSound
<1>1. BoardInv => BoardSound
    BY DEF BoardInv, BoardSound
<1> QED
    BY <1>1, BoardHolds, PTL

\* With nobody at work, the agent of a task to work on that is ready was called
\* since the task was last written, but for what calls nobody
\* (enqueueTaskExecutionIfReady reads the task and the board in two steps).
THEOREM ReadyTasksAreCalled ==
    ASSUME IsFiniteSet(Old)
    PROVE  BoardSpec => []ReadyIsCalled
<1>1. BoardInv => ReadyIsCalled
    <2>1. SUFFICES ASSUME BoardInv, BoardQuiet, NEW t \in Open(rows), ReadyOn(rows, t)
                   PROVE  t \in asked \cup boardUnasked
        BY DEF ReadyIsCalled
    <2>2. \A r \in Requests : ~AboutToCall(request[r], t)
        BY <2>1, IdleSound DEF BoardQuiet, AboutToCall
    <2> QED
        BY <2>1, <2>2 DEF BoardInv, ReadyIsSeen
<1> QED
    BY <1>1, BoardHolds, PTL

(* What keeps the board from going on *)

\* Of some subsets of a finite set, one contains no other of them.
LEMMA SmallestSubset ==
    ASSUME NEW W, IsFiniteSet(W), NEW C, C \subseteq SUBSET W, C # {}
    PROVE  \E X \in C : \A Y \in C : Y \subseteq X => Y = X
<1>1. IsWellFoundedOn(StrictSubsetOrdering(W), SUBSET W)
    BY FS_StrictSubsetOrderingWellFounded, FS_FiniteSubsetsOfFinite
<1>2. PICK X \in C : \A Y \in C : <<Y, X>> \notin StrictSubsetOrdering(W)
    BY <1>1, WFMin
<1>3. \A Y \in C : Y \subseteq X => Y = X
    BY <1>2 DEF StrictSubsetOrdering
<1> QED
    BY <1>3

\* What a task upstream of another depends on is upstream of it too.
LEMMA UpstreamOf ==
    ASSUME NEW T, T \subseteq Ids
    PROVE  /\ Upstream(T) \subseteq Ids /\ T \subseteq Upstream(T)
           /\ \A u \in Upstream(T) \cap DOMAIN rows :
                 rows[u].deps \subseteq Ids => rows[u].deps \subseteq Upstream(T)
           /\ \A U : U \subseteq Upstream(T) => Upstream(U) \subseteq Upstream(T)
<1>1. Upstream(T) \subseteq Ids /\ T \subseteq Upstream(T)
    BY DEF Upstream
<1>2. ASSUME NEW u \in Upstream(T) \cap DOMAIN rows, NEW d \in rows[u].deps, d \in Ids
      PROVE  d \in Upstream(T)
    BY <1>2 DEF Upstream, Closed
<1>3. ASSUME NEW U, U \subseteq Upstream(T), NEW u \in Upstream(U)
      PROVE  u \in Upstream(T)
    BY <1>3 DEF Upstream
<1> QED
    BY <1>1, <1>2, <1>3

\* While there are tasks to work on one is ready, unless each waits in the end
\* for a task that is missing, in review, blocked or cancelled, or that waits
\* for itself (evaluateTaskReadiness, over any number of dependencies).
THEOREM OpenWorkCanProgress ==
    ASSUME IsFiniteSet(Old)
    PROVE  BoardSpec => []OpenWorkProgresses
<1>1. BoardInv => OpenWorkProgresses
    <2>1. SUFFICES ASSUME BoardInv, \A t \in Open(rows) : ~ReadyOn(rows, t),
                          NEW t \in Open(rows),
                          \A u \in Upstream({t}) :
                              /\ u \in DOMAIN rows
                              /\ rows[u].status \notin {"review", "blocked", "cancelled"}
                              /\ u \notin Upstream(rows[u].deps)
                   PROVE  FALSE
        BY DEF OpenWorkProgresses
    <2>2. /\ IsFiniteSet(DOMAIN rows) /\ DOMAIN rows \subseteq Ids
          /\ \A u \in DOMAIN rows : rows[u].deps \subseteq Ids /\ rows[u].status \in TaskStatus
        BY <2>1 DEF BoardInv, BoardTyped, BoardTypeOK
    <2>3. t \in DOMAIN rows /\ t \in Ids
        BY <2>2 DEF Open
    <2> DEFINE Up == Upstream({t})
               W == Up \cap Open(rows)
               Before(u) == Upstream(rows[u].deps) \cap W
    <2>4. t \in Up
        BY <2>3, UpstreamOf
    <2>5. ASSUME NEW u \in Up PROVE rows[u].deps \subseteq Up /\ rows[u].deps \subseteq Ids
        BY <2>1, <2>2, <2>3, UpstreamOf
    <2> HIDE DEF Up
    <2>6. W \subseteq DOMAIN rows /\ IsFiniteSet(W) /\ t \in W
        BY <2>2, <2>4, FS_Subset DEF Open
    <2>7. PICK u \in W : \A d \in W : Before(d) \subseteq Before(u) => Before(d) = Before(u)
        <3> HIDE DEF W
        <3> DEFINE C == {Before(u) : u \in W}
        <3>1. C \subseteq SUBSET W /\ C # {}
            BY <2>6
        <3>2. PICK X \in C : \A Y \in C : Y \subseteq X => Y = X
            <4> HIDE DEF C
            <4> QED
                BY <2>6, <3>1, SmallestSubset
        <3>3. PICK u \in W : X = Before(u)
            OBVIOUS
        <3>4. \A d \in W : Before(d) \in C
            OBVIOUS
        <3> HIDE DEF C, Before
        <3> QED
            BY <3>2, <3>3, <3>4
    <2>8. PICK d \in rows[u].deps : ~(d # u /\ d \in DOMAIN rows /\ rows[d].status = "done")
        BY <2>1, <2>7, ReadyWhen
    <2>9. d \in Up /\ d \in Upstream(rows[u].deps)
        BY <2>5, <2>7, <2>8, UpstreamOf
    <2>10. d # u
        BY <2>1, <2>7, <2>9 DEF Up
    <2>11. d \in DOMAIN rows /\ rows[d].status \in {"pending", "in_progress"}
        BY <2>1, <2>2, <2>8, <2>9, <2>10 DEF Up, TaskStatus
    <2>12. d \in W
        BY <2>9, <2>11 DEF Open
    <2>13. Upstream(rows[d].deps) \subseteq Upstream(rows[u].deps)
        BY <2>2, <2>5, <2>7, <2>9, <2>11, UpstreamOf
    <2>14. d \in Before(u) /\ d \notin Before(d)
        BY <2>1, <2>9, <2>12 DEF Up
    <2>15. Before(d) \subseteq Before(u)
        BY <2>13
    <2> QED
        BY <2>7, <2>12, <2>14, <2>15
<1> QED
    BY <1>1, BoardHolds, PTL
=============================================================================
