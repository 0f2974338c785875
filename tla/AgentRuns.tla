----------------------------- MODULE AgentRuns -----------------------------
(***************************************************************************)
(* Agent runs asked for over HTTP: POST /engine/agent-runs                 *)
(* (modules/engine/engine.controller.ts), the daily quota                  *)
(* (modules/shared/daily-quota.guard.ts), the agent.run lane of the job    *)
(* queue and its handler (bootstrap/queue-handlers.ts), the run record     *)
(* (core AgentRunService) and the agent's status that the handler sets.    *)
(*                                                                         *)
(* A request goes through the stages of call, the job it leaves in the     *)
(* queue through the stages of job; a stage is what the code is awaiting,  *)
(* an action is what happens when that await ends, up to the next one.     *)
(* The queue is its contract: jobs of the lane start in the order they     *)
(* were accepted, as many at a time as the lane has slots (module          *)
(* InMemoryQueue shows the code keeps it).                                 *)
(***************************************************************************)
EXTENDS Integers, Sequences, FiniteSets

CONSTANTS
    Requests,     \* the requests made, each at most once
    Actors,       \* subjects the requests are made by
    Agents,       \* agents the requests name
    MaxPerDay,    \* the quota of an actor
    Slots,        \* agent.run jobs that run at a time
    MaxFaults,    \* bound: awaited calls that fail
    MaxDays,      \* bound: midnights
    MaxCrashes    \* bound: processes that end without draining their queue

ASSUME RunsAssumption ==
    /\ MaxPerDay \in Nat \ {0} /\ Slots \in Nat \ {0}
    /\ MaxFaults \in Nat /\ MaxDays \in Nat /\ MaxCrashes \in Nat

VARIABLES
    usage,      \* per actor: the counter of today's key, in memory
    call,       \* per request: the stage of the HTTP handler
    agent,      \* per request: the agent it names
    state,      \* per request: the state of its run record, "none" before
    approval,   \* per request: an approval request was created for it
    pending,    \* the waiting jobs of the lane, in order
    job,        \* per request: the stage of its job
    status,     \* per agent: its status
    closed,     \* the queue no longer accepts jobs
    faults, days, crashes,   \* bounds
    taken,      \* history: requests of each actor let through today
    boots,      \* history: processes that ended today
    orphan      \* history: the runs nobody works on any more

httpVars == <<usage, taken, call, agent, approval>>
jobVars == <<pending, job>>
vars == <<httpVars, jobVars, state, status, closed, faults, days, crashes,
          boots, orphan>>

CallStages == {"idle", "approving", "creating", "created", "asking", "over"}
JobStages == {"none", "pending", "planning", "starting", "executing", "running",
              "idling", "closing", "auditing", "erroring", "marking",
              "reporting", "done"}
RunStates == {"queued", "planning", "waiting_approval", "executing",
              "completed", "failed", "cancelled"}

\* RUN_TRANSITIONS of packages/agent-runtime, which no writer consults.
RUN_TRANSITIONS == [s \in RunStates |->
    CASE s = "queued"           -> {"planning", "cancelled"}
      [] s = "planning"         -> {"waiting_approval", "executing", "failed", "cancelled"}
      [] s = "waiting_approval" -> {"planning", "executing", "cancelled", "failed"}
      [] s = "executing"        -> {"completed", "failed", "cancelled", "waiting_approval"}
      [] OTHER                  -> {}]

Stopped == {"none", "pending", "done"}
Failing == {"erroring", "marking", "reporting"}

InSlot(j) == {r \in Requests : j[r] \notin Stopped}

-----------------------------------------------------------------------------
(* The lane *)

\* The pump, on the waiting list p and the stages j the caller has written.
\* A started handler runs up to its first await, the write of "planning".
Pump(p, j) ==
    LET free == Slots - Cardinality(InSlot(j))
        n == IF Len(p) < free THEN Len(p) ELSE free
        started == {p[i] : i \in 1 .. n}
    IN  /\ pending' = SubSeq(p, n + 1, Len(p))
        /\ job' = [r \in Requests |-> IF r \in started THEN "planning" ELSE j[r]]

\* Wrong variant: the slot is returned but the pump does not run.
JobEnds_NoPump(r) == job' = [job EXCEPT ![r] = "done"] /\ UNCHANGED pending

JobEnds(r) == Pump(pending, [job EXCEPT ![r] = "done"])

-----------------------------------------------------------------------------
Init ==
    /\ usage = [a \in Actors |-> 0]
    /\ taken = [a \in Actors |-> 0]
    /\ call = [r \in Requests |-> "idle"]
    /\ agent \in [Requests -> Agents]
    /\ approval = [r \in Requests |-> FALSE]
    /\ pending = <<>>
    /\ job = [r \in Requests |-> "none"]
    /\ state = [r \in Requests |-> "none"]
    /\ status = [g \in Agents |-> "idle"]
    /\ closed = FALSE
    /\ faults = 0 /\ days = 0 /\ crashes = 0 /\ boots = 0
    /\ orphan = {}

-----------------------------------------------------------------------------
(* The HTTP handler *)

\* Wrong variant: the request is counted when it is enqueued, after two awaits.
Ask_CountsLater(r, a) ==
    /\ ~closed
    /\ call[r] = "idle"
    /\ usage[a] < MaxPerDay
    /\ taken' = [taken EXCEPT ![a] = @ + 1]
    /\ call' = [call EXCEPT ![r] = "approving"]
    /\ UNCHANGED <<usage, agent, approval, jobVars, state, status, closed,
                   faults, days, crashes, boots, orphan>>

\* consume() compares and counts without an await; a request over the quota
\* is answered 429 and changes nothing.
Ask(r, a) ==
    /\ ~closed
    /\ call[r] = "idle"
    /\ usage[a] < MaxPerDay
    /\ usage' = [usage EXCEPT ![a] = @ + 1]
    /\ taken' = [taken EXCEPT ![a] = @ + 1]
    /\ call' = [call EXCEPT ![r] = "approving"]
    /\ UNCHANGED <<agent, approval, jobVars, state, status, closed,
                   faults, days, crashes, boots, orphan>>

ToStage(r, from, to) == call[r] = from /\ call' = [call EXCEPT ![r] = to]

\* ensureApproval: the mode of the caller decides, then either row is written.
Decide(r) ==
    /\ ToStage(r, "approving", "creating") \/ ToStage(r, "approving", "asking")
    /\ UNCHANGED <<usage, taken, agent, approval, jobVars, state, status, closed,
                   faults, days, crashes, boots, orphan>>

\* Nothing resumes a request that was refused; the audit write that follows
\* here and in Enqueue can fail the answer but changes nothing else.
RequestApproval(r) ==
    /\ ToStage(r, "asking", "over")
    /\ approval' = [approval EXCEPT ![r] = TRUE]
    /\ UNCHANGED <<usage, taken, agent, jobVars, state, status, closed,
                   faults, days, crashes, boots, orphan>>

CreateRun(r) ==
    /\ ToStage(r, "creating", "created")
    /\ state' = [state EXCEPT ![r] = "queued"]
    /\ UNCHANGED <<usage, taken, agent, approval, jobVars, status, closed,
                   faults, days, crashes, boots, orphan>>

Enqueue(r) ==
    /\ ToStage(r, "created", "over")
    /\ Pump(Append(pending, r), [job EXCEPT ![r] = "pending"])
    /\ UNCHANGED <<usage, taken, agent, approval, state, status, closed,
                   faults, days, crashes, boots, orphan>>

\* An awaited call of the handler fails: the caller gets an error.
CallFails(r) ==
    /\ faults < MaxFaults
    /\ call[r] \in {"approving", "creating", "asking"}
    /\ call' = [call EXCEPT ![r] = "over"]
    /\ faults' = faults + 1
    /\ UNCHANGED <<usage, taken, agent, approval, jobVars, state, status, closed,
                   days, crashes, boots, orphan>>

-----------------------------------------------------------------------------
(* The job handler *)

\* The write of the run's state, then the next await.
Write(r, from, s, to) ==
    /\ job[r] = from
    /\ state' = [state EXCEPT ![r] = s]
    /\ job' = [job EXCEPT ![r] = to]
    /\ UNCHANGED <<httpVars, pending, status, closed, faults, days, crashes,
                   boots, orphan>>

\* The write of the agent's status, whatever it was, then the next await.
Mark(r, from, s, to) ==
    /\ job[r] = from
    /\ status' = [status EXCEPT ![agent[r]] = s]
    /\ job' = [job EXCEPT ![r] = to]
    /\ UNCHANGED <<httpVars, pending, state, closed, faults, days, crashes,
                   boots, orphan>>

\* Wrong variant: the run goes from "queued" to "executing" at once.
Plan_Skips(r) == Write(r, "planning", "executing", "starting")

Plan(r) == Write(r, "planning", "planning", "starting")
MarkStarted(r) == Mark(r, "starting", "running", "executing")
Execute(r) == Write(r, "executing", "executing", "running")

\* The runner's own guard may refuse what the route let through: "blocked".
\* The outcome is carried to the write of the final state.
RunnerEnds(r) ==
    /\ job[r] = "running"
    /\ job' = [job EXCEPT ![r] = "idling"]
    /\ UNCHANGED <<httpVars, pending, state, status, closed, faults, days,
                   crashes, boots, orphan>>

MarkCompleted(r) == Mark(r, "idling", "idle", "closing")

\* updateState of handleAgentRunCompleted; a blocked run waits for an
\* approval request that no step creates.
Close(r) ==
    \/ Write(r, "closing", "completed", "auditing")
    \/ Write(r, "closing", "waiting_approval", "auditing")

\* The last audit write of either outcome; process() ends and frees the slot.
Report(r) ==
    /\ job[r] \in {"auditing", "reporting"}
    /\ JobEnds(r)
    /\ UNCHANGED <<httpVars, state, status, closed, faults, days, crashes,
                   boots, orphan>>

Caught == "erroring"

\* An awaited call of the try block fails: handleAgentRunFailed begins.
JobFails(r) ==
    /\ faults < MaxFaults
    /\ job[r] \notin Stopped \cup Failing
    /\ job' = [job EXCEPT ![r] = Caught]
    /\ faults' = faults + 1
    /\ UNCHANGED <<httpVars, pending, state, status, closed, days, crashes,
                   boots, orphan>>

MarkFailed(r) == Mark(r, "erroring", "error", "marking")

\* Wrong variant: the record is not told of the failure.
Fail_KeepsState(r) ==
    /\ job[r] = "marking"
    /\ job' = [job EXCEPT ![r] = "reporting"]
    /\ UNCHANGED <<httpVars, pending, state, status, closed, faults, days,
                   crashes, boots, orphan>>

Fail(r) == Write(r, "marking", "failed", "reporting")

\* handleAgentRunFailed fails itself: the queue swallows the error.
FailureFails(r) ==
    /\ faults < MaxFaults
    /\ job[r] \in Failing
    /\ JobEnds(r)
    /\ faults' = faults + 1
    /\ orphan' = IF job[r] = "reporting" THEN orphan ELSE orphan \cup {r}
    /\ UNCHANGED <<httpVars, state, status, closed, days, crashes, boots>>

-----------------------------------------------------------------------------
(* The process and the day *)

\* onClose runs once the requests in flight are answered; the jobs accepted
\* are still worked on.
CloseQueue ==
    /\ ~closed
    /\ \A r \in Requests : call[r] \in {"idle", "over"}
    /\ closed' = TRUE
    /\ UNCHANGED <<httpVars, jobVars, state, status, faults, days, crashes,
                   boots, orphan>>

\* The process that comes up after this one has an empty queue and an empty
\* quota map, and reads nothing of the runs that were in progress.
NewProcess ==
    /\ closed' = FALSE
    /\ pending' = <<>>
    /\ job' = [r \in Requests |-> IF job[r] = "none" THEN "none" ELSE "done"]
    /\ call' = [r \in Requests |-> IF call[r] = "idle" THEN "idle" ELSE "over"]
    /\ usage' = [a \in Actors |-> 0]
    /\ boots' = boots + 1
    /\ UNCHANGED <<taken, agent, approval, state, status, faults, days>>

Unfinished(r) ==
    call[r] = "created" \/ job[r] \notin {"none", "done", "auditing", "reporting"}

Crash ==
    /\ crashes < MaxCrashes
    /\ crashes' = crashes + 1
    /\ orphan' = orphan \cup {r \in Requests : Unfinished(r)}
    /\ NewProcess

\* A closed process ends once its queue is drained.
Restart ==
    /\ closed
    /\ crashes < MaxCrashes
    /\ \A r \in Requests : job[r] \in {"none", "done"}
    /\ crashes' = crashes + 1
    /\ UNCHANGED orphan
    /\ NewProcess

\* A new date is a new key; the keys of other days are dropped.
Midnight ==
    /\ days < MaxDays
    /\ days' = days + 1
    /\ usage' = [a \in Actors |-> 0]
    /\ taken' = [a \in Actors |-> 0]
    /\ boots' = 0
    /\ UNCHANGED <<call, agent, approval, jobVars, state, status, closed,
                   faults, crashes, orphan>>

-----------------------------------------------------------------------------
CallStep(r) ==
    Decide(r) \/ RequestApproval(r) \/ CreateRun(r) \/ Enqueue(r)

JobStep(r) ==
    \/ Plan(r) \/ MarkStarted(r) \/ Execute(r) \/ RunnerEnds(r)
    \/ MarkCompleted(r) \/ Close(r) \/ Report(r) \/ MarkFailed(r) \/ Fail(r)

Next ==
    \/ \E r \in Requests, a \in Actors : Ask(r, a)
    \/ \E r \in Requests :
          CallStep(r) \/ CallFails(r) \/ JobStep(r) \/ JobFails(r) \/ FailureFails(r)
    \/ CloseQueue \/ Crash \/ Restart \/ Midnight

Spec == Init /\ [][Next]_vars

\* An await ends: database calls return and tools and adapters answer or fail.
Fairness == \A r \in Requests : WF_vars(CallStep(r)) /\ WF_vars(JobStep(r))

FairSpec == Spec /\ Fairness

-----------------------------------------------------------------------------
(* Properties *)

\* Every variable has its type, and jobs wait only while every slot is taken.
TypeOK ==
    /\ usage \in [Actors -> 0 .. MaxPerDay]
    /\ taken \in [Actors -> Nat]
    /\ call \in [Requests -> CallStages]
    /\ agent \in [Requests -> Agents]
    /\ approval \in [Requests -> BOOLEAN]
    /\ pending \in Seq(Requests)
    /\ job \in [Requests -> JobStages]
    /\ state \in [Requests -> RunStates \cup {"none"}]
    /\ status \in [Agents -> {"idle", "running", "error"}]
    /\ closed \in BOOLEAN
    /\ faults \in 0 .. MaxFaults /\ days \in 0 .. MaxDays
    /\ crashes \in 0 .. MaxCrashes /\ boots \in 0 .. MaxCrashes
    /\ orphan \subseteq Requests
    /\ Cardinality(InSlot(job)) <= Slots
    /\ pending # <<>> => Cardinality(InSlot(job)) = Slots

\* An actor gets at most MaxPerDay requests through in a day from each
\* process of that day, however its requests overlap: the count is taken
\* before the first await (and is lost with the process).
QuotaHolds == \A a \in Actors : taken[a] <= MaxPerDay * (1 + boots)

\* The record follows RUN_TRANSITIONS, which nothing enforces, except for a
\* run whose handler has failed: that one is stored as "failed" from wherever
\* it was, a completed run whose audit write failed included.
MovesAreLegal ==
    [][\A r \in Requests :
          (state'[r] # state[r] /\ state[r] # "none")
          => \/ state'[r] \in RUN_TRANSITIONS[state[r]]
             \/ state'[r] = "failed" /\ job[r] = "marking"]_vars

\* A record that is not in a final or waiting state is being worked on: the
\* request that created it is about to enqueue it, or its job waits or runs.
\* Only a process that ended, or a failure whose own handling failed, leaves
\* a record behind.
NothingForgotten ==
    \A r \in Requests :
        state[r] \in {"queued", "planning", "executing"} =>
            \/ r \in orphan
            \/ call[r] = "created"
            \/ job[r] = "pending" /\ \E i \in DOMAIN pending : pending[i] = r
            \/ job[r] \notin Stopped

\* An agent shown as running has a run in progress, unless one of its runs
\* was left behind: no order of two runs of one agent ends on "running".
RunningIsBusy ==
    \A g \in Agents :
        status[g] = "running" =>
            \E r \in Requests :
                agent[r] = g /\ (r \in orphan \/ job[r] \notin Stopped)

\* What is stored about runs and agents is what goes on: the two above, and
\* the slots of the lane.
RecordsSound == TypeOK /\ NothingForgotten /\ RunningIsBusy

\* Every run that was created ends, or waits for an approval, or was left
\* behind by a process that ended or a failure that could not be stored.
RunsEnd ==
    \A r \in Requests :
        state[r] = "queued" ~>
            (state[r] \in {"completed", "failed", "waiting_approval"} \/ r \in orphan)
=============================================================================
