--------------------------- MODULE InMemoryQueue ---------------------------
(***************************************************************************)
(* The in-process job queue of the server,                                 *)
(* apps/server/src/queue/in-memory-queue.service.ts.                       *)
(*                                                                         *)
(* The server is one Node process, so a method runs without interruption   *)
(* up to its first await.  Each action below is one such stretch:          *)
(*   Enqueue    the body of enqueue, with the pump it ends in;             *)
(*   Settle     the handler's promise settles and process() stores the     *)
(*              outcome;                                                   *)
(*   Release    the .finally() of pump, a later microtask: the slot is     *)
(*              returned, the pump runs again, close() may be resolved;    *)
(*   Close      close() up to its await;                                   *)
(*   Forget     close() after its await, which drops every record.         *)
(* Between Settle and Release the job is finished but still holds a slot.  *)
(***************************************************************************)
EXTENDS Integers, Sequences, FiniteSets

CONSTANTS
    Agents,       \* agent ids a job may name
    Tasks,        \* task ids a task.execute job may name
    NoTask,       \* the absent taskId of a batch task.execute job
    Handled,      \* the job types setHandlers installed a handler for
    Undefined,    \* an option the caller left out
    Options,      \* the concurrency options of the constructor
    MaxJobs       \* bound: jobs accepted before the model stops enqueuing

JobTypes == {"agent.run", "tool.execute", "task.execute"}

ASSUME QueueAssumption ==
    /\ NoTask \notin Tasks
    /\ Handled \subseteq JobTypes
    /\ Undefined \notin Int
    /\ Options \in [JobTypes -> Int \cup {Undefined}]
    /\ MaxJobs \in Nat

VARIABLES
    jobs,           \* every accepted job, in order of acceptance
    pendingByType,  \* per type, the positions in jobs of the waiting ones
    runningByType,  \* per type, the counter of taken slots
    holding,        \* positions of the jobs whose process() promise is open
    closed,         \* the flag enqueue tests
    closePromise    \* "none", "pending" (a resolver is stored) or "resolved"

vars == <<jobs, pendingByType, runningByType, holding, closed, closePromise>>

-----------------------------------------------------------------------------
(* Concurrency limits *)

Fallback == [t \in JobTypes |->
                CASE t = "agent.run"    -> 4
                  [] t = "tool.execute" -> 8
                  [] t = "task.execute" -> 2]

\* Wrong variant: the lower limit of one slot is dropped.
NormalizeConcurrency_NoMinimum(value, fallback) ==
    IF value = Undefined THEN fallback ELSE value

\* Fractional options are floored in the code; here options are integers.
NormalizeConcurrency(value, fallback) ==
    IF value = Undefined THEN fallback
    ELSE IF value < 1 THEN 1 ELSE value

maxConcurrencyByType ==
    [t \in JobTypes |-> NormalizeConcurrency(Options[t], Fallback[t])]

-----------------------------------------------------------------------------
(* Jobs *)

Status == {"queued", "running", "completed", "failed"}

TaskIds == Tasks \cup {NoTask}

Job == [type : JobTypes, agentId : Agents, taskId : TaskIds, status : Status]

NewJob(t, a, k) == [type |-> t, agentId |-> a, taskId |-> k, status |-> "queued"]

\* Jobs name the same work when agent and task agree; a batch job (no task)
\* and a job for one task of the agent are different work.
IsSameJob(j, a, k) == j.agentId = a /\ j.taskId = k

PendingIds(t) == {pendingByType[t][n] : n \in 1 .. Len(pendingByType[t])}

\* Wrong variant: jobs already running are not looked at.
AlreadyQueued_PendingOnly(a, k) ==
    \E i \in PendingIds("task.execute") : IsSameJob(jobs[i], a, k)

\* The deduplication test of enqueue.
AlreadyQueued(a, k) ==
    \/ \E i \in PendingIds("task.execute") : IsSameJob(jobs[i], a, k)
    \/ \E i \in 1 .. Len(jobs) :
          /\ jobs[i].type = "task.execute"
          /\ jobs[i].status = "running"
          /\ IsSameJob(jobs[i], a, k)

-----------------------------------------------------------------------------
(* The pump: with js, p, r, h the records, the waiting list, the slot       *)
(* counter and the slot holders after the caller's own changes, start jobs  *)
(* from the front of p while slots are free.  process() runs synchronously  *)
(* up to the handler's first await, so a started job is already "running".  *)

\* Wrong variants: the loop test of pump is off by one, either way.
FreeSlots_OneMore(t, r) == maxConcurrencyByType[t] - r + 1
FreeSlots_OneLess(t, r) == maxConcurrencyByType[t] - r - 1

FreeSlots(t, r) == maxConcurrencyByType[t] - r

StartCount(t, p, r) ==
    IF Len(p) < FreeSlots(t, r) THEN Len(p)
    ELSE IF FreeSlots(t, r) < 0 THEN 0 ELSE FreeSlots(t, r)

Started(t, p, r) == {p[n] : n \in 1 .. StartCount(t, p, r)}

Process(t, j) == IF t \in Handled THEN [j EXCEPT !.status = "running"] ELSE j

Pump(t, js, p, r, h) ==
    /\ jobs' = [i \in 1 .. Len(js) |->
                   IF i \in Started(t, p, r) THEN Process(t, js[i]) ELSE js[i]]
    /\ pendingByType' = [pendingByType EXCEPT
                            ![t] = SubSeq(p, StartCount(t, p, r) + 1, Len(p))]
    /\ runningByType' = [runningByType EXCEPT ![t] = r + StartCount(t, p, r)]
    /\ holding' = h \cup Started(t, p, r)

\* checkIfDrained, evaluated on the counters the caller has just written.
\* Wrong variant: only the waiting lists are looked at.
Drained_PendingOnly(run, pend) == \A t \in JobTypes : pend[t] = <<>>

Drained(run, pend) == \A t \in JobTypes : run[t] = 0 /\ pend[t] = <<>>

CheckIfDrained(promise, run, pend) ==
    closePromise' = IF promise = "pending" /\ Drained(run, pend)
                    THEN "resolved" ELSE promise

-----------------------------------------------------------------------------
Init ==
    /\ jobs = <<>>
    /\ pendingByType = [t \in JobTypes |-> <<>>]
    /\ runningByType = [t \in JobTypes |-> 0]
    /\ holding = {}
    /\ closed = FALSE
    /\ closePromise = "none"

\* Wrong variant: a closed queue still accepts jobs.
Enqueue_WhenClosed(t, a, k) ==
    /\ Len(jobs) < MaxJobs
    /\ t = "task.execute" => ~AlreadyQueued(a, k)
    /\ Pump(t, Append(jobs, NewJob(t, a, k)),
            Append(pendingByType[t], Len(jobs) + 1),
            runningByType[t], holding)
    /\ UNCHANGED <<closed, closePromise>>

\* enqueue on a closed queue throws and a duplicate returns early: neither
\* changes anything, so both are stuttering steps.
Enqueue(t, a, k) ==
    /\ ~closed
    /\ Len(jobs) < MaxJobs
    /\ t = "task.execute" => ~AlreadyQueued(a, k)
    /\ Pump(t, Append(jobs, NewJob(t, a, k)),
            Append(pendingByType[t], Len(jobs) + 1),
            runningByType[t], holding)
    /\ UNCHANGED <<closed, closePromise>>

Settle(i, outcome) ==
    /\ jobs[i].status = "running"
    /\ jobs' = [jobs EXCEPT ![i].status = outcome]
    /\ UNCHANGED <<pendingByType, runningByType, holding, closed, closePromise>>

\* Wrong variant: the promise of a finished job is finalised again and again.
MayRelease_Repeatedly(i) == jobs[i].status # "running"

\* The job's process() promise is open and has settled.
MayRelease(i) == i \in holding /\ jobs[i].status # "running"

\* Wrong variant: .then() instead of .finally(), a failed job keeps its slot.
ReturnSlot_OnSuccess(i) ==
    runningByType[jobs[i].type] - (IF jobs[i].status = "failed" THEN 0 ELSE 1)

ReturnSlot(i) == runningByType[jobs[i].type] - 1

Release(i) ==
    /\ MayRelease(i)
    /\ LET t == jobs[i].type IN
          Pump(t, jobs, pendingByType[t], ReturnSlot(i), holding \ {i})
    /\ CheckIfDrained(closePromise, runningByType', pendingByType')
    /\ UNCHANGED closed

Close ==
    /\ closePromise # "resolved"
    /\ closed' = TRUE
    /\ CheckIfDrained("pending", runningByType, pendingByType)
    /\ UNCHANGED <<jobs, pendingByType, runningByType, holding>>

Forget ==
    /\ closePromise = "resolved"
    /\ jobs' = <<>>
    /\ pendingByType' = [t \in JobTypes |-> <<>>]
    /\ UNCHANGED <<runningByType, holding, closed, closePromise>>

\* Only task.execute payloads are inspected; other jobs carry no taskId.
Next ==
    \/ \E a \in Agents, k \in TaskIds : Enqueue("task.execute", a, k)
    \/ \E t \in JobTypes \ {"task.execute"}, a \in Agents : Enqueue(t, a, NoTask)
    \/ \E i \in 1 .. Len(jobs), outcome \in {"completed", "failed"} :
          Settle(i, outcome)
    \/ \E i \in 1 .. Len(jobs) : Release(i)
    \/ Close
    \/ Forget

Spec == Init /\ [][Next]_vars

(* A handler's promise eventually settles (the handlers await repositories  *)
(* and adapters and have no loop without a bound on its rounds), and the    *)
(* event loop runs every microtask it has queued.                           *)
SettleAny(i) == i <= Len(jobs) /\ \E o \in {"completed", "failed"} : Settle(i, o)
ReleaseAny(i) == i <= Len(jobs) /\ Release(i)

Fairness ==
    \A i \in 1 .. MaxJobs : WF_vars(SettleAny(i)) /\ WF_vars(ReleaseAny(i))

FairSpec == Spec /\ Fairness

-----------------------------------------------------------------------------
(* Properties *)

Live(i) == jobs[i].status = "running" \/ i \in PendingIds(jobs[i].type)

Finished(i) == jobs[i].status \in {"completed", "failed"}

\* Every variable has its type: positions refer to accepted jobs.
TypeOK ==
    /\ jobs \in Seq(Job)
    /\ pendingByType \in [JobTypes -> Seq(1 .. Len(jobs))]
    /\ runningByType \in [JobTypes -> Nat]
    /\ holding \subseteq 1 .. Len(jobs)
    /\ closed \in BOOLEAN
    /\ closePromise \in {"none", "pending", "resolved"}

\* No type ever runs more jobs at once than its limit.
ConcurrencyBound ==
    \A t \in JobTypes : runningByType[t] <= maxConcurrencyByType[t]

\* Work conservation: a job waits only while every slot of its type is taken.
\* A pump that is skipped after a failure, or a slot that is not returned,
\* leaves a job waiting for ever.
NoIdleSlot ==
    \A t \in JobTypes :
        pendingByType[t] # <<>> => runningByType[t] = maxConcurrencyByType[t]

\* The slot counter is exactly the number of jobs whose promise is open:
\* no slot is leaked by a failing job, none is returned twice.
SlotsAccounted ==
    \A t \in JobTypes :
        runningByType[t] = Cardinality({i \in holding : jobs[i].type = t})

\* Two live task.execute jobs never name the same (agent, task): the test in
\* enqueue looks at the waiting list and at running jobs, which together must
\* cover every job that has not finished.
NoDuplicateWork ==
    \A i, j \in 1 .. Len(jobs) :
        (/\ i # j
         /\ jobs[i].type = "task.execute" /\ Live(i)
         /\ jobs[j].type = "task.execute" /\ Live(j))
        => ~IsSameJob(jobs[i], jobs[j].agentId, jobs[j].taskId)

\* When close() resolves, nothing that was accepted is unfinished: shutdown
\* never cuts a job short, whatever was running, waiting or half released.
CloseDrains ==
    closePromise = "resolved" =>
        /\ holding = {}
        /\ \A i \in 1 .. Len(jobs) : jobs[i].type \in Handled => Finished(i)

\* Every accepted job with a handler is eventually finished (its record may
\* have been dropped by close() by then).
EveryJobFinishes ==
    \A i \in 1 .. MaxJobs :
        (i <= Len(jobs) /\ jobs[i].type \in Handled)
            ~> (i > Len(jobs) \/ Finished(i))

\* A shutdown that has begun comes to an end.
CloseResolves == (closePromise = "pending") ~> (closePromise = "resolved")

\* The two above: whatever was begun, a job or a shutdown, comes to its end.
WorkEnds == EveryJobFinishes /\ CloseResolves

-----------------------------------------------------------------------------
(* The queue as its callers see it: module ExecutionRequests, for the work  *)
(* items (agent, task) of task.execute jobs.                                *)

WorkItems == Agents \X TaskIds

JobsFor(w) == {i \in 1 .. Len(jobs) :
                  jobs[i].type = "task.execute" /\ IsSameJob(jobs[i], w[1], w[2])}

Phase(w) ==
    IF \E i \in JobsFor(w) : jobs[i].status = "running" THEN "active"
    ELSE IF \E i \in JobsFor(w) : i \in PendingIds("task.execute") THEN "waiting"
    ELSE "idle"

Requests == INSTANCE ExecutionRequests WITH
    Items    <- WorkItems,
    Capacity <- maxConcurrencyByType["task.execute"],
    phase    <- [w \in WorkItems |-> Phase(w)],
    open     <- ~closed,
    drained  <- closePromise = "resolved"

\* The queue implements ExecutionRequests: a work item is requested, begun
\* and finished once per request, never twice at once, and shutdown waits.
ImplementsRequests == Requests!Spec
=============================================================================
