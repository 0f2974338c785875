-------------------------- MODULE HeartbeatRuntime --------------------------
(***************************************************************************)
(* The heartbeat scheduler (apps/server/src/runtime/                       *)
(* heartbeat-runtime.service.ts) with the queue handlers that report to it *)
(* (apps/server/src/bootstrap/queue-handlers.ts).                          *)
(*                                                                         *)
(* A poll reads every agent's heartbeat state, recovers expired leases and *)
(* enqueues a heartbeat job for every agent that is due.  The job marks    *)
(* the agent started and completed (or failed); so does every task.execute *)
(* job.  The heartbeat state of an agent is one settings row that all of   *)
(* them read, change and write back as a whole, with an await between: a   *)
(* step below is one repository access, and what was read is kept by its   *)
(* reader.  The rows outlive a restart; jobs and polls do not.             *)
(*                                                                         *)
(* Time is kept as ages (ticks since a timestamp) that stop growing where  *)
(* the code no longer tells them apart.  A tick stands for minutes: it     *)
(* never falls between two repository accesses of one operation.           *)
(***************************************************************************)
EXTENDS Integers, FiniteSets

CONSTANTS
    Agents,
    JobIds,      \* bound: jobs the queue holds at once
    Polls,       \* bound: polls at once
    Interval,    \* heartbeat interval, in ticks
    MinStale,    \* five minutes, in ticks
    RunLimit,    \* bound: ticks from the enqueueing of a heartbeat to its end
    MaxOthers,   \* bound: task.execute jobs and POST /engine/heartbeat/trigger
    MaxCrashes,  \* bound: restarts of the process
    Nobody

ASSUME HeartbeatAssumption ==
    /\ Interval \in Nat \ {0} /\ MinStale \in Nat /\ RunLimit \in Nat \ {0}
    /\ MaxOthers \in Nat /\ MaxCrashes \in Nat
    /\ Nobody \notin Agents

VARIABLES
    agentStatus,   \* agents: AgentProfile.status; "active" stands for idle,
                   \* running and error as well, which the scheduler takes alike
    hb,            \* agents: AgentHeartbeatState
    job,           \* the queue and the handlers at work
    poll,          \* polls in progress
    pollInFlight,  \* the guard of pollDueHeartbeats
    since,         \* agents: ticks since a heartbeat was last enqueued (history)
    early,         \* agents whose lease was recovered beside its job (history)
    others, crashes  \* what the bounds count

vars == <<agentStatus, hb, job, poll, pollInFlight, since, early, others, crashes>>

\* resolveHeartbeatIntervalMs * 2, and five minutes at least.
StaleAfter == IF 2 * Interval > MinStale THEN 2 * Interval ELSE MinStale

Never == StaleAfter + 1     \* the age of an absent timestamp

Horizon == IF Interval > RunLimit THEN Interval ELSE RunLimit

NoState == [inFlight |-> FALSE, started |-> Never, scheduled |-> Never, cooldown |-> 0]

FreeJob == [pc |-> "free", kind |-> "heartbeat", agent |-> Nobody, seen |-> NoState]

IdlePoll == [pc |-> "idle", todo |-> {}, agent |-> Nobody, seen |-> NoState,
             listed |-> [a \in Agents |-> "active"]]

Init ==
    /\ agentStatus \in [Agents -> {"active", "paused", "terminated"}]
    /\ hb = [a \in Agents |-> NoState]
    /\ job = [j \in JobIds |-> FreeJob]
    /\ poll = [p \in Polls |-> IdlePoll]
    /\ pollInFlight = FALSE
    /\ since = [a \in Agents |-> Horizon]
    /\ early = {}
    /\ others = 0 /\ crashes = 0

-----------------------------------------------------------------------------
(* pollDueHeartbeats                                                        *)

PollAt(p, pc) == poll[p].pc = pc

\* What was read is forgotten, and so is the agent when the next one is up.
PollGoto(p, pc) ==
    poll' = [poll EXCEPT ![p].pc = pc, ![p].seen = NoState,
                         ![p].agent = IF pc \in {"next", "reset"} THEN Nobody ELSE @]

Counters == <<others, crashes>>

\* The heartbeat jobs of an agent that wait or run.
Outstanding(a) == {j \in JobIds : /\ job[j].pc # "free" /\ job[j].agent = a
                                  /\ job[j].kind = "heartbeat"}

\* Wrong variant: without a start there is no lease to expire.
IsStaleInFlight_OnlyStarted(s) == s.started # Never /\ s.started >= StaleAfter

\* lastStartedAt, else lastScheduledAt; without either the lease is stale.
IsStaleInFlight(s) ==
    LET reference == IF s.started # Never THEN s.started ELSE s.scheduled IN
    reference = Never \/ reference >= StaleAfter

\* What the poll does with an agent that holds no lease: its cooldown first,
\* then the status it was listed with.
Due(p, a, s) == s.cooldown = 0 /\ poll[p].listed[a] # "paused"

\* listAgents: the poll keeps the status it saw.
NewPoll == [IdlePoll EXCEPT !.pc = "next", !.todo = Agents, !.listed = agentStatus]

\* The timer fires: listAgents, unless a poll is in flight.
StartPoll(p) ==
    /\ PollAt(p, "idle")
    /\ ~pollInFlight
    /\ pollInFlight' = TRUE
    /\ poll' = [poll EXCEPT ![p] = NewPoll]
    /\ UNCHANGED <<agentStatus, hb, job, since, early, Counters>>

\* The next agent: its state is read, and it is skipped, recovered or queued.
PollAgent(p) ==
    /\ PollAt(p, "next")
    /\ \E a \in poll[p].todo :
          LET s == hb[a]
              pc == IF poll[p].listed[a] = "terminated" THEN "next"
                    ELSE IF s.inFlight
                    THEN (IF IsStaleInFlight(s) THEN "recover" ELSE "next")
                    ELSE (IF Due(p, a, s) THEN "mark" ELSE "next")
          IN poll' = [poll EXCEPT ![p].pc = pc, ![p].todo = @ \ {a},
                         ![p].agent = IF pc = "next" THEN Nobody ELSE a,
                         ![p].seen = IF pc = "recover" THEN s ELSE NoState]
    /\ UNCHANGED <<agentStatus, hb, job, pollInFlight, since, early, Counters>>

\* The lease is expired: the agent is set to 'error' ...
Recover(p) ==
    /\ PollAt(p, "recover")
    /\ agentStatus' = [agentStatus EXCEPT ![poll[p].agent] = "active"]
    /\ poll' = [poll EXCEPT ![p].pc = "recoverWrite"]
    /\ early' = early \cup {a \in {poll[p].agent} : Outstanding(a) # {}}
    /\ UNCHANGED <<hb, job, pollInFlight, since, Counters>>

\* ... and the lease is released; the agent may be due at once.
RecoverWrite(p) ==
    LET a == poll[p].agent IN
    /\ PollAt(p, "recoverWrite")
    /\ hb' = [hb EXCEPT ![a] = [poll[p].seen EXCEPT !.inFlight = FALSE]]
    /\ PollGoto(p, IF Due(p, a, poll[p].seen) THEN "mark" ELSE "next")
    /\ UNCHANGED <<agentStatus, job, pollInFlight, since, early, Counters>>

\* markQueued: getState ...
MarkQueuedRead(p) ==
    /\ PollAt(p, "mark")
    /\ poll' = [poll EXCEPT ![p].pc = "markWrite", ![p].seen = hb[poll[p].agent]]
    /\ UNCHANGED <<agentStatus, hb, job, pollInFlight, since, early, Counters>>

\* Wrong variant: nextHeartbeatAt is left to the end of the run.
Queued_NoCooldown(s) == [s EXCEPT !.inFlight = TRUE, !.scheduled = 0]

\* Wrong variant: the lease carries no time it could expire by.
Queued_Undated(s) == [s EXCEPT !.inFlight = TRUE, !.cooldown = Interval]

\* The state markQueued writes.
Queued(s) == [s EXCEPT !.inFlight = TRUE, !.scheduled = 0, !.cooldown = Interval]

\* ... and writeState.
MarkQueuedWrite(p) ==
    /\ PollAt(p, "markWrite")
    /\ hb' = [hb EXCEPT ![poll[p].agent] = Queued(poll[p].seen)]
    /\ PollGoto(p, "enqueue")
    /\ UNCHANGED <<agentStatus, job, pollInFlight, since, early, Counters>>

\* queueService.enqueue of heartbeat.tick.
EnqueueHeartbeat(p) ==
    LET a == poll[p].agent IN
    /\ PollAt(p, "enqueue")
    /\ \E j \in JobIds :
          /\ job[j].pc = "free"
          /\ job' = [job EXCEPT ![j] = [FreeJob EXCEPT !.pc = "queued", !.agent = a]]
    /\ since' = [since EXCEPT ![a] = 0]
    /\ PollGoto(p, "next")
    /\ UNCHANGED <<agentStatus, hb, pollInFlight, early, Counters>>

\* The finally block: the guard is opened, whoever closed it.
EndPoll(p) ==
    /\ PollAt(p, "next") /\ poll[p].todo = {}
    /\ poll' = [poll EXCEPT ![p] = IdlePoll]
    /\ pollInFlight' = FALSE
    /\ UNCHANGED <<agentStatus, hb, job, since, early, Counters>>

PollStep(p) ==
    \/ PollAgent(p) \/ Recover(p) \/ RecoverWrite(p) \/ MarkQueuedRead(p)
    \/ MarkQueuedWrite(p) \/ EnqueueHeartbeat(p) \/ EndPoll(p)

-----------------------------------------------------------------------------
(* forceRun                                                                 *)

ForceRun(p) ==
    /\ PollAt(p, "idle")
    /\ others < MaxOthers
    /\ others' = others + 1
    /\ poll' = [poll EXCEPT ![p] = [NewPoll EXCEPT !.pc = "reset"]]
    /\ UNCHANGED <<agentStatus, hb, job, pollInFlight, since, early, crashes>>

ResetRead(p) ==
    /\ PollAt(p, "reset")
    /\ \E a \in poll[p].todo :
          poll' = [poll EXCEPT ![p].todo = @ \ {a},
                      ![p].pc = IF poll[p].listed[a] = "terminated" THEN "reset" ELSE "resetWrite",
                      ![p].agent = IF poll[p].listed[a] = "terminated" THEN Nobody ELSE a,
                      ![p].seen = IF poll[p].listed[a] = "terminated" THEN NoState ELSE hb[a]]
    /\ UNCHANGED <<agentStatus, hb, job, pollInFlight, since, early, Counters>>

ResetWrite(p) ==
    /\ PollAt(p, "resetWrite")
    /\ hb' = [hb EXCEPT ![poll[p].agent] =
                 [poll[p].seen EXCEPT !.inFlight = FALSE, !.cooldown = 0]]
    /\ PollGoto(p, "reset")
    /\ UNCHANGED <<agentStatus, job, pollInFlight, since, early, Counters>>

\* The guard is reset and the forced poll starts, whether or not one runs.
ForcedPoll(p) ==
    /\ PollAt(p, "reset") /\ poll[p].todo = {}
    /\ pollInFlight' = TRUE
    /\ poll' = [poll EXCEPT ![p] = NewPoll]
    /\ UNCHANGED <<agentStatus, hb, job, since, early, Counters>>

ForceStep(p) == ResetRead(p) \/ ResetWrite(p) \/ ForcedPoll(p)

-----------------------------------------------------------------------------
(* Jobs: markStarted, the run, markCompleted or markFailed                  *)

JobAt(j, pc) == job[j].pc = pc

JobGoto(j, pc) == job' = [job EXCEPT ![j].pc = pc]

\* task.execute is enqueued for an agent (task.dispatch, a status change).
EnqueueTask(a) ==
    /\ others < MaxOthers
    /\ others' = others + 1
    /\ \E j \in JobIds :
          /\ job[j].pc = "free"
          /\ job' = [job EXCEPT ![j] = [FreeJob EXCEPT !.pc = "queued", !.agent = a,
                                                       !.kind = "task"]]
    /\ UNCHANGED <<agentStatus, hb, poll, pollInFlight, since, early, crashes>>

\* markStarted: setAgentStatus('running').
StartJob(j) ==
    /\ JobAt(j, "queued")
    /\ agentStatus' = [agentStatus EXCEPT ![job[j].agent] = "active"]
    /\ JobGoto(j, "startRead")
    /\ UNCHANGED <<hb, poll, pollInFlight, since, early, Counters>>

\* getState in markStarted, markCompleted and markFailed.
ReadState(j) ==
    /\ job[j].pc \in {"startRead", "endRead"}
    /\ job' = [job EXCEPT ![j].pc = IF @ = "startRead" THEN "startWrite" ELSE "endWrite",
                          ![j].seen = hb[job[j].agent]]
    /\ UNCHANGED <<agentStatus, hb, poll, pollInFlight, since, early, Counters>>

StartWrite(j) ==
    /\ JobAt(j, "startWrite")
    /\ hb' = [hb EXCEPT ![job[j].agent] =
                 [job[j].seen EXCEPT !.inFlight = TRUE, !.started = 0]]
    /\ job' = [job EXCEPT ![j].pc = "run", ![j].seen = NoState]
    /\ UNCHANGED <<agentStatus, poll, pollInFlight, since, early, Counters>>

\* The run is over: setAgentStatus('idle'), or 'error' when it failed.
EndRun(j) ==
    /\ JobAt(j, "run")
    /\ agentStatus' = [agentStatus EXCEPT ![job[j].agent] = "active"]
    /\ JobGoto(j, "endRead")
    /\ UNCHANGED <<hb, poll, pollInFlight, since, early, Counters>>

EndWrite(j) ==
    /\ JobAt(j, "endWrite")
    /\ hb' = [hb EXCEPT ![job[j].agent] = [job[j].seen EXCEPT !.inFlight = FALSE]]
    /\ job' = [job EXCEPT ![j] = FreeJob]
    /\ UNCHANGED <<agentStatus, poll, pollInFlight, since, early, Counters>>

JobStep(j) == StartJob(j) \/ ReadState(j) \/ StartWrite(j) \/ EndRun(j) \/ EndWrite(j)

-----------------------------------------------------------------------------
(* The founder, time and restarts                                           *)

Pause(a) ==
    /\ agentStatus' = [agentStatus EXCEPT ![a] = "paused"]
    /\ UNCHANGED <<hb, job, poll, pollInFlight, since, early, Counters>>

Resume(a) ==
    /\ agentStatus' = [agentStatus EXCEPT ![a] = "active"]
    /\ UNCHANGED <<hb, job, poll, pollInFlight, since, early, Counters>>

Grow(age, limit) == IF age < limit THEN age + 1 ELSE age

\* A timestamp that is absent stays absent.
Older(s) == [s EXCEPT !.started = Grow(@, StaleAfter), !.scheduled = Grow(@, StaleAfter),
                      !.cooldown = IF @ > 0 THEN @ - 1 ELSE 0]

Tick ==
    /\ \A p \in Polls : PollAt(p, "idle")
    /\ \A j \in JobIds : job[j].pc \in {"free", "queued", "run"}
    /\ \A a \in Agents : Outstanding(a) # {} => since[a] < RunLimit
    /\ hb' = [a \in Agents |-> Older(hb[a])]
    /\ since' = [a \in Agents |-> Grow(since[a], Horizon)]
    /\ UNCHANGED <<agentStatus, job, poll, pollInFlight, early, Counters>>

Crash ==
    /\ crashes < MaxCrashes
    /\ crashes' = crashes + 1
    /\ job' = [j \in JobIds |-> FreeJob]
    /\ poll' = [p \in Polls |-> IdlePoll]
    /\ pollInFlight' = FALSE
    /\ UNCHANGED <<agentStatus, hb, since, early, others>>

Next ==
    \/ \E p \in Polls : StartPoll(p) \/ PollStep(p) \/ ForceRun(p) \/ ForceStep(p)
    \/ \E j \in JobIds : JobStep(j)
    \/ \E a \in Agents : EnqueueTask(a) \/ Pause(a) \/ Resume(a)
    \/ Tick
    \/ Crash

Spec == Init /\ [][Next]_vars

-----------------------------------------------------------------------------
(* Fairness: the timer fires, what a poll, a forced run or a job is at goes  *)
(* on (repository accesses are answered, the queue starts its jobs and a     *)
(* run ends), and time passes.  Founder, dispatch and crashes owe nothing.   *)

Fairness ==
    /\ \A p \in Polls : WF_vars(StartPoll(p)) /\ WF_vars(PollStep(p)) /\ WF_vars(ForceStep(p))
    /\ \A j \in JobIds : WF_vars(JobStep(j))
    /\ SF_vars(Tick)

FairSpec == Spec /\ Fairness

-----------------------------------------------------------------------------
(* Properties the code has                                                  *)

StateType == [inFlight : BOOLEAN, started : 0..Never, scheduled : 0..Never,
              cooldown : 0..Interval]

AgentStatus == {"active", "paused", "terminated"}

\* Types; every job is for an agent; and a lease carries the time it expires
\* by, whatever was read before and written after (a lease without one would
\* be taken for expired at once).
TypeOK ==
    /\ agentStatus \in [Agents -> AgentStatus]
    /\ hb \in [Agents -> StateType]
    /\ \A a \in Agents : hb[a].inFlight => hb[a].started # Never \/ hb[a].scheduled # Never
    /\ job \in [JobIds -> [pc : {"free", "queued", "startRead", "startWrite", "run",
                                 "endRead", "endWrite"},
                           kind : {"heartbeat", "task"},
                           agent : Agents \cup {Nobody}, seen : StateType]]
    /\ \A j \in JobIds : job[j].pc = "free" <=> job[j].agent = Nobody
    /\ poll \in [Polls -> [pc : {"idle", "next", "recover", "recoverWrite", "mark", "markWrite",
                                 "enqueue", "reset", "resetWrite"},
                           todo : SUBSET Agents, agent : Agents \cup {Nobody},
                           seen : StateType,
                           listed : [Agents -> AgentStatus]]]
    /\ pollInFlight \in BOOLEAN
    /\ since \in [Agents -> 0..Horizon] /\ early \subseteq Agents
    /\ others \in 0..MaxOthers /\ crashes \in 0..MaxCrashes

\* A heartbeat is enqueued for an agent (the only step that restarts since).
Enqueues(a) == \E p \in Polls : poll[p].agent = a /\ EnqueueHeartbeat(p)

\* Two heartbeats of an agent are an interval apart (nextHeartbeatAt in
\* markQueued), also across a restart, a failed run and a pause
\* (06-AGENT_OPERATING_MODEL.md: "enforces in-flight/cooldown protections").
\* Not so once a run was forced, which clears the cooldown on purpose, or a
\* task.execute job ran, which writes back the whole state it read before
\* markQueued set nextHeartbeatAt; nor when a lease was recovered while the
\* job that held it still waited or ran, and writes the state back later.
CooldownRespected ==
    [][\A a \in Agents :
           Enqueues(a) => since[a] >= Interval \/ others > 0 \/ a \in early]_vars

Eligible(a) == agentStatus[a] \notin {"paused", "terminated"}

\* An agent that is neither paused nor terminated gets its next heartbeat,
\* after an error too.
HeartbeatRecurs ==
    \A a \in Agents : []<>(~Eligible(a) \/ Outstanding(a) # {})
=============================================================================
