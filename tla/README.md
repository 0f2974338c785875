# FamilyCo verification

TLA+ modules, TLC runs and TLAPS proofs for the server of FamilyCo, an operator
for a company of AI agents. This directory stays beside the code: every
definition in it is translated from `src/`, and `PROJECT.json` maps each one to
its lines.

## 1. The system

One Node process (`apps/server`) holds everything: HTTP and WebSocket routes,
timers, an in-memory job queue and the coroutines that run the agents. State
that outlives the process is rows of a database behind repositories
(`packages/core`, `packages/db`). Coroutines meet at `await`s only, so the
concurrency is that of whole stretches of code between two repository accesses,
and what can go wrong is nearly always one pattern: **a row is read, awaited
over, and written back**.

| Component | State | Operations | Interacts with | Hard behaviour | Correct when |
|---|---|---|---|---|---|
| Job queue (`queue/in-memory-queue.service.ts`) | jobs, waiting lists, slot counters, closed flag and promise | `enqueue`, `pump`, `process`, release, `close` | handlers of `queue-handlers.ts`; enqueued by routes, tools, heartbeat | slots returned in a `finally`, deduplication, shutdown | limits kept, no idle slot, no lost or doubled work, shutdown drains |
| Task model (`core/task`, `modules/task`) | status, dependencies, readiness rules | create, edit, delete, status, bulk change; readiness | everything that runs tasks; approvals | test of the transition, await, write; the same change by route, tool or approval | moves follow the table, dependencies stay as asked, ready work is called |
| Task execution (`runtime/task-execution.coordinator.ts`) | session checkpoints | select, run, save, fall back to done, escalate | task model, queue, inbox, approvals | whole-row writes at the end of a long run | a task neither stuck nor run over open dependencies |
| Approvals (`modules/approval`, `core/approval`) | approval requests | request, decide, execute what was approved | task and session of the request | decision beside the asking run; failure half way | decided once, decision has its effect |
| Inbox (`modules/inbox`) | messages | send, answer, archive | escalations | an answer that reaches nobody | waiting tasks wake |
| Heartbeat (`runtime/heartbeat-runtime.service.ts`) | one settings row per agent, a poll guard | poll, recover, mark queued/started/completed/failed, force | queue, agents | leases and cooldown in a shared row; restarts | an interval apart, never stopped for good |
| Agent runs (`agent-runtime`, `core/engine`, `modules/engine`) | run records, daily quota | ask, run, store each state, fail | queue, approvals, agents | unchecked transitions, two runs of an agent, failing failure handler, restart | the record agrees with the run, none forgotten, quota kept |
| Agents (`core/agent`) | level, status, parent; what they hold | create, status, parent, delete with five handovers | all | several writes, no transaction, foreign keys | an executive, paths that end, nothing orphaned |
| Cron (`runtime/cron-runtime.service.ts`, `core/cron`) | cron jobs, run history, a poll guard | poll, run, record, link chat, reschedule, stop | chat, agents | jobs edited or deleted while running; long runs; rejections | once per due time, a chat that stays, one record, stops |
| Migrations (`db/migration-runner.ts`) | database file, lock file, backup | lock, back up, apply, restore, release | startup of several processes | killed at every step, stale lock, failing restore | one migrates, never half an upgrade, the server comes up |
| Chat (`chat-stream-registry.ts`, `agent-chat.service.ts`) | active streams, timers of tool events | register, evict, reattach, cancel, tool begin/end, finish | sockets, agent loop | cancel during a tool, delayed events, reconnects | a cancelled stream stops, a live one stays reachable, the end comes last |
| Plugins, tool policy (`modules/plugins`, `modules/tools`) | rows, two settings, in-memory registry, executor and its copies | discover, refresh, enable, disable, sync policy, fork | agent loop | clear and refill over awaits, policies read and applied later | what is disabled cannot be called, what is enabled can |
| Notifications, budget | cost records, a marker of the month | record, sum, alert once a month | model calls, settings, inbox | read, message, write; two calendars | one alert for each month over the threshold |
| Settings, memory, audit, events, projects, knowledge, skills, providers, auth, adapters, prompts, repositories, UI, desktop shell | storage, text, presentation | create/read/update/delete | | none of their own | |

`PROJECT.json` lists each component with its status and each hazard at its line
with the properties that cover it, or why none does yet.

## 2. The modules

```
ExecutionRequests  <--implements--  InMemoryQueue  <--EXTENDS--  InMemoryQueueProofs
        ^ (what TaskExecution assumes of the queue)      MCInMemoryQueue
TaskReadiness  <--EXTENDS--  TaskExecution  <--EXTENDS--  TaskExecutionHistory, TaskParking
                             MCTaskExecution              MCTaskExecutionHistory, MCTaskParking
                             TaskExecutionHistory, TaskParking  <--EXTENDS--  TaskExecutionProofs
TaskReadiness  <--EXTENDS--  TaskBoard  <--EXTENDS--  MCTaskBoard, TaskExecutionProofs
CompanyAgents  <--EXTENDS--  MCCompanyAgents, AgentRunsProofs
CronRuntime    <--EXTENDS--  HeartbeatRuntimeProofs
HeartbeatRuntime, AgentRuns, ChatStreams, MigrationRunner, PluginTools, BudgetAlerts
               <--EXTENDS--  the module of the same name with "Proofs" after it
```

Three proof modules are about two specifications each: those of the tasks and of the
board, of agent runs and of the agents, of the two schedulers. The names both would use
have a prefix in the second (`BoardSpec`, `CompanyNext`, `cronVars`, `cronPoll`).

**`InMemoryQueue`**: one action per operation. `Enqueue` is the whole of
`enqueue` with the `pump` it ends in; `Settle` is the handler returning or
throwing and the status assignment after it; `Release` is the `finally` of the
promise chain: it returns the slot, pumps and checks for the end of a shutdown;
`Close` and `Forget` are `close`. `holding` is the set of jobs whose promise
chain has yet to run its `finally` (a job of a type without handler goes straight
to it). `jobs` grows for ever in the code; `MaxJobs` bounds it here.

**`ExecutionRequests`**: what the users of the queue rely on, without job
records: a work item (agent, task) is idle, waiting or active, requests for
items at work are absorbed, at most `Capacity` are active, shutdown completes
only when all is idle.

**`TaskReadiness`**: statuses, `ALLOWED_TRANSITIONS`, `evaluateTaskReadiness`.

**`TaskExecution`**: all that happens to the tasks of one agent. A job
(`Jobs`: the batch, or one dispatched task) is a coroutine with a program counter;
each action runs from one repository access to the next. `Dispatch` is `task.dispatch`,
which agents call in heartbeats and chats; `HumanWake` and `CallAgent` are the routes that
enqueue the batch, after a change of one of these tasks or of another; `StartJob` takes a job out of
`queued`. Then `List`, `Pick` (select), `Check` (dispatched), `LoadSession`,
`CreateSession`, the loop with the tool calls that touch this state
(`ToolUpdateStatus`/`ToolWrite`, `ToolUpdateTask`/`ToolEdit`,
`ToolRequestApproval`, `ToolRequestRefused`, `ToolSendInbox`), `SaveSession`,
`Audit`, `Settle`, `Fallback`, `FallbackWrite` or `Escalate`, `EndRun`; and
`FinishJob`, until which the handler writes its records and the queue takes the job for
active. Requests run beside it: `HumanRead`/`HumanWrite` (status route),
`HumanReadEdit`/`HumanEdit` (`PATCH /tasks/:id`), `FindApproval` to
`DecisionCheckpoint` (decision route), `Answer` (inbox).

What a task needs (`needs`: dependencies and readiness rules) is a row like its
status; an edit reads it and writes it back an await later, asking for any
dependencies, for a set of rules of the instance, or keeping what it has read. A granted edit changes nothing
(see `TaskBoard`). Tasks are not created or deleted here. `Callable`
says which tools agents call and which routes people call in an instance, `Edited` and
`Targets` for what, `Faults` which
failures it has: no adapter configured, a write of the coordinator
failing, a refused call, a failing approved action, a restart. What the model
(the AI) answers is arbitrary: any tool call in any round. The agent moves only its
own task, and edits any; text, priorities and the content of summaries are left out,
and any candidate may be the first one.

**`TaskExecutionHistory`** and **`TaskParking`** add recording variables, for
properties that speak of the past: `undone` and `raced` (which tasks left 'done',
which tasks and approvals two writers tested together), `overtaken` (which jobs hold a task that was
given an open dependency after they had selected it), `excused` and `unasked`
(which tasks met an event that may leave them waiting). They are two modules
because the variables multiply the states.

**`HeartbeatRuntime`**: the polls and the marks. The state row of an agent is
read in one step and written in a later one, by polls (`PollAgent`, `Recover`,
`RecoverWrite`, `MarkQueuedRead`, `MarkQueuedWrite`), forced runs (`ResetRead`,
`ResetWrite`) and by jobs of both kinds (`StartJob`, `ReadState`, `StartWrite`,
`EndRun`, `EndWrite`). Timestamps are ages in ticks, capped where the code stops
telling them apart; a tick is minutes and falls between operations, not inside
one. Agents share only the guard of the poll and the order in which it visits them,
so the instance has one agent. `since` and `early` record, for
`CooldownRespected`. The statuses idle, active, running and error, which the
scheduler takes alike, are one. Left out: `lastStatus`, run
records, prompts, the archived status (polled like an active one), the setting
that disables polling, a failing enqueue (the queue refuses only while the
process shuts down), and a poll that fails: its error opens the guard in a `finally`
(heartbeat-runtime.service.ts:208) and, as nobody awaits the poll, may end the process; the
agents behind it wait for the next poll.

**`TaskBoard`**: who changes the board. `Ask` is a call of a route or tool, which
may leave an approval behind; `Grant` is `executeApprovedAction`; `Create`,
`ReadTask`, `WriteTask` are the repository accesses of `TaskService` (a bulk change has
one coroutine per task, and each goes on when another is refused);
`WakeRead`/`WakeList` are `enqueueTaskExecutionIfReady`, and `CallFails` is a call that is
not made: the audit record before it fails, or the reading of the readiness, which is
swallowed (task.controller.ts:462). A run begins on any
board that earlier requests can have left. The readiness rules travel with the
dependencies and are left out; so are columns nothing tests (a `PATCH` without an
assignee gives the task to the executive, whoever had it: task.controller.ts:162).

**`AgentRuns`**: `POST /engine/agent-runs` through quota, approval, record and queue
(`Ask`, `Decide`, `CreateRun`, `Enqueue`) and the job of the lane (`Plan`,
`MarkStarted`, `Execute`, `RunnerEnds`, `MarkCompleted`, `Close`, `Report`), with a
failure at every await and the handling of it (`JobFails`, `MarkFailed`, `Fail`,
`FailureFails`), shutdown, crash, restart and midnight. The queue is used by the
contract that `InMemoryQueue` is shown to keep. Shutdown waits for requests that
are being answered, as Fastify closes its server first.

**`CompanyAgents`**: an action is a database call of `createAgent` or `deleteAgent`
with its handovers (`MoveChildren`, `MoveProjects`, `MoveTasks`,
`MoveApprovals`); meanwhile `SetStatus`, `SetParent`, `Give` (a project, task or
approval gets a new holder) and `Tie` (a run or chat session, whose foreign key
refuses the deletion for good). The foreign keys are those of the schema. Agents
are numbered in the order of their creation, since the default executive is the
oldest active one (`First`). That a call fails or the process ends between two handovers is not
modelled: what was handed over by then would stay so, with the agent still there. `why` records what changes the executives beside a
deletion: among others `revived`, an executive made active again while it is being deleted. It may
be the oldest, so that the one which took over is no longer the default and may be
deleted too, and neither is left (agent.service.ts:121-134, 175-196).

**`CronRuntime`**: a poll lists due jobs and runs them in turn; each run is followed
by record, session link, `MarkRead` and `MarkWrite`, each of which may throw into
the catch block, and that out of the poll. `Request` is an edit that read the
row, `WriteEdit` writes it whole. Times are counted per job by the firings of its
schedule; the clock (`Elapse`) stands while a row is being written, so "a time
passes during the bookkeeping" is not told apart from "just after".
`cron.upsert` of an agent acts as an edit that reschedules. Chat sessions are numbered per
job: a run makes one unless the row named one (`Fresh`), a `PATCH` may give the job another
or none (kind "chat"), and `DeleteChat` is the deletion of a session, after which
whatever named it names none. No two jobs share a session. Edits of a job that
overlap each other (`Racing`) or the bookkeeping of a run (`Overwrites`) may put
back a time that was run already, or a link; `why` records it.

**`MigrationRunner`**: an action is a call of the file system or an SQL transaction of
one of the processes that share the file; `Kill` may come between any two. The
lock has no name in it: who owns it is history here, and `ReleaseLock` removes
whichever lock is there. `ReleaseFails` is a release that leaves the file, without a word
or with the start-up failing, and a restore that fails may leave the database torn or
removed.

**`ChatStreams`**: the streams of one agent. A message is a request with a stage; its
steps are the ends of its awaits (`PrepareEnds`, `CommandEnds`, `ModelAnswers`,
`ToolEnds`, `Stored`), beside the socket callbacks (`Message`, `Malformed`, `Attach`,
`Cancel`, `Disconnect`) and the timers that hold tool events back
(`TimerFires`). `proxy` is the socket a stream writes to, `told` what each client
has been told. A connection that closes while its agent is looked up is "lost": `AttachLost`
gives it the running stream all the same, and `strayed` records the streams taken so
until a client is told of them again.

**`PluginTools`**: `Discover`, `Toggle` and `Edit` begin requests; `Scan`, `StoreFound`,
`List`, `Register`, `ReadPolicy`, `Apply`, `ReadEdited`, `WriteEdited`, `StoreToggle` are
their accesses in order. The start-up is the first request. `Fork` copies the
executor for a task run: tools and policy stay those of its begin, while the
check that the plugin is enabled reads the live registry (`Callable`). The loader records the run
between that check and the plugin's code (plugin-loader.service.ts:314-343), so a call that passed the check
may begin that code after the plugin was disabled: `DisabledIsRefused` is about the check. What the
code does on the way from one await to the next (clear the registry, list again)
is one action with the access before it.

**`BudgetAlerts`**: the hook after a model call (`Record`, `Audit`, `Sum`) and the
alert (`Test`, `Message`, `Mark`). The sum is over the month of the server's zone,
the marker names the month in UTC; the clock and the zone are variables. The
hook adds up the newest 10,000 records of the month; with more, the sum is too
low (token-usage.hook.ts:88), which is left out.

Histories: most modules carry variables that no action of the code reads (marked
so where they are declared). They record the events a property excepts (`why`,
`raced`, `missed`...) or what someone was promised (`wish`, `told`). Each
exception is needed: without it TLC finds a behaviour that violates the property.

## 3. Runs

Each property is stated in words where it is defined. Some are conjunctions of named
parts, each stated by itself in the module (the table gives them in
parentheses): the parts belong together, as those of an inductive invariant do.
`PROJECT.json` names for each property a mutant of the code (a definition beside
the original, marked "wrong variant") under which TLC finds it violated.

| Run | Bounds | Shows |
|---|---|---|
| `queue` | 1 agent, 2 tasks and the batch, 4 jobs; handlers for `agent.run` and `task.execute`, one slot each (option 0 is raised to 1), the default 8 and no handler for `tool.execute` | `TypeOK`, `ConcurrencyBound`, `NoIdleSlot`, `SlotsAccounted`, `NoDuplicateWork`, `CloseDrains`; `WorkEnds` (every job finishes, close resolves); `ImplementsRequests`: every behaviour of the queue is one of `ExecutionRequests`, fairness included |
| `task_parked` | 1 task, batch and dispatched job, 2 rounds, 1 approval, all faults | `TypeOK`; `WaitsAreAnswerable`: a session waits for an approval nobody will decide only after a refused call, a decision recorded beside a run, or a decision dropped half way (`ParkedOnlyByRace`), and for input without a question in the inbox only after a rejection or a run stopped before its escalation (`InputWaitHasQuestion`) |
| `task_live` | 2 tasks in a chain, batch, 1 person, 1 decider of 1 approval, 1 round; the dependencies of the second edited by `task.update` and `PATCH`, statuses under review, blocked, done or cancelled asked for; failing actions | `DependenciesDone`: nothing runs over open dependencies but one added since the task was selected (`overtaken`) or one reopened (`undone`); `MovesLegallyAlone`: the table is kept unless two writers tested before either wrote; `BatchReachesTasks`: a batch that waits in the queue runs what it could run. Without any of the three exceptions TLC finds a violation |
| `heartbeat` | 1 agent, interval 1, stale after 2, runs of up to 2 ticks, 1 restart, 1 task run or forced run, any pauses | `TypeOK` with the age of leases; `CooldownRespected` but for forced runs, task runs and leases recovered early; `HeartbeatRecurs` |
| `board` | 2 tasks in any state and a third to create, 2 requests at once, a failing audit record | `BoardSound`: types, no self-dependency, and dependencies as last asked for (`DependenciesKept`) but for overlapping edits and what went through an approval; `ReadyIsCalled`: the agent of ready work was called, but for bulk changes, tools, grants, calls that fail and work made ready by the end of other work; `OpenWorkProgresses`: open tasks none of which is ready all wait for something missing, cancelled, under review, blocked, or for themselves |
| `agent_runs` | 3 requests of 1 caller for 1 agent, quota 2, 2 slots, 2 failing awaits, 1 midnight, 1 crash | `QuotaHolds`; `RecordsSound` (types, `NothingForgotten`, `RunningIsBusy`); `MovesAreLegal` but for the failure of a run; `RunsEnd` |
| `company` | 3 agents, 2 creations or deletions at once, 2 other changes, 2 deletions | `HierarchySound` (types with the foreign keys, `ExecutiveRemains`, `OneExecutive`, `PathsEnd`), `DeletionCompletes`, `NoTaskOrphaned` |
| `cron` | 2 jobs, one edited and due twice, 2 polls, 1 editor, 2 edits or deletions, 4 chat sessions at a time (more than anything names), 1 failing call, stop, death and restart | `RuntimeSound` (types, `StaysUp`, `QuietWhenStopped`), `RunsOnce` (`OncePerTime`, `OneChat`, `OneRecordPerRun`), `QuietWhenUnwanted`, `PollsEnd` (`DueRuns`, `StopReturns`) |
| `migrations` | 2 processes, 2 migrations, stale after 1 tick, 1 kill, 1 failing call of any kind, the release among them | `OneMigrator`: with what makes a lock stale (`Openings`), `DataSound` (types, `UpgradeHolds`, `NeverHalfway`), `ServerComesUp` |
| `chat` | 2 messages, 2 connections, 2 rounds, 1 tool a turn, 1 failing call | `RegistrySound` (types, `LatestIsRegistered`, `LastToAttachHears`), `CancelHolds` (`CancelStops`, `CancelledSaysNothing`), `SpinnersFirst`, `StreamsEnd` |
| `plugins` | a default and another plugin, one with a required field, 3 requests, 2 at once, 1 failing call | `DisabledIsRefused`, `ToolsSound` (types, `PolicyHolds`, `EnabledWorks`, `ListedIsEnabled`) |
| `budget` | 4 model calls, 3 at once, alert at 2, 3 months, zones one tick ahead, behind and none, 1 failing access, 1 restart | `AlertsSound` (types, `AlertedOnce`, `MonthIsAlerted`) |

Why the bounds are enough: a race in this code is between two coroutines over
one row, so two jobs (or a job and a request) on one task, and two jobs of one
agent, show every pair of actors; four queue jobs give a running, two waiting and
an absorbed one. Two rounds let an agent use a tool and change a status, or
change the status twice (`task_live` has one round: its races are between the
fallback, a person and a decider, and between a selection and an edit). `Callable`, `Edited` and
`Targets` name what agents and people call and ask for in an instance; edits of
readiness rules, and `task.update-status` beside a person, are in the proofs only. So are
two edits of a cron job at once (`Racing`), and edits that reschedule (`Asked`): one that
enables does the same, but for a schedule that never fires, which `Create` brings in. In `heartbeat` a run may be as long as the
interval and as the staleness limit, so a lease may expire beside its job; one
other job or forced run is one reader that writes back an old state. With one
polling coroutine a forced poll runs before or after another one, never beside it.
Three requests are what the quota needs (one more than it allows) and what two
slots need for a waiting job; three agents make an executive, a superior and a
child, with a deletion on each level; two migrations have a first, after which
the database is half upgraded, and a last; two messages and two connections are
a stream and the one that evicts it, a client and the one that takes over; two
plugins show what a refresh does to a plugin it was not about. One fault at a
time is enough because the code handles each where it occurs; a second one
meanwhile meets a handler only in `AgentRuns`, where it is an action of its own.
Deadlock is checked in `task_parked`, `task_live`, `heartbeat` and `migrations`. In the others the
system may stop: the process shuts down, or the bounded requests are answered.

### Statements the code does not live up to

Statements of docs and tests that the model shows not to hold; they are the exceptions of
properties, or an action says so.

- "Heartbeat skips paused/terminated agents" (06-AGENT_OPERATING_MODEL.md:38): `EndRun` of
  `HeartbeatRuntime` sets the agent to idle whatever it was, so an agent paused
  while it runs is polled again (heartbeat-runtime.service.ts:256).
- "task API persists dependsOnTaskIds and readinessRules" (tests/task-readiness.test.ts:7):
  a granted `task.create` creates the task without them, so it is ready at once
  whatever it was to wait for, and a granted `task.update` has no case and changes
  nothing (`Created` and `Nop` of `TaskBoard`; approval.controller.ts:400).
- A run that leaves its task in progress asks for done, which the table refuses,
  and the refusal is swallowed (task-execution.coordinator.ts:384-389).
- "approve: continue run from checkpoint" (07-APPROVAL_POLICY.md:41): a decision taken before the
  asking run has saved its session is overwritten by it, and the task waits
  (`ParkedOnlyByRace`).
- A recovered lease need not have expired: its age is that of the run before
  (heartbeat-runtime.service.ts:145, 472). The job it belonged to ends later and writes
  the row it read back, which may lose the cooldown (`early`).
- "Any run in `waiting_approval` should map to at least one pending ApprovalRequest"
  (04-DOMAIN_MODEL.md:232): a blocked run has none, and nothing resumes it.
- One executive (04-DOMAIN_MODEL.md:228): the status routes do not test it
  (`OneExecutive`, `ExecutiveRemains`).
- The hard cap of the budget (07-APPROVAL_POLICY.md:48) is reported by
  budget.controller.ts:159 and enforced nowhere.
- The transition matrix of `task.update-status`, pending-only decisions, and that
  task runs do not use `inFlight`: kept but for writers that overlap
  (`MovesLegallyAlone`, `CooldownRespected`; a second decision that found the
  approval pending replaces the first verdict, approval.service.ts:48).

### What the runs also show

Behaviours that the properties except, or that the actions spell out, and that a
maintainer will want to know:

- *Tasks.* A run goes on over a dependency added to its task meanwhile; the next selection
  sees it. A request to run the batch is dropped while the batch is active, also when it has
  looked at the tasks for the last time and only writes its records
  (in-memory-queue.service.ts:84): that task waits for the next request. Heartbeats enqueue no
  batch; they may dispatch single tasks. An answer in the inbox changes no session: a task in
  `waiting_for_input` stays there until a job is dispatched for it or an approval of
  it is decided. The end of a dependency calls nobody. Cycles over several tasks
  are accepted by edits and never reported. Refused or granted, a bulk change may
  have changed some of its tasks.
- *Heartbeat.* Unlimited task runs can hold the lease at every poll (:149).
- *Agent runs.* A request refused for an approval has used quota and is not run
  when the approval is granted. The quota is lost with the process. An audit
  record that fails after the completion turns the run into a failed one. A crash
  leaves records queued or executing for ever.
- *Company.* An agent with a run or a chat session is never deleted, after
  everything it held was handed over. An executive that takes over children it
  is below becomes its own ancestor, and `getPath` does not end. Granted
  `agent.resume`, `agent.archive` and `agent.delete` do nothing. The executive of the
  settings is used whatever its status.
- *Cron.* A failed call in the catch block, or a job deleted in its run, rejects the
  poll that nobody awaits, which ends a Node process by default; the jobs behind
  it wait for a restart. A schedule that fires on no day is due at every poll. A failing first run
  leaves the chat session it made, and the next run makes another. A session chosen by a `PATCH`
  during a run is overwritten with that of the run (cron-runtime.service.ts:93).
- *Migrations.* A process that finds a stale lock removes whatever lock is there
  when it gets to it, and so does every release: two may migrate at once. A lock whose removal
  failed (migration-runner.ts:325) grows stale like that of a killed process. A new
  database has no backup, so a failing migration leaves the ones before it.
- *Chat.* A second message, a malformed one included, evicts the running stream,
  which goes on, cannot be cancelled and forgets a cancel already acknowledged.
  A connection that closes while its agent is looked up still takes the running stream
  (agent-chat.routes.ts:178-185), and the client that had it hears no end of it.
  A command's tool, and the first tool of an answer that was being made, run after
  an acknowledged cancel; a late one still gets `chat.completed`. `chat.error` does not wait for spinners.
- *Plugins.* Between the registration of tools and the end of the policy's
  synchronisation a tool disabled by policy can be called; an edit of the policy
  in a moment when a refresh has emptied the tools is answered with 404; a
  failed listing leaves no plugin tool until the next refresh; of two edits of
  the settings row at once, one is lost.
- *Budget.* Overlapping hooks alert twice. Between midnight of the zone and
  midnight in UTC an alert about one month is entered under the other, which
  then gets none.

### Fairness

Queue: a running handler settles and its `finally` runs (both are promises of the
same process). Tasks: a coroutine that can go on does (an `await` on the database
is answered or rejected), and a job that waits in the queue is started (`WorkEnds` of the
queue gives the slot). Nobody is obliged to enqueue one: no route, tool or timer of the code has to
be used, so `BatchReachesTasks` begins with a batch in the queue.
Nor is anybody obliged to decide, to answer or to change a status. Heartbeat: the
timer fires when the guard is open, polls and jobs go on, and time passes
(strong fairness: a tick waits for operations that are under way). No fairness is
assumed of pauses, forced runs, dispatches or restarts. `HeartbeatRecurs` holds
for finitely many task runs; unlimited ones may hold the lease at every poll.

Agent runs, chat, cron: every await ends and every timer fires, and a poll comes
at the next tick of the timer. A run in the lane that never returned would break
`RunsEnd`; the code gives it no limit. Migrations: a process that began goes on,
time passes, and whoever has no working server starts one again (`ServerComesUp` speaks of users who retry); no kill or fault is fair. Company,
plugins, budget and board state no liveness: a request that never returned
would only be missing.

## 4. Proofs

TLC checks instances; the eight modules `...Proofs` prove theorems for all values of
the constants: any agents, tasks, plugins, processes, any number of jobs,
requests, faults and crashes. Every safety property and action property of the
runs is one of these theorems. Each specification has one inductive invariant, a
conjunction of named parts (`IInv`; `HInv` and `PInv` for the histories of
`TaskExecution`; `BoardInv`, `CompanyInv` and `CronInv` for the second
specification of a proof module), a lemma for each
action or kind of action, and a temporal step at the end. Properties are consequences of the
invariant, never parts weakened to be inductive: the theorems state the very
definitions the runs check.

| Module | Theorem | States |
|---|---|---|
| `InMemoryQueueProofs` | `QueueInvariant` | `IInv`, of ten parts |
| | `TypeCorrect`, `BoundedConcurrency`, `WorkConserving`, `SlotAccounting`, `ShutdownDrains`, `NoWorkTwice` | `TypeOK`, `ConcurrencyBound`, `NoIdleSlot`, `SlotsAccounted`, `CloseDrains`, `NoDuplicateWork` |
| | `QueueImplementsRequests` | the refinement of `ExecutionRequests`, fairness apart |
| `TaskExecutionProofs` | `TaskInvariant`, `TypesHold` | `IInv`, `TypeOK` of `TaskExecution` |
| | `HistoryInvariant`, `DependenciesComeFirst`, `StatusesMoveLegally` | `HInv`, `DependenciesDone`, `MovesLegallyAlone` (an action property) |
| | `ParkingInvariant`, `WaitsHaveSomebody` | `PInv`, `WaitsAreAnswerable` |
| | `BoardIsSound`, `ReadyTasksAreCalled`, `OpenWorkCanProgress` | `BoardSound`, `ReadyIsCalled`, `OpenWorkProgresses` of `TaskBoard` |
| `AgentRunsProofs` | `RunsInvariant`, `QuotaIsKept`, `RecordsAreSound`, `RecordsMoveLegally` | `IInv`, `QuotaHolds`, `RecordsSound`, `MovesAreLegal` (an action property) |
| | `CompanyInvariant`, `HierarchyIsSound` | `CompanyInv`, `HierarchySound` of `CompanyAgents` |
| | `DeletionsComplete`, `NoTaskIsOrphaned` | its action properties `DeletionCompletes`, `NoTaskOrphaned` |
| `HeartbeatRuntimeProofs` | `HeartbeatInvariant`, `LeasesAreDated`, `CooldownIsKept` | `IInv`, `TypeOK`, `CooldownRespected` (an action property) |
| | `CronInvariant`, `RuntimeIsSound` | `CronInv`, `RuntimeSound` of `CronRuntime` |
| | `JobsRunOnce`, `UnwantedJobsAreQuiet` | its action properties `RunsOnce`, `QuietWhenUnwanted` |
| `MigrationRunnerProofs` | `MigrationInvariant`, `MigratorsExclude`, `DataStaysSound` | `IInv`, `OneMigrator`, `DataSound` |
| `ChatStreamsProofs` | `StreamsInvariant`, `RegistryHolds`, `CancelsHold`, `SpinnersComeFirst` | `IInv`, `RegistrySound`, `CancelHolds`, `SpinnersFirst` |
| `PluginToolsProofs` | `PluginInvariant`, `DisabledCannotRun`, `ToolsFollowSettings` | `IInv`, `DisabledIsRefused`, `ToolsSound` |
| `BudgetAlertsProofs` | `BudgetInvariant`, `AlertsAreSound` | `IInv`, `AlertsSound` |

**Assumptions.** Those on the constants, named in the module that declares them
(`QueueAssumption`, `ExecutionAssumption`, ...): counters and bounds are natural
numbers, a quota, an interval or a list of migrations is not empty, names used
as "nobody" are not names of somebody. Two say something of the system: the
start-up is a request of `PluginTools` (there is at least one), and the clock of
`BudgetAlerts` starts within the time it may reach. `QueueImplementsRequests`
assumes that task executions have a handler, which `setHandlers` installs
before anything is enqueued: without one the queue lets a task execution go
without ever beginning it, which `ExecutionRequests` does not do. The theorems
about the board assume that finitely many tasks were there at the beginning:
open work progresses
only because a chain of dependencies has an end. No other set of agents, jobs
or requests is assumed to be finite; `AgentRuns` counts the jobs in
its slots, and that these are finitely many is a part of its invariant.

**Queue.** That a release leaves no idle slot needs the
counters to be the number of holders; that a start keeps this equation needs
the started jobs to be none of the holders, hence that a waiting job is queued
and holds nothing (`PendingOK`), that the list of a type has it once
(`PendingSorted`, ids increase along it), and that running jobs hold a slot
(`RunningHeld`, `HeldStarted`); that a shutdown drained everything needs that
each unfinished job is somewhere (`Covered`) and what the promise says
(`PromiseOK`). A lemma on each operator of the pump says how many it starts,
which ones, and what is left. For `NoDuplicateWork` and the refinement each action is seen
as what it does to the items at work (`StepItems`): one is
accepted, one begins in the place of another, one ends, or nothing changes; an
item is then requested, begun or ended in `ExecutionRequests`.

**Tasks.** The coroutines share only the rows, so the invariants say what each
relies on while it waits. A job that selected a task relies on the
readiness it tested: `ReadinessKept` says that the dependencies the task has now are done,
but for tasks reopened and unless an edit has overtaken the job, so an edit that writes must open
none or be recorded. A writer of a status relies on the
test it made: `TestsHold` says it is still true unless a second writer has tested
too, which `raced` then records. Whoever waits relies on somebody having been asked:
`DecisionAwaited` and `AnswerAwaited` say of the tools of a run, while it goes
on, what its session will say at its end, so the write of the session needs
no more.

**Board.** What a request knows of the rows it has read is still true, or an event
explains it: an edit that will write dependencies has seen the ones there are, unless
two edits overlapped (`RequestSound`, `EditSound`); the agent of ready work has been called, or a
request is about to, with the task as it is (`ReadyIsSeen`). `OpenWorkProgresses`
needs only types and what readiness means: among the open tasks that a
task waits for, take one whose own open dependencies are a least set; one of those would
be ready, or waits for what the property names.

**Company.** An executive that stays is the first active one, and no deletion is of it
(`ExecutiveStays`); a second is made by a creation that found none
(`ExecutiveAlone`). That a path to the top ends is said without induction:
each agent has a set that holds the parents of its members and of
the agent, and not the agent itself (`Rootward`). Four lemmas say that taking parents away, a new
agent, and children handed to an agent that is not below theirs keep
it. `GivenLate` accounts for what an agent still holds after a handover, from which
`DeletionCompletes` and `NoTaskOrphaned` follow at the step that deletes.

**Agent runs.** A run is in three places: the request, the job in the lane and the record.
`RecordFollows` gives the states of the record at each stage of the job, from which
legal moves follow, no part of the code having looked at the table; `RunningBy`
names the stages that leave an agent shown as running; `Counted` adds the quota
used in processes that ended.

**Heartbeat.** The row of an agent is written back whole by polls and jobs, so
that it keeps a cooldown cannot be seen from the row alone. Until
a run is forced, a task job runs, or a lease is recovered beside its job, there
is one poll (`OnePoll`) and one job of an agent, holding the lease
(`OneHeartbeat`); the poll that marks an agent is then its only writer
(`MarkedAlone`), and every copy of the row somebody will write back has a cooldown that
lasts (`CooldownLasts`).

**Cron.** A poll lists a time, runs the job and writes the next time much later, and
an edit does the same with the row it read. So the invariant bounds each copy by
the last time run (`ran`): the row's next time lies after it unless the job is at work (`RowSound`),
so does the time a poll has listed (`ListedSound`) and the one it will write
(`AtJobSound`); and the time an edit will write lies after any that is run before
it does (`NewTimeSound`); the chat a run has linked is in the row and in every copy, or nothing is
linked any more. This needs that there is one poll (`PollsAlone`) and that
a job which is disabled is run at most by a poll that has already listed it.

**Migrations.** The parts go by what has gone wrong so far: while no lock of a live
process was taken, the lock is that of the process that migrates
(`OwnerMigrates`) and what it found in the file is still there (`Upgraded`); while also
nobody was killed and no restore failed, the file or its backup is sound
(`Undamaged`); a theft needs a lock that became overdue, or one left by a killed process or a failed release
(`StealingExplained`).

**Chat.** A stretch of a handler ends in `Leave`, whatever it did: one lemma
says what `Leave` keeps, and each action shows what is true of the run it leaves
(`RunFine`). That a cancel is heeded needs the number of tools a run may still begin before it looks for
a cancel again (`Spent`), in each stage. Whoever was last told of a stream has it, unless it
strayed to a closed connection since (`Heard`).

**Plugins and budget.** The properties speak of moments at which nothing is at work,
or of months that are over. In between, each mismatch is accounted for: a plugin not in the
executor by a request that will list the rows or is importing it, a policy not
applied by one that will apply it (`PolicyApplied`, `EnabledListed`); a month over
the threshold by a hook on its way (`Accounted`). That a month is alerted once
needs an order among hooks past the test of the marker (`InOrder`) and that
the marker is overwritten by later months only (`Kept`).

**Only model-checked.** Liveness (`WorkEnds`, `BatchReachesTasks`, `HeartbeatRecurs`,
`RunsEnd`, `StreamsEnd`, `ServerComesUp`, `PollsEnd`) and the fairness part of
`ImplementsRequests`: they need ENABLED and fairness, which the prover does not
handle. That the mutants break the properties is model-checked as well, and so is that
each exception of a property is needed.

## 5. Plan

Order: what decides whether agents work at all first.

1. *Done*: queue, its abstraction and proofs; task execution with approvals,
   inbox and people; heartbeat.
2. *Done*: `AgentRuns`, `CompanyAgents`, `CronRuntime`, `MigrationRunner`,
   `ChatStreams`, `PluginTools`, `BudgetAlerts`, `TaskBoard`.
3. Left: an instance of `TaskExecution` with readiness rules; what grants execute for
   agents and projects; an abstract specification of a migration (the
   database is at a version or read-only) and of the alert.

All safety properties of the runs are theorems. What is stated next
comes with its invariant: those of `TaskExecutionProofs` and `CronInv` show what one
about coroutines over shared rows has to say, namely what each of them still knows of the rows
it read.

## 6. Not modelled

- Plugins: their skills, run records and approval mode, placeholder tools.
- Notifications that are only sent on; reports of the budget.
- Tool runs (`POST /engine/tool-runs`, no record is kept) and the branch of the job
  handler for heartbeats that `HeartbeatRuntime` covers.
- Chat: titles, history, editing of messages, attachments.
- Start-up order: timers start before plugins are discovered and the policy is
  applied (lifecycle.ts:80-94), also in read-only mode (app.ts:333 is constant), which only
  refuses mutations over HTTP.
- The components with status `not_modelled` in `PROJECT.json`: storage without
  concurrency of its own (projects, knowledge, skills, settings, memory),
  calls of external services (AI adapters), text (prompts), presentation and
  packaging (web, desktop, UI packages), and the database client, which is
  generated from the schema. The last two are most of the repository's lines:
  a row access is one atomic step of the modules above, and a screen has no
  state that the server depends on.
