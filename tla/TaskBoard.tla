------------------------------ MODULE TaskBoard ------------------------------
(***************************************************************************)
(* The board of tasks and all who change it: the routes of                 *)
(* modules/task/task.controller.ts, the tools of an agent, the actions     *)
(* that a granted approval executes (modules/approval/                     *)
(* approval.controller.ts), and behind them TaskService.                   *)
(*                                                                         *)
(* A request is a coroutine; an action goes from one access to the tasks   *)
(* to the next.  Of a task there are its status and its dependencies: the  *)
(* readiness rules travel with these, the other fields by themselves.  An  *)
(* approval is decided once, and who runs the tasks is left open: both are *)
(* in TaskExecution.                                                       *)
(***************************************************************************)
EXTENDS TaskReadiness

CONSTANTS
    Ids,          \* the ids of tasks
    Old,          \* the tasks that are on the board at first
    Requests,     \* bound: requests at once
    MaxRequests,  \* bound: requests made
    MaxFaults     \* bound: requests that fail after their write

ASSUME BoardAssumption ==
    Old \subseteq Ids /\ MaxRequests \in Nat /\ MaxFaults \in Nat

VARIABLES
    rows,            \* the tasks: a function on the ids there are
    boardApprovals,  \* what the pending approval requests ask for
    request,         \* the requests at work
    requests, faults,
    used,            \* ids given so far (history)
    wish,            \* the dependencies last asked for and not refused (history)
    asked,           \* tasks whose agent was called since they were written (history)
    boardUnasked,    \* tasks changed or made ready by what calls nobody (history)
    boardRaced,      \* tasks that two edits wrote at a time (history)
    granted          \* tasks whose creation or edit was granted (history)

Counts == <<requests, faults>>
History == <<used, wish, asked, boardUnasked, boardRaced, granted>>
boardVars == <<rows, boardApprovals, request, Counts, History>>

ReadyOn(b, t) == IsReady(t, b[t].deps, {}, [u \in DOMAIN b |-> b[u].status])
With(b, t, row) == [u \in DOMAIN b \cup {t} |-> IF u = t THEN row ELSE b[u]]
Open(b) == {t \in DOMAIN b : b[t].status \in {"pending", "in_progress"}}

\* What is asked for, through whom, of which tasks, with which dependencies (an
\* edit may name none: it keeps those there are) or status.
Op == [kind : {"none", "create", "edit", "delete", "status", "bulk"},
       via : {"none", "route", "tool", "grant"}, tasks : SUBSET Ids,
       names : BOOLEAN, deps : SUBSET Ids, status : TaskStatus]

Nop == [kind |-> "none", via |-> "none", tasks |-> {}, names |-> FALSE, deps |-> {},
        status |-> "pending"]

Creation(via, D) == [Nop EXCEPT !.kind = "create", !.via = via, !.names = TRUE, !.deps = D]
Naming(via, t, D) ==
    [Nop EXCEPT !.kind = "edit", !.via = via, !.tasks = {t}, !.names = TRUE, !.deps = D]
Plain(via, k, t) == [Nop EXCEPT !.kind = k, !.via = via, !.tasks = {t}]
Change(k, T, s) == [Nop EXCEPT !.kind = k, !.via = "route", !.tasks = T, !.status = s]

Asks(via) ==
    {Creation(via, D) : D \in SUBSET used}
    \cup {Naming(via, t, D) : t \in used, D \in SUBSET used}
    \cup {Plain(via, k, t) : k \in {"edit", "delete"}, t \in used}

AsksStatus ==
    {Change(k, T, s) : k \in {"status", "bulk"}, T \in {{t} : t \in used} \cup {used},
                       s \in TaskStatus}

Ops == {op \in Asks("route") \cup Asks("tool") \cup AsksStatus :
            op.kind = "status" => op.tasks \in {{t} : t \in used}}

\* read, write: the tasks a request has yet to read, to write.  seen: the
\* dependencies of the row it has read, and its status.
Idle == [op |-> Nop, pc |-> "idle", read |-> {}, write |-> {}, seen |-> {}, status |-> "pending"]

BoardTypeOK ==
    /\ DOMAIN rows \subseteq used /\ used \subseteq Ids
    /\ \A t \in DOMAIN rows :
         rows[t].status \in TaskStatus /\ rows[t].deps \subseteq used \ {t}
    /\ boardApprovals \subseteq Op
    /\ \A r \in Requests :
         /\ request[r].op \in Op
         /\ request[r].pc \in {"idle", "work", "wake", "list"}
         /\ request[r].pc = "idle" <=> request[r] = Idle
    /\ requests \in 0 .. MaxRequests /\ faults \in 0 .. MaxFaults
    /\ asked \cup boardUnasked \cup boardRaced \cup granted \subseteq used
    /\ asked \cap boardUnasked = {}

\* Any board that earlier requests have left, with nobody at work.
BoardInit ==
    /\ \E s \in [Old -> TaskStatus] : \E d \in [Old -> SUBSET Old] :
         /\ \A t \in Old : t \notin d[t]
         /\ rows = [t \in Old |-> [status |-> s[t], deps |-> d[t]]]
         /\ wish = [t \in Ids |-> IF t \in Old THEN d[t] ELSE {}]
    /\ boardApprovals = {}
    /\ request = [r \in Requests |-> Idle]
    /\ requests = 0 /\ faults = 0
    /\ used = Old /\ asked = {} /\ boardUnasked = Old /\ boardRaced = {} /\ granted = {}

-----------------------------------------------------------------------------

Begin(r, op) ==
    request' = [request EXCEPT ![r] = [Idle EXCEPT !.op = op, !.pc = "work", !.read = op.tasks]]

\* A route or a tool is called; a route may have to ask the founder first.
Ask(r) ==
    /\ request[r] = Idle /\ requests < MaxRequests
    /\ requests' = requests + 1
    /\ \E op \in Ops :
         \/ Begin(r, op) /\ UNCHANGED boardApprovals
         \/ op.via = "route" /\ boardApprovals' = boardApprovals \cup {op} /\ UNCHANGED request
    /\ UNCHANGED <<rows, faults, History>>

\* executeApprovedAction: there is no case for an edit and for a deletion.
Executed == {"create", "status", "bulk"}

Grant(r) ==
    /\ request[r] = Idle
    /\ \E op \in boardApprovals :
         /\ boardApprovals' = boardApprovals \ {op}
         /\ IF op.kind \in Executed THEN Begin(r, [op EXCEPT !.via = "grant"])
                                    ELSE UNCHANGED request
         /\ IF op.kind = "edit" /\ op.names
            THEN /\ wish' = [t \in Ids |-> IF t \in op.tasks THEN op.deps ELSE wish[t]]
                 /\ granted' = granted \cup op.tasks
            ELSE UNCHANGED <<wish, granted>>
    /\ UNCHANGED <<rows, Counts, used, asked, boardUnasked, boardRaced>>

\* A granted creation is executed without the dependencies it asked for.
Created(op) == [status |-> "pending", deps |-> IF op.via = "grant" THEN {} ELSE op.deps]

\* A request ends, or goes on to call the agent of the task it has written:
\* only a route for one task does, for a status only when it is one to work on.
Calls(op) ==
    /\ op.via = "route"
    /\ \/ op.kind \in {"create", "edit"}
       \/ op.kind = "status" /\ op.status \in {"pending", "in_progress"}

\* The other tasks of a bulk change go on, whatever became of this one.
Rest(r, t) ==
    IF request[r].read \cup request[r].write \subseteq {t} THEN Idle
    ELSE [request[r] EXCEPT !.read = @ \ {t}, !.write = @ \ {t}]

After(r, t) ==
    IF Calls(request[r].op) THEN [request[r] EXCEPT !.pc = "wake", !.op.tasks = {t}, !.write = {}]
    ELSE Rest(r, t)

\* The board becomes b by a write of t: who is called, and who should be.
Written(r, t, b) ==
    LET ready == {u \in Open(b) \ {t} : ReadyOn(b, u) /\ ~(u \in Open(rows) /\ ReadyOn(rows, u))}
        left  == ready \cup (IF Calls(request[r].op) THEN {} ELSE {t})
    IN  /\ rows' = b
        /\ boardUnasked' = (boardUnasked \ {t}) \cup left
        /\ asked' = asked \ ({t} \cup left)
        /\ request' = [request EXCEPT ![r] = After(r, t)]

Create(r) ==
    /\ request[r].pc = "work" /\ request[r].op.kind = "create"
    /\ \E t \in Ids \ used :
         /\ Written(r, t, With(rows, t, Created(request[r].op)))
         /\ used' = used \cup {t}
         /\ wish' = [wish EXCEPT ![t] = request[r].op.deps]
         /\ granted' = IF request[r].op.via = "grant" THEN granted \cup {t} ELSE granted
    /\ UNCHANGED <<boardApprovals, Counts, boardRaced>>

\* The task is gone, or the service refuses: this task is not written.
Refused(op, t) ==
    \/ t \notin DOMAIN rows
    \/ op.kind = "edit" /\ t \in op.deps
    \/ op.kind \in {"status", "bulk"} /\ op.status # rows[t].status
         /\ op.status \notin AllowedTransitions[rows[t].status]

\* getTask; a status that the task has already is not written.
ReadTask(r, t) ==
    LET op == request[r].op IN
    /\ request[r].pc = "work" /\ t \in request[r].read
    /\ request' =
         IF Refused(op, t) THEN [request EXCEPT ![r] = Rest(r, t)]
         ELSE IF op.kind \in {"status", "bulk"} /\ rows[t].status = op.status
         THEN [request EXCEPT ![r] = After(r, t)]
         ELSE [request EXCEPT ![r].read = @ \ {t}, ![r].write = @ \cup {t},
                              ![r].seen = IF op.kind = "edit" THEN rows[t].deps ELSE {}]
    /\ UNCHANGED <<rows, boardApprovals, Counts, History>>

\* What the edit stores: the dependencies it names, or those it has read.
\* Wrong variant: none when it names none.
EditedDeps_None(r) == request[r].op.deps
EditedDeps(r) == IF request[r].op.names THEN request[r].op.deps ELSE request[r].seen

\* Other edits of t that have read it and not yet written.
Editing(r, t) ==
    {q \in Requests \ {r} : request[q].op.kind = "edit" /\ t \in request[q].write}

WriteTask(r, t) ==
    LET op == request[r].op IN
    /\ request[r].pc = "work" /\ t \in request[r].write
    /\ IF t \notin DOMAIN rows
       THEN /\ request' = [request EXCEPT ![r] = Rest(r, t)]
            /\ UNCHANGED <<rows, wish, asked, boardUnasked, boardRaced>>
       ELSE /\ CASE op.kind = "edit" ->
                      Written(r, t, [rows EXCEPT ![t].deps = EditedDeps(r)])
                 [] op.kind = "delete" ->
                      Written(r, t, [u \in DOMAIN rows \ {t} |-> rows[u]])
                 [] op.kind \in {"status", "bulk"} ->
                      Written(r, t, [rows EXCEPT ![t].status = op.status])
            /\ wish' = IF op.kind = "edit" /\ op.names THEN [wish EXCEPT ![t] = op.deps] ELSE wish
            /\ boardRaced' = IF op.kind = "edit" /\ Editing(r, t) # {} THEN boardRaced \cup {t}
                                                                     ELSE boardRaced
    /\ UNCHANGED <<boardApprovals, Counts, used, granted>>

\* enqueueTaskExecutionIfReady reads the task, then all tasks, and enqueues.
WakeRead(r, t) ==
    /\ request[r].pc = "wake" /\ t \in request[r].op.tasks
    /\ request' = [request EXCEPT ![r] =
                     IF t \notin DOMAIN rows THEN Idle
                     ELSE [@ EXCEPT !.pc = "list", !.seen = rows[t].deps, !.status = rows[t].status]]
    /\ UNCHANGED <<rows, boardApprovals, Counts, History>>

\* Wrong variant: only for a task that is pending.
WakeList_Pending(r, t) ==
    /\ request[r].pc = "list" /\ t \in request[r].op.tasks
    /\ IF request[r].status = "pending" /\ ReadyOn(rows, t)
       THEN asked' = asked \cup {t} /\ boardUnasked' = boardUnasked \ {t}
       ELSE UNCHANGED <<asked, boardUnasked>>
    /\ request' = [request EXCEPT ![r] = Idle]
    /\ UNCHANGED <<rows, boardApprovals, Counts, used, wish, boardRaced, granted>>
WakeList(r, t) ==
    /\ request[r].pc = "list" /\ t \in request[r].op.tasks
    /\ LET b == With(rows, t, [status |-> request[r].status, deps |-> request[r].seen])
       IN  IF ReadyOn(b, t)
           THEN asked' = asked \cup {t} /\ boardUnasked' = boardUnasked \ {t}
           ELSE UNCHANGED <<asked, boardUnasked>>
    /\ request' = [request EXCEPT ![r] = Idle]
    /\ UNCHANGED <<rows, boardApprovals, Counts, used, wish, boardRaced, granted>>

\* The audit record fails: the route throws before it calls the agent.  Or the
\* readiness cannot be read: the agent is not called, and nobody is told.
CallFails(r) ==
    /\ request[r].pc \in {"wake", "list"} /\ faults < MaxFaults
    /\ faults' = faults + 1
    /\ request' = [request EXCEPT ![r] = Idle]
    /\ boardUnasked' = boardUnasked \cup (request[r].op.tasks \ asked)
    /\ UNCHANGED <<rows, boardApprovals, requests, used, wish, asked, boardRaced, granted>>

BoardNext ==
    \E r \in Requests :
        \/ Ask(r) \/ Grant(r) \/ Create(r) \/ CallFails(r)
        \/ \E t \in Ids : ReadTask(r, t) \/ WriteTask(r, t) \/ WakeRead(r, t) \/ WakeList(r, t)

BoardSpec == BoardInit /\ [][BoardNext]_boardVars

-----------------------------------------------------------------------------

\* A task has the dependencies last asked for: an edit that names none changes
\* none, unless another edit of the task came between its read and its write,
\* and what went through an approval is lost on the way.
DependenciesKept ==
    \A t \in DOMAIN rows : rows[t].deps = wish[t] \/ t \in boardRaced \cup granted

\* What the board holds: the above, and no task that depends on itself.
BoardSound == BoardTypeOK /\ DependenciesKept

BoardQuiet == \A r \in Requests : request[r] = Idle

\* When nobody is at work, the agent of a task to work on that is ready was
\* called since the task was last written, but for what calls nobody: a bulk
\* change, a tool, a granted request, a failed call, and the end of the
\* last dependency, after which the task waits for a heartbeat.
ReadyIsCalled ==
    BoardQuiet => \A t \in Open(rows) : ReadyOn(rows, t) => t \in asked \cup boardUnasked

\* What t depends on, directly or not: the least set closed under dependencies.
Closed(S) == \A t \in S \cap DOMAIN rows : rows[t].deps \subseteq S
Upstream(T) == {u \in Ids : \A S \in SUBSET Ids : T \subseteq S /\ Closed(S) => u \in S}

\* While there are tasks to work on, one is ready, unless every one of them
\* waits in the end for a task that is missing, that another has to review or
\* to unblock, that was cancelled, or that waits for itself.
OpenWorkProgresses ==
    (\A t \in Open(rows) : ~ReadyOn(rows, t)) =>
        \A t \in Open(rows) : \E u \in Upstream({t}) :
            \/ u \notin DOMAIN rows
            \/ rows[u].status \in {"review", "blocked", "cancelled"}
            \/ u \in Upstream(rows[u].deps)
=============================================================================
