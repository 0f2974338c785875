----------------------------- MODULE CompanyAgents -----------------------------
(***************************************************************************)
(* The agents of the company, their hierarchy and what they hold           *)
(* (packages/core/src/agent/agent.service.ts with its routes in            *)
(* apps/server/src/modules/agent/agent-management.routes.ts and the        *)
(* repositories in apps/server/src/repositories): creation, status,        *)
(* parent, and the deletion that hands everything an agent holds to an     *)
(* executive.                                                              *)
(*                                                                         *)
(* A step is one database call.  Creation and deletion are several, and    *)
(* requests interleave between them.  An agent's number is the order of    *)
(* creation; an agent is active unless terminated or archived (which the   *)
(* repository reads as terminated); nobody is 0.  The database refuses to  *)
(* delete an agent that a project, a task (as its creator), an approval, a *)
(* run or a chat session names, and forgets it as a parent or assignee.    *)
(***************************************************************************)
EXTENDS Integers

CONSTANTS
    MaxAgents,   \* bound: agents ever created
    Handlers,    \* bound: creations and deletions at once
    MaxChanges,  \* bound: changes of status, parent, holder
    MaxDeletes   \* bound: deletions begun

ASSUME CompanyAssumption ==
    /\ MaxAgents \in Nat \ {0, 1} /\ MaxChanges \in Nat /\ MaxDeletes \in Nat

Staff == 1..MaxAgents
Nobody == 0

\* What an agent holds, one of each: as a project's owner, a task's creator and
\* assignee, an approval's actor.
Items == {"project", "creator", "assignee", "approval"}

\* Those without which the database does not let the agent go.
Binding == Items \ {"assignee"}

VARIABLES
    agents,   \* the agent rows
    holder,   \* who holds each item
    tied,     \* agents named by a run or a chat session
    request,  \* creations and deletions in progress
    late,     \* deletions whose agent was given something of a kind they had
              \* handed over already (history)
    why,      \* what happened that the properties make exceptions for (history)
    changes, deletes

companyVars == <<agents, holder, tied, request, late, why, changes, deletes>>

NoAgent == [is |-> "none", level |-> "L1", active |-> FALSE, parent |-> Nobody]

NewAgent(level, parent) ==
    [is |-> "there", level |-> level, active |-> TRUE, parent |-> parent]

Idle == [pc |-> "idle", agent |-> Nobody, level |-> "L1", parent |-> Nobody,
         fallback |-> Nobody, alone |-> FALSE]

\* A company after its setup, with work or without: an executive, and an agent
\* below it or an executive that was terminated before or after it came.
CompanyInit ==
    /\ \E e \in {1, 2} :
          \E other \in {NewAgent("L1", e), [NewAgent("L0", Nobody) EXCEPT !.active = FALSE]} :
             agents = [a \in Staff |-> CASE a = e     -> NewAgent("L0", Nobody)
                                         [] a = 3 - e -> other
                                         [] OTHER     -> NoAgent]
    /\ \E a \in {1, 2, Nobody} : holder = [i \in Items |-> a]
    /\ tied = {}
    /\ request = [r \in Handlers |-> Idle]
    /\ late = {} /\ why = {}
    /\ changes = 0 /\ deletes = 0

There(a) == a \in Staff /\ agents[a].is = "there"

\* The rows that name the executives, in the order of their creation.
ActiveExecutives == {a \in Staff : There(a) /\ agents[a].level = "L0" /\ agents[a].active}

\* The agent of a set that was created first.
First(S) == CHOOSE a \in S : \A b \in S : a <= b

At(r, pc) == request[r].pc = pc

Goto(r, pc) == request' = [request EXCEPT ![r].pc = pc]

End(r) == request' = [request EXCEPT ![r] = Idle]

Company == <<agents, holder, tied>>
History == <<late, why>>
Counts == <<changes, deletes>>

Change == changes < MaxChanges /\ changes' = changes + 1

-----------------------------------------------------------------------------
(* createAgent                                                              *)

\* A second active executive is refused.
MayCreate(level) == level = "L0" => ActiveExecutives = {}

Begin(r, kind) ==
    /\ At(r, "idle")
    /\ request' = [request EXCEPT ![r] = kind]

CreateRead(r) ==
    /\ \E level \in {"L0", "L1"}, p \in Staff \cup {Nobody} :
          /\ p # Nobody => There(p)
          /\ MayCreate(level)
          /\ Begin(r, [Idle EXCEPT !.pc = "create", !.level = level, !.parent = p,
                           !.alone = ActiveExecutives = {}])
    /\ \E a \in Staff : agents[a] = NoAgent
    /\ UNCHANGED <<Company, History, Counts>>

\* The row is inserted, unless the parent is gone by now.
CreateWrite(r) ==
    /\ At(r, "create")
    /\ LET new == First({a \in Staff : agents[a] = NoAgent})
           q == request[r]
           room == \E a \in Staff : agents[a] = NoAgent
       IN IF room /\ (q.parent = Nobody \/ There(q.parent))
          THEN /\ agents' = [agents EXCEPT ![new] = NewAgent(q.level, q.parent)]
               /\ why' = why \cup IF q.level = "L0" /\ q.alone /\ ActiveExecutives # {}
                                  THEN {"race"} ELSE {}
          ELSE UNCHANGED <<agents, why>>
    /\ End(r)
    /\ UNCHANGED <<holder, tied, late, Counts>>

-----------------------------------------------------------------------------
(* Changes in one write                                                     *)

\* PATCH /agents/:id, resume and archive: no other agent is looked at.
SetStatus(a) ==
    /\ There(a) /\ Change
    /\ agents' = [agents EXCEPT ![a].active = ~@]
    /\ why' = why \cup IF agents[a].level # "L0" THEN {}
                       ELSE IF agents[a].active THEN {"archived"}
                       ELSE IF \E r \in Handlers : request[r].agent = a THEN {"revived"}
                       ELSE {"reactivated"}
    /\ UNCHANGED <<holder, tied, request, late, deletes>>

\* PATCH /agents/:id/parent: any agent that is there, the agent itself too.
SetParent(a) ==
    /\ There(a) /\ Change
    /\ \E p \in Staff \cup {Nobody} :
          /\ p # Nobody => There(p)
          /\ p # agents[a].parent
          /\ agents' = [agents EXCEPT ![a].parent = p]
    /\ why' = why \cup {"patched"}
    /\ UNCHANGED <<holder, tied, request, late, deletes>>

\* The deletions of a that do not look for the item any more.
TooLate(a, i) ==
    LET after == CASE i = "project" -> {"tasks", "approvals", "delete"}
                   [] i = "approval" -> {"delete"}
                   [] OTHER -> {"approvals", "delete"}
    IN {r \in Handlers : request[r].agent = a /\ request[r].pc \in after}

\* New work: a project, a task or an approval of the agent.
Give(a) ==
    /\ There(a) /\ Change
    /\ \E i \in Items :
          /\ holder[i] # a
          /\ holder' = [holder EXCEPT ![i] = a]
          /\ late' = late \cup TooLate(a, i)
    /\ UNCHANGED <<agents, tied, request, why, deletes>>

\* The agent is run or talked to for the first time.
Tie(a) ==
    /\ There(a) /\ a \notin tied /\ Change
    /\ tied' = tied \cup {a}
    /\ UNCHANGED <<agents, holder, request, History, deletes>>

-----------------------------------------------------------------------------
(* deleteAgent                                                              *)

\* Wrong variant: any executive may go while there is another.
Deletable_AnyExecutive(a) == ActiveExecutives \ {a} # {}

\* The first active executive stays; the others go when there is one.
Deletable(a) == ActiveExecutives # {} /\ a # First(ActiveExecutives)

DeleteRead(r) ==
    /\ deletes < MaxDeletes /\ deletes' = deletes + 1
    /\ \E a \in Staff :
          /\ There(a) /\ Deletable(a)
          /\ Begin(r, [Idle EXCEPT !.pc = "children", !.agent = a,
                           !.fallback = First(ActiveExecutives \ {a})])
    /\ late' = late \ {r}
    /\ UNCHANGED <<Company, why, changes>>

\* Everything of one kind goes from the agent to the fallback, if that is still
\* there; the deletion ends in an error otherwise.
Hand(r, pc, anything, moved) ==
    IF anything /\ ~There(request[r].fallback)
    THEN End(r) /\ UNCHANGED <<agents, holder, late>>
    ELSE Goto(r, pc) /\ moved

\* Who a's superiors are: its parent, that one's, and so on, the members of
\* every set that has the parent of a and of each of its members.
HasParent(S, a) == agents[a].parent \in S \cup {Nobody}

Superiors(a) ==
    {b \in Staff : \A S \in SUBSET Staff :
        HasParent(S, a) /\ (\A c \in S : HasParent(S, c)) => b \in S}

Children(a) == {c \in Staff : There(c) /\ agents[c].parent = a}

\* The children go under the fallback, and so does a fallback that was one.
MoveChildren(r) ==
    /\ At(r, "children")
    /\ LET kids == Children(request[r].agent) f == request[r].fallback IN
       /\ Hand(r, "projects", kids # {},
               agents' = [c \in Staff |-> IF c \in kids THEN [agents[c] EXCEPT !.parent = f]
                                          ELSE agents[c]] /\ UNCHANGED <<holder, late>>)
       /\ why' = why \cup IF request[r].agent \in Superiors(f) THEN {"headed"} ELSE {}
    /\ UNCHANGED <<tied, Counts>>

\* The items among those given that the agent holds go to the fallback.
MoveItems(r, items, pc) ==
    LET held == {i \in items : holder[i] = request[r].agent} IN
    Hand(r, pc, held # {},
         /\ holder' = [i \in Items |-> IF i \in held THEN request[r].fallback ELSE holder[i]]
         /\ late' = late \cup UNION {TooLate(request[r].fallback, i) : i \in held}
         /\ UNCHANGED agents)

MoveProjects(r) ==
    /\ At(r, "projects") /\ MoveItems(r, {"project"}, "tasks")
    /\ UNCHANGED <<tied, why, Counts>>

\* Wrong variant: the tasks the agent works on are not looked for.
MoveTasks_CreatedOnly(r) ==
    /\ At(r, "tasks") /\ MoveItems(r, {"creator"}, "approvals")
    /\ UNCHANGED <<tied, why, Counts>>

MoveTasks(r) ==
    /\ At(r, "tasks") /\ MoveItems(r, {"creator", "assignee"}, "approvals")
    /\ UNCHANGED <<tied, why, Counts>>

\* Wrong variant: the approvals stay.
MoveApprovals_Not(r) ==
    /\ At(r, "approvals") /\ Goto(r, "delete")
    /\ UNCHANGED <<Company, History, Counts>>

MoveApprovals(r) ==
    /\ At(r, "approvals") /\ MoveItems(r, {"approval"}, "delete")
    /\ UNCHANGED <<tied, why, Counts>>

\* The row is deleted, unless it is gone or something still names it.
DeleteWrite(r) ==
    /\ At(r, "delete")
    /\ LET a == request[r].agent IN
       IF There(a) /\ a \notin tied /\ \A i \in Binding : holder[i] # a
       THEN /\ agents' = [c \in Staff |->
                            IF c = a THEN [NoAgent EXCEPT !.is = "gone"]
                            ELSE IF agents[c].parent = a THEN [agents[c] EXCEPT !.parent = Nobody]
                            ELSE agents[c]]
            /\ holder' = [i \in Items |-> IF holder[i] = a THEN Nobody ELSE holder[i]]
       ELSE UNCHANGED <<agents, holder>>
    /\ End(r)
    /\ UNCHANGED <<tied, late, why, Counts>>

CompanyNext ==
    \/ \E r \in Handlers :
          \/ CreateRead(r) \/ CreateWrite(r)
          \/ DeleteRead(r) \/ MoveChildren(r) \/ MoveProjects(r) \/ MoveTasks(r)
          \/ MoveApprovals(r) \/ DeleteWrite(r)
    \/ \E a \in Staff : SetStatus(a) \/ SetParent(a) \/ Give(a) \/ Tie(a)

CompanySpec == CompanyInit /\ [][CompanyNext]_companyVars

-----------------------------------------------------------------------------
(* Properties                                                               *)

Rows == [is : {"none", "there", "gone"}, level : {"L0", "L1"}, active : BOOLEAN,
         parent : Staff \cup {Nobody}]

\* What every variable holds; and every row that is named is there: a parent,
\* a holder, an agent with runs.
CompanyTypeOK ==
    /\ agents \in [Staff -> Rows]
    /\ \A a \in Staff : agents[a].parent # Nobody => There(a) /\ There(agents[a].parent)
    /\ holder \in [Items -> Staff \cup {Nobody}]
    /\ \A i \in Items : holder[i] # Nobody => There(holder[i])
    /\ \A a \in tied : There(a)
    /\ late \subseteq Handlers
    /\ why \subseteq {"race", "archived", "reactivated", "revived", "patched", "headed"}
    /\ changes \in 0..MaxChanges /\ deletes \in 0..MaxDeletes

\* Deletions, whatever else goes on and however many at once, never leave the
\* company without an active executive: one is missing only after an executive
\* was archived or terminated by its status, or was made active again while it
\* was being deleted, and so came to stand before the one that should stay.
ExecutiveRemains == ActiveExecutives = {} => why \cap {"archived", "revived"} # {}

\* There are two active executives only if two were created at once or one was
\* made active again.
OneExecutive ==
    (\E a, b \in ActiveExecutives : a # b) => why \cap {"race", "reactivated", "revived"} # {}

\* The path from every agent to the top ends (getPath follows it without a
\* limit), unless a parent was set by hand, or an agent was deleted that the
\* executive taking its children was below.
PathsEnd ==
    (\E a \in Staff : There(a) /\ a \in Superiors(a)) => why \cap {"patched", "headed"} # {}

\* The company has one executive and is a tree below it: what every row names
\* is there, and the three above.
HierarchySound == CompanyTypeOK /\ ExecutiveRemains /\ OneExecutive /\ PathsEnd

\* A deletion that has begun to hand things over deletes the agent.  It fails,
\* with everything handed over, only for an agent that has run or chatted, one
\* that was given something new meanwhile, or a fallback that is gone.
DeletionCompletes ==
    [][\A r \in Handlers :
          LET q == request[r] IN
          /\ q.pc \in {"children", "projects", "tasks", "approvals", "delete"}
          /\ request'[r].pc = "idle"
          /\ agents'[q.agent].is = "there"
          =>
             q.agent \in tied \/ r \in late \/ ~There(q.fallback)]_companyVars

\* A deletion leaves no task without an assignee, unless the task was assigned
\* to the agent after its tasks were handed over.
NoTaskOrphaned ==
    [][holder["assignee"] # Nobody /\ holder'["assignee"] = Nobody =>
          \E r \in late : request[r].agent = holder["assignee"]]_companyVars
=============================================================================
