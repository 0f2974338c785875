---------------------------- MODULE TaskParking ----------------------------
(***************************************************************************)
(* TaskExecution with two history variables: which tasks have met one of   *)
(* the events after which a session may wait for a decision nobody will    *)
(* make, or for the answer to a question nobody was asked.  They only      *)
(* record; every behaviour of TaskExecution is one of this module.         *)
(***************************************************************************)
EXTENDS TaskExecution

VARIABLES
    excused,    \* tasks that met an event of the first kind
    unasked     \* tasks that met an event of the second kind

pvars == <<vars, excused, unasked>>

PInit == Init /\ excused = {} /\ unasked = {}

\* approval.request counts as used in a run of t, and no request names t.
CallLost(t) == \E j \in Jobs : Runs(j, t) /\ ToolRequestRefused(j)

\* The decision is recorded in the session while a run of t is still going
\* to overwrite the session.
DecisionOverlapsRun(t) ==
    \E d \in Deciders : /\ DecisionCheckpoint(d) /\ Named(d) = t
                        /\ \E j \in Jobs : Runs(j, t)

\* The decision is stored and the request ends before the session is written.
DecisionDropped(t) ==
    /\ DecisionInProgress(t)
    /\ Crash \/ \E d \in Deciders : ExecutionFails(d) /\ Named(d) = t

Excuse(t) == CallLost(t) \/ DecisionOverlapsRun(t) \/ DecisionDropped(t)

\* The checkpoint says that a question waits, and the run stops before it is
\* in the inbox.
QuestionLost(t) ==
    \E j \in Jobs : /\ job[j].task = t
                    /\ At(j, "escalate") \/ (At(j, "audit") /\ "inbox.send" \in job[j].tools)
                    /\ Crash \/ FailJob(j)

\* A rejection makes the task wait for input; it asks nothing.
SentBack(t) ==
    \E d \in Deciders : /\ DecisionCheckpoint(d) /\ Named(d) = t
                        /\ decider[d].verdict = "rejected"

PNext ==
    /\ Next
    /\ excused' = excused \cup {t \in Tasks : Excuse(t)}
    /\ unasked' = unasked \cup {t \in Tasks : QuestionLost(t) \/ SentBack(t)}

PSpec == PInit /\ [][PNext]_pvars

Undecided(t) == \E a \in ApprovalIds : approvals[a] = [state |-> "pending", task |-> t]

\* Nobody is at work on the task or on a decision about it.
Quiet(t) == ~DecisionInProgress(t) /\ \A j \in Jobs : ~Runs(j, t)

\* A session waits for an approval only while a request that names its task
\* is undecided or is being carried out, or its run is not over; the only
\* other ways into such a wait are the three events above (resolveSessionStatus,
\* appendApprovalDecisionCheckpoint).
ParkedOnlyByRace ==
    \A t \in Tasks :
        session[t] = "waiting_for_approval" /\ Quiet(t) /\ ~Undecided(t) => t \in excused

\* A session waits for input only when a question about its task reached the
\* inbox; the only other ways into such a wait are a rejected approval and a
\* run that stopped between its checkpoint and its escalation
\* (runTaskForAgent, handleInfoEscalation).
InputWaitHasQuestion ==
    \A t \in Tasks :
        session[t] = "waiting_for_input" /\ Quiet(t) /\ inbox[t] = "none" => t \in unasked

\* Whatever a session waits for, somebody was asked for it: the two above.
WaitsAreAnswerable == ParkedOnlyByRace /\ InputWaitHasQuestion
=============================================================================
