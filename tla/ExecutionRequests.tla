------------------------- MODULE ExecutionRequests -------------------------
(***************************************************************************)
(* What the job queue promises about task executions, without job records, *)
(* waiting lists or slot counters.  A work item is idle, waiting or        *)
(* active; a request for an item that is not idle is absorbed; at most     *)
(* Capacity items are active; after shutdown begins nothing is requested,  *)
(* and shutdown completes only when every item is idle.                    *)
(***************************************************************************)
EXTENDS Integers, FiniteSets

CONSTANTS Items, Capacity

VARIABLES
    phase,    \* per item: "idle", "waiting" or "active"
    open,     \* requests are accepted
    drained   \* shutdown has completed

vars == <<phase, open, drained>>

Active == {w \in Items : phase[w] = "active"}
AllIdle == \A w \in Items : phase[w] = "idle"

Init ==
    /\ phase = [w \in Items |-> "idle"]
    /\ open = TRUE
    /\ drained = FALSE

Request(w) ==
    /\ open
    /\ phase[w] = "idle"
    /\ \/ phase' = [phase EXCEPT ![w] = "waiting"]
       \/ /\ Cardinality(Active) < Capacity
          /\ phase' = [phase EXCEPT ![w] = "active"]
    /\ UNCHANGED <<open, drained>>

Begin(w) ==
    /\ phase[w] = "waiting"
    /\ Cardinality(Active) < Capacity
    /\ phase' = [phase EXCEPT ![w] = "active"]
    /\ UNCHANGED <<open, drained>>

Finish(w) ==
    /\ phase[w] = "active"
    /\ phase' = [phase EXCEPT ![w] = "idle"]
    /\ UNCHANGED <<open, drained>>

Shutdown ==
    /\ open' = FALSE
    /\ drained' \in IF AllIdle THEN {drained, TRUE} ELSE {drained}
    /\ UNCHANGED phase

Next ==
    \/ \E w \in Items : Request(w) \/ Begin(w) \/ Finish(w)
    \/ Shutdown

\* Items wait behind others for a slot, hence strong fairness of Begin.
Fairness == \A w \in Items : WF_vars(Finish(w)) /\ SF_vars(Begin(w))

Spec == Init /\ [][Next]_vars /\ Fairness
=============================================================================
