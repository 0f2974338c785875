----------------------------- MODULE BudgetAlerts -----------------------------
(***************************************************************************)
(* The budget alert: after each call of a model, TokenUsageHook            *)
(* (adapters/hooks/token-usage.hook.ts) records what the call cost and     *)
(* sums the records of the month; past the threshold, NotificationService  *)
(* (modules/notification/notification.service.ts) sends one message a      *)
(* month, the month of the last one being kept in a settings row.  The     *)
(* sum goes by the months of the server's zone, the row by those of UTC.   *)
(*                                                                         *)
(* An action goes from one database access to the next.  Each call costs   *)
(* 1; the limit, the threshold and the switches of the notification are    *)
(* read with the access they precede and are not edited; a month has fewer *)
(* records than the 10,000 the hook adds up.                               *)
(***************************************************************************)
EXTENDS Integers, Sequences

CONSTANTS
    Calls,        \* bound: calls of models at once
    MaxCalls,     \* bound: calls made
    AlertAt,      \* the cost in a month at which the founder is told
    MonthLength,  \* ticks of the clock in a month
    LastTime,     \* bound of the clock
    East,         \* the zone of the server: local time is ahead of UTC by
    West,         \* at most East ticks, or behind it by at most West
    MaxFaults,    \* bound: accesses that fail
    MaxRestarts   \* bound: restarts

ASSUME BudgetAssumption ==
    /\ {MaxCalls, LastTime, East, West, MaxFaults, MaxRestarts} \subseteq Nat
    /\ {AlertAt, MonthLength} \subseteq Nat \ {0}
    /\ West < MonthLength /\ West <= LastTime

VARIABLES
    now,      \* UTC
    zone,     \* of the server
    spent,    \* the records: per local month, the cost of its calls
    marker,   \* the settings row lastAlertMonth
    alerts,   \* the messages to the founder, as they were created
    call,     \* the hooks at work
    calls, faults, restarts,
    twice,    \* UTC months that may be alerted again (history)
    missed    \* local months whose alert may be missing (history)

Counts == <<calls, faults, restarts>>
History == <<twice, missed>>
vars == <<now, zone, spent, marker, alerts, call, Counts, History>>

Months == 0 .. ((LastTime + East) \div MonthLength)
Utc == now \div MonthLength
Local == (now + zone) \div MonthLength

None == -1

\* A hook: the local month of its record, the local month its sum is of, the
\* UTC month it compared with the marker.
Idle == [pc |-> "idle", home |-> None, about |-> None, label |-> None]

TypeOK ==
    /\ now \in West .. LastTime /\ zone \in -West .. East
    /\ spent \in [Months -> 0 .. MaxCalls]
    /\ marker \in Months \cup {None}
    /\ \A i \in DOMAIN alerts : alerts[i].about \in Months /\ alerts[i].label \in Months
    /\ \A c \in Calls :
         /\ call[c].pc \in {"idle", "audit", "sum", "test", "message", "mark"}
         /\ call[c].pc = "idle" <=> call[c].home = None
         \* a sum is never of a month before the record, and reached the threshold
         /\ call[c].pc \in {"test", "message", "mark"} =>
              call[c].home <= call[c].about /\ spent[call[c].about] >= AlertAt
    /\ calls \in 0 .. MaxCalls /\ faults \in 0 .. MaxFaults
    /\ restarts \in 0 .. MaxRestarts
    /\ twice \subseteq Months /\ missed \subseteq Months

Init ==
    /\ now = West /\ zone \in -West .. East
    /\ spent = [m \in Months |-> 0]
    /\ marker = None
    /\ alerts = <<>>
    /\ call = [c \in Calls |-> Idle]
    /\ calls = 0 /\ faults = 0 /\ restarts = 0
    /\ twice = {} /\ missed = {}

-----------------------------------------------------------------------------

Tick ==
    /\ now < LastTime
    /\ now' = now + 1
    /\ UNCHANGED <<zone, spent, marker, alerts, call, Counts, History>>

\* A model answered: its tokens are recorded.
Record(c) ==
    /\ call[c].pc = "idle" /\ calls < MaxCalls
    /\ calls' = calls + 1
    /\ spent' = [spent EXCEPT ![Local] = @ + 1]
    /\ call' = [call EXCEPT ![c] = [Idle EXCEPT !.pc = "audit", !.home = Local]]
    /\ missed' = missed \ {Local}   \* this call makes up for the ones before
    /\ UNCHANGED <<now, zone, marker, alerts, faults, restarts, twice>>

Audit(c) ==
    /\ call[c].pc = "audit"
    /\ call' = [call EXCEPT ![c].pc = "sum"]
    /\ UNCHANGED <<now, zone, spent, marker, alerts, Counts, History>>

\* evaluateBudgetNearLimit: the records since the local month began.
Reached == spent[Local] >= AlertAt

Sum(c) ==
    /\ call[c].pc = "sum"
    /\ call' = [call EXCEPT ![c] = IF Reached THEN [@ EXCEPT !.pc = "test", !.about = Local]
                                              ELSE Idle]
    /\ missed' = IF call[c].home = Local THEN missed ELSE missed \cup {call[c].home}
    /\ UNCHANGED <<now, zone, spent, marker, alerts, Counts, twice>>

\* The marker is compared with the month in UTC.
Alerted == marker = Utc

Past == {d \in Calls : call[d].pc \in {"message", "mark"}}

\* The alert of another month bears the name this one would get.
NameTaken(m) ==
    \E i \in DOMAIN alerts : alerts[i].label = Utc /\ alerts[i].about # m

Test(c) ==
    /\ call[c].pc = "test"
    /\ IF Alerted
       THEN /\ call' = [call EXCEPT ![c] = Idle]
            /\ missed' = IF NameTaken(call[c].about) THEN missed \cup {call[c].about}
                                                  ELSE missed
            /\ UNCHANGED twice
       ELSE /\ call' = [call EXCEPT ![c].pc = "message", ![c].label = Utc]
            /\ twice' = IF Past = {} THEN twice ELSE twice \cup {Utc}
            /\ UNCHANGED missed
    /\ UNCHANGED <<now, zone, spent, marker, alerts, Counts>>

Message(c) ==
    /\ call[c].pc = "message"
    /\ alerts' = Append(alerts, [about |-> call[c].about, label |-> call[c].label])
    /\ call' = [call EXCEPT ![c].pc = "mark"]
    /\ UNCHANGED <<now, zone, spent, marker, Counts, History>>

\* Wrong variant: the marker is not written.
Mark_Forgets(c) ==
    /\ call[c].pc = "mark"
    /\ call' = [call EXCEPT ![c] = Idle]
    /\ UNCHANGED <<now, zone, spent, marker, alerts, Counts, History>>
Mark(c) ==
    /\ call[c].pc = "mark"
    /\ marker' = call[c].label
    /\ call' = [call EXCEPT ![c] = Idle]
    /\ UNCHANGED <<now, zone, spent, alerts, Counts, History>>

\* What a set of hooks that end early leaves undone.
Undone(C) ==
    /\ call' = [c \in Calls |-> IF c \in C THEN Idle ELSE call[c]]
    /\ twice' = twice \cup {call[c].label : c \in {d \in C : call[d].pc = "mark"}}
    /\ missed' = missed \cup {call[c].home : c \in {d \in C : call[d].pc \in {"audit", "sum"}}}
                      \cup {call[c].about : c \in {d \in C : call[d].pc \in {"test", "message"}}}
    /\ UNCHANGED <<now, zone, spent, marker, alerts, calls>>

\* An access fails: the runner of the hooks swallows the exception, which ends
\* this hook.
Fail(c) ==
    /\ call[c].pc # "idle" /\ faults < MaxFaults
    /\ faults' = faults + 1
    /\ Undone({c})
    /\ UNCHANGED restarts

\* The process stops and starts again; the rows stay.
Restart ==
    /\ restarts < MaxRestarts
    /\ restarts' = restarts + 1
    /\ Undone(Calls)
    /\ UNCHANGED faults

Step(c) == Audit(c) \/ Sum(c) \/ Test(c) \/ Message(c) \/ Mark(c)

Next ==
    \/ Tick \/ Restart
    \/ \E c \in Calls : Record(c) \/ Step(c) \/ Fail(c)

Spec == Init /\ [][Next]_vars

-----------------------------------------------------------------------------

\* One alert a month: two messages bear the same month (UTC) only if two hooks
\* were between the test of the marker and its write at one time, or if the
\* marker was never written after a message.
AlertedOnce ==
    \A i, j \in DOMAIN alerts :
        i # j /\ alerts[i].label = alerts[j].label => alerts[i].label \in twice

\* When no hook is at work, the founder has been told of every local month whose
\* cost reached the threshold.  Excepted is a month in which, after its last
\* recorded call, a hook failed or was killed or summed the next month instead,
\* and one whose name an alert of the month before had used up: between the two
\* midnights the sum is of one month and the marker of the other.
MonthIsAlerted ==
    (\A c \in Calls : call[c].pc = "idle") =>
        \A m \in Months :
            spent[m] >= AlertAt =>
                m \in missed \/ \E i \in DOMAIN alerts : alerts[i].about = m

\* Each month that calls for an alert gets one and no more, in the cases above,
\* and a hook that sends one has summed a month at or over the threshold.
AlertsSound == TypeOK /\ AlertedOnce /\ MonthIsAlerted

=============================================================================
