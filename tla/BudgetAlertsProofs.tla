------------------------- MODULE BudgetAlertsProofs -------------------------
(***************************************************************************)
(* Proofs about the budget alert, for any hooks, threshold, calendar, zone *)
(* and bounds.                                                             *)
(*                                                                         *)
(* That a month is alerted once rests on an order among the hooks that are *)
(* between the test of the marker and its write: one that tests while      *)
(* another is there makes its month one of the exceptions (twice), so that *)
(* the marker of any other month is overwritten by later months alone.     *)
(* That it is alerted at all rests on every record being accounted for by  *)
(* a hook, a message or the exceptions (missed), and on the marker never   *)
(* naming a month that no message names.                                   *)
(***************************************************************************)
EXTENDS BudgetAlerts, SequenceTheorems, TLAPS

(* The inductive invariant *)

Hook == [pc : {"idle", "audit", "sum", "test", "message", "mark"},
         home : Months \cup {None}, about : Months \cup {None}, label : Months \cup {None}]
Alert == [about : Months, label : Months]

Typed ==
    /\ call \in [Calls -> Hook] /\ alerts \in Seq(Alert)
    /\ \A m \in Months : spent[m] <= calls

\* Nothing at work is of a month to come.
TimesPassed ==
    /\ \A c \in Calls :
          /\ call[c].pc # "idle" => call[c].home \in Months /\ call[c].home <= Local
          /\ call[c].pc \in {"test", "message", "mark"} => call[c].about \in Months
          /\ c \in Past => call[c].label \in Months /\ call[c].label <= Utc
    /\ \A i \in DOMAIN alerts : alerts[i].label <= Utc

NamedIn(messages, m) == \E i \in DOMAIN messages : messages[i].label = m
Named(m) == NamedIn(alerts, m)
Sending(c, m) == call[c].pc = "message" /\ call[c].label = m
Marking(c, m) == call[c].pc = "mark" /\ call[c].label = m

\* A hook writes the marker of a month that has been alerted.
MarkerNamed ==
    /\ marker # None => Named(marker)
    /\ \A c \in Calls : call[c].pc = "mark" => Named(call[c].label)

\* A month is not alerted while it is being alerted, or has been.
NotAgain ==
    \A m \in Months \ twice :
        /\ \A c \in Calls : Sending(c, m) => ~Named(m)
        /\ \A c, d \in Calls : Sending(c, m) /\ Sending(d, m) => c = d

\* Of two hooks past the test the later one saw the other.
InOrder ==
    \A c, d \in Past : call[c].label < call[d].label => call[d].label \in twice

\* The marker keeps a month that is alerted, or will have it, until it is over.
Kept ==
    \A m \in Months \ twice : Named(m) =>
        /\ marker = m \/ Utc > m \/ \E c \in Calls : Marking(c, m)
        /\ \A c \in Past : call[c].label >= m

\* A month at the threshold has been told, is an exception, or is worked on.
AtWork(m) ==
    \E c \in Calls : \/ call[c].pc \in {"audit", "sum"} /\ call[c].home = m
                     \/ call[c].pc \in {"test", "message"} /\ call[c].about = m

Told(m) == \E i \in DOMAIN alerts : alerts[i].about = m

Accounted == \A m \in Months : spent[m] >= AlertAt => m \in missed \/ Told(m) \/ AtWork(m)

IInv ==
    /\ TypeOK
    /\ Typed
    /\ TimesPassed
    /\ MarkerNamed
    /\ AlertedOnce
    /\ NotAgain
    /\ InOrder
    /\ Kept
    /\ Accounted

-----------------------------------------------------------------------------
(* Months                                                                   *)

LEMMA MonthsAreOrdered ==
    ASSUME NEW n \in Nat \ {0}, NEW a \in Nat, NEW b \in Nat, a <= b
    PROVE  a \div n \in Nat /\ a \div n <= b \div n
OBVIOUS

LEMMA MonthsAreNumbers ==
    /\ Months \subseteq Nat /\ None \notin Months
    /\ \A m \in Months \cup {None} : m \in Int
BY BudgetAssumption, MonthsAreOrdered DEF Months, None

\* Both calendars stay within the months that are recorded.
LEMMA InMonths ==
    ASSUME NEW t \in West .. LastTime, NEW z \in -West .. East
    PROVE  t \div MonthLength \in Months /\ (t + z) \div MonthLength \in Months
<1> DEFINE last == LastTime + East
<1>1. /\ t \in Nat /\ t <= last /\ last \in Nat
      /\ t + z \in Nat /\ t + z <= last
      /\ MonthLength \in Nat \ {0}
    BY BudgetAssumption
<1>2. last \div MonthLength \in Nat
    BY <1>1, MonthsAreOrdered
<1>3. /\ t \div MonthLength \in Nat /\ t \div MonthLength <= last \div MonthLength
      /\ (t + z) \div MonthLength \in Nat
      /\ (t + z) \div MonthLength <= last \div MonthLength
    BY <1>1, MonthsAreOrdered
<1> QED
    BY <1>2, <1>3 DEF Months

\* Time only goes forward.
LEMMA TimeGoesOn ==
    ASSUME now \in West .. LastTime, zone \in -West .. East, Next
    PROVE  /\ now' \in West .. LastTime /\ zone' = zone
           /\ Utc <= Utc' /\ Local <= Local'
           /\ ~Tick => now' = now /\ Utc' = Utc /\ Local' = Local
<1>0. ~Tick => UNCHANGED <<now, zone>>
    BY DEF Next, Restart, Record, Step, Fail, Audit, Sum, Test, Message, Mark, Undone
<1>1. /\ zone' = zone
      /\ now' = now \/ (now < LastTime /\ now' = now + 1)
      /\ ~Tick => now' = now
    BY <1>0 DEF Tick
<1>2. now' \in West .. LastTime
    BY <1>1, BudgetAssumption
<1>a. West \in Nat /\ East \in Nat /\ LastTime \in Nat /\ MonthLength \in Nat \ {0}
    BY BudgetAssumption
<1>b. now <= now'
    BY <1>1, <1>a
<1>3. /\ now \in Nat /\ now' \in Nat /\ now <= now'
      /\ now + zone \in Nat /\ now' + zone \in Nat /\ now + zone <= now' + zone
      /\ MonthLength \in Nat \ {0}
    <2> DEFINE n == now'
    <2>1. n \in West .. LastTime /\ now <= n
        BY <1>2, <1>b
    <2> HIDE DEF n
    <2>2. now \in Nat /\ n \in Nat
        BY <1>a, <2>1
    <2>3. zone \in Int /\ zone >= -West /\ now >= West /\ n >= West
        BY <1>a, <2>1
    <2>4. now + zone \in Nat /\ n + zone \in Nat /\ now + zone <= n + zone
        BY <1>a, <2>1, <2>2, <2>3
    <2> QED
        BY <1>a, <2>1, <2>2, <2>4 DEF n
<1>4. /\ now \div MonthLength <= now' \div MonthLength
      /\ (now + zone) \div MonthLength <= (now' + zone) \div MonthLength
    BY <1>3, MonthsAreOrdered
<1> QED
    BY <1>1, <1>2, <1>4 DEF Utc, Local

-----------------------------------------------------------------------------
(* What a step does to the hooks                                            *)

LEMMA OneMoves ==
    ASSUME Typed, NEW c \in Calls, NEW q \in Hook, call' = [call EXCEPT ![c] = q]
    PROVE  /\ call' \in [Calls -> Hook] /\ call'[c] = q
           /\ \A d \in Calls \ {c} : call'[d] = call[d]
BY DEF Typed

LEMMA IdleTyped ==
    /\ Idle \in Hook /\ Idle.pc = "idle"
    /\ Idle.home = None /\ Idle.about = None /\ Idle.label = None
BY DEF Idle, Hook

\* c moves to the stage pc and keeps the rest, but for what is said of it.
Moves(c, pc) ==
    /\ call' \in [Calls -> Hook]
    /\ call'[c].pc = pc
    /\ \A d \in Calls \ {c} : call'[d] = call[d]
Ends(c) == Moves(c, "idle") /\ call'[c] = Idle

LEMMA HookSteps ==
    ASSUME IInv, NEW c \in Calls
    PROVE  /\ Record(c) => Moves(c, "audit") /\ call'[c].home = Local
           /\ Audit(c) => Moves(c, "sum") /\ call'[c].home = call[c].home
           /\ Sum(c) /\ Reached => /\ Moves(c, "test") /\ call'[c].home = call[c].home
                                   /\ call'[c].about = Local
           /\ Sum(c) /\ ~Reached => Ends(c)
           /\ Test(c) /\ Alerted => Ends(c)
           /\ Test(c) /\ ~Alerted => /\ Moves(c, "message") /\ call'[c].home = call[c].home
                                     /\ call'[c].about = call[c].about
                                     /\ call'[c].label = Utc
           /\ Message(c) => /\ Moves(c, "mark") /\ call'[c].home = call[c].home
                            /\ call'[c].about = call[c].about
                            /\ call'[c].label = call[c].label
           /\ Mark(c) => Ends(c)
<1>0. /\ Typed /\ call \in [Calls -> Hook] /\ call[c] \in Hook
      /\ Local \in Months /\ Utc \in Months
    BY InMonths DEF IInv, Typed, TypeOK, Utc, Local
<1>1. ASSUME NEW q \in Hook, call' = [call EXCEPT ![c] = q]
      PROVE  Moves(c, q.pc) /\ call'[c] = q
    BY <1>0, <1>1, OneMoves DEF Moves
<1>2. Record(c) => Moves(c, "audit") /\ call'[c].home = Local
    <2> DEFINE q == [Idle EXCEPT !.pc = "audit", !.home = Local]
    <2>1. q \in Hook /\ q.pc = "audit" /\ q.home = Local
        BY <1>0, IdleTyped DEF Hook
    <2>2. Record(c) => call' = [call EXCEPT ![c] = q]
        BY DEF Record
    <2> HIDE DEF q
    <2> QED
        BY <1>1, <2>1, <2>2
<1>3. Audit(c) => Moves(c, "sum") /\ call'[c].home = call[c].home
    BY <1>0 DEF Audit, Moves, Hook
<1>4. ASSUME Sum(c), Reached
      PROVE  Moves(c, "test") /\ call'[c].home = call[c].home /\ call'[c].about = Local
    <2> DEFINE q == [call[c] EXCEPT !.pc = "test", !.about = Local]
    <2>1. q \in Hook /\ q.pc = "test" /\ q.home = call[c].home /\ q.about = Local
        BY <1>0 DEF Hook
    <2>2. call' = [call EXCEPT ![c] = q]
        BY <1>0, <1>4 DEF Sum
    <2> HIDE DEF q
    <2> QED
        BY <1>1, <2>1, <2>2
<1>5. (Sum(c) /\ ~Reached) \/ (Test(c) /\ Alerted) \/ Mark(c) => Ends(c)
    <2>1. (Sum(c) /\ ~Reached) \/ (Test(c) /\ Alerted) \/ Mark(c)
              => call' = [call EXCEPT ![c] = Idle]
        BY DEF Sum, Test, Mark
    <2> QED
        BY <1>1, <2>1, IdleTyped DEF Ends
<1>6. Test(c) /\ ~Alerted =>
          /\ Moves(c, "message") /\ call'[c].home = call[c].home
          /\ call'[c].about = call[c].about /\ call'[c].label = Utc
    BY <1>0 DEF Test, Moves, Hook
<1>7. Message(c) =>
          /\ Moves(c, "mark") /\ call'[c].home = call[c].home
          /\ call'[c].about = call[c].about /\ call'[c].label = call[c].label
    BY <1>0 DEF Message, Moves, Hook
<1> QED
    BY <1>2, <1>3, <1>4, <1>5, <1>6, <1>7

\* The hooks that a failure or a restart ends.
LEMMA HooksUndone ==
    ASSUME IInv, NEW C, Undone(C)
    PROVE  /\ call' \in [Calls -> Hook]
           /\ \A d \in Calls : call'[d] = IF d \in C THEN Idle ELSE call[d]
BY IdleTyped DEF IInv, Typed, Undone

\* The steps of one hook, by their outcome.
OfOne(c) ==
    \/ Record(c)
    \/ Audit(c)
    \/ Sum(c) /\ Reached
    \/ Sum(c) /\ ~Reached
    \/ Test(c) /\ Alerted
    \/ Test(c) /\ ~Alerted
    \/ Message(c)
    \/ Mark(c)

LEMMA NextCases ==
    ASSUME IInv, Next
    PROVE  \/ Tick
           \/ \E c \in Calls : OfOne(c)
           \/ \E C \in SUBSET Calls : Undone(C)
BY DEF Next, Step, Fail, Restart, OfOne

-----------------------------------------------------------------------------
(* Types and times                                                          *)

LEMMA HooksTyped == ASSUME IInv, Next PROVE call' \in [Calls -> Hook]
<1>1. Tick => call' = call
    BY DEF Tick
<1> QED
    BY <1>1, NextCases, HookSteps, HooksUndone DEF Moves, Ends, OfOne, IInv, Typed

\* The messages only grow, by the one that is sent.
LEMMA AlertsGrow ==
    ASSUME IInv, Next
    PROVE  /\ alerts' \in Seq(Alert)
           /\ \/ UNCHANGED alerts /\ \A c \in Calls : ~Message(c)
              \/ \E c \in Calls :
                    /\ Message(c)
                    /\ DOMAIN alerts' = DOMAIN alerts \cup {Len(alerts) + 1}
                    /\ Len(alerts) + 1 \notin DOMAIN alerts
                    /\ \A i \in DOMAIN alerts : alerts'[i] = alerts[i]
                    /\ alerts'[Len(alerts) + 1].about = call[c].about
                    /\ alerts'[Len(alerts) + 1].label = call[c].label
<1>0. alerts \in Seq(Alert)
    BY DEF IInv, Typed
<1>1. ASSUME NEW c \in Calls, Message(c)
      PROVE  /\ alerts' \in Seq(Alert)
             /\ DOMAIN alerts' = DOMAIN alerts \cup {Len(alerts) + 1}
             /\ Len(alerts) + 1 \notin DOMAIN alerts
             /\ \A i \in DOMAIN alerts : alerts'[i] = alerts[i]
             /\ alerts'[Len(alerts) + 1].about = call[c].about
             /\ alerts'[Len(alerts) + 1].label = call[c].label
    <2> DEFINE a == [about |-> call[c].about, label |-> call[c].label]
    <2>1. a \in Alert
        BY <1>1 DEF IInv, TimesPassed, Past, Message, Alert
    <2>2. alerts' = Append(alerts, a)
        BY <1>1 DEF Message
    <2>3. a.about = call[c].about /\ a.label = call[c].label
        OBVIOUS
    <2> HIDE DEF a
    <2> QED
        BY <1>0, <2>1, <2>2, <2>3
<1>2. CASE \A c \in Calls : ~Message(c)
    BY <1>0, <1>2
       DEF Next, Tick, Restart, Record, Step, Fail, Audit, Sum, Test, Mark, Undone
<1> QED
    BY <1>1, <1>2

\* What is spent only grows, by the call that is recorded.
LEMMA SpentGrows ==
    ASSUME IInv, Next
    PROVE  /\ spent' \in [Months -> 0 .. MaxCalls]
           /\ \A m \in Months : spent'[m] >= spent[m] /\ spent'[m] <= calls'
           /\ \A m \in Months : spent'[m] # spent[m] =>
                 m = Local /\ \E c \in Calls : Record(c)
           /\ calls' \in 0 .. MaxCalls
<1>0. /\ spent \in [Months -> 0 .. MaxCalls] /\ Local \in Months
      /\ calls \in 0 .. MaxCalls /\ MaxCalls \in Nat
      /\ \A m \in Months : spent[m] <= calls
    BY InMonths, BudgetAssumption DEF IInv, TypeOK, Typed, Local
<1>1. ASSUME NEW c \in Calls, Record(c)
      PROVE  /\ spent' \in [Months -> 0 .. MaxCalls]
             /\ \A m \in Months : spent'[m] >= spent[m] /\ spent'[m] <= calls'
             /\ \A m \in Months : spent'[m] # spent[m] => m = Local
             /\ calls' \in 0 .. MaxCalls
    <2>1. /\ spent' = [spent EXCEPT ![Local] = @ + 1]
          /\ calls' = calls + 1 /\ calls < MaxCalls
        BY <1>1 DEF Record
    <2>2. \A m \in Months : spent'[m] = IF m = Local THEN spent[m] + 1 ELSE spent[m]
        BY <1>0, <2>1
    <2>3. \A m \in Months : spent'[m] \in 0 .. MaxCalls
        BY <1>0, <2>1, <2>2
    <2> QED
        BY <1>0, <2>1, <2>2, <2>3
<1>2. ASSUME \A c \in Calls : ~Record(c) PROVE UNCHANGED <<spent, calls>>
    BY <1>2 DEF Next, Tick, Restart, Step, Fail, Audit, Sum, Test, Message, Mark, Undone, Counts
<1> QED
    BY <1>0, <1>1, <1>2

LEMMA TypedKept == ASSUME IInv, Next PROVE Typed'
BY HooksTyped, AlertsGrow, SpentGrows DEF Typed

LEMMA TimesPassedKept == ASSUME IInv, Next PROVE TimesPassed'
<1>0. /\ now \in West .. LastTime /\ zone \in -West .. East
      /\ now' \in West .. LastTime /\ zone' \in -West .. East
      /\ Utc \in Months /\ Local \in Months /\ Utc' \in Months /\ Local' \in Months
      /\ Utc <= Utc' /\ Local <= Local'
      /\ Months \subseteq Nat
    <2>1. now \in West .. LastTime /\ zone \in -West .. East
        BY DEF IInv, TypeOK
    <2>2. /\ now' \in West .. LastTime /\ zone' \in -West .. East
          /\ Utc <= Utc' /\ Local <= Local'
        BY <2>1, TimeGoesOn
    <2>3. Utc \in Months /\ Local \in Months
        BY <2>1, InMonths DEF Utc, Local
    <2>4. Utc' \in Months /\ Local' \in Months
        BY <2>2, InMonths DEF Utc, Local
    <2> QED
        BY <2>1, <2>2, <2>3, <2>4, MonthsAreNumbers
<1>1. TimesPassed
    BY DEF IInv
<1>9. \A m \in Months : (m <= Local => m <= Local') /\ (m <= Utc => m <= Utc')
    <2>1. /\ Utc \in Nat /\ Utc' \in Nat /\ Utc <= Utc'
          /\ Local \in Nat /\ Local' \in Nat /\ Local <= Local'
          /\ \A m \in Months : m \in Nat
        BY <1>0
    <2> QED
        BY <2>1
<1>2. \A i \in DOMAIN alerts' : alerts'[i].label <= Utc'
    <2>0. \A i \in DOMAIN alerts : alerts[i] \in Alert
        <3>1. alerts \in Seq(Alert)
            BY DEF IInv, Typed
        <3> QED
            BY <3>1, ElementOfSeq, LenProperties
    <2>1. \A i \in DOMAIN alerts : alerts[i].label \in Months /\ alerts[i].label <= Utc
        BY <1>1, <2>0 DEF TimesPassed, Alert
    <2>2. \A i \in DOMAIN alerts : alerts[i].label <= Utc'
        BY <1>9, <2>1
    <2>3. \A c \in Calls : call[c].pc = "message" =>
              call[c].label \in Months /\ call[c].label <= Utc
        BY <1>1 DEF TimesPassed, Past
    <2>4. \A c \in Calls : call[c].pc = "message" => call[c].label <= Utc'
        BY <1>9, <2>3
    <2> QED
        BY <2>2, <2>4, AlertsGrow DEF Message
<1> DEFINE Passed(q) ==
    /\ q.pc # "idle" => q.home \in Months /\ q.home <= Local'
    /\ q.pc \in {"test", "message", "mark"} => q.about \in Months
    /\ q.pc \in {"message", "mark"} => q.label \in Months /\ q.label <= Utc'
<1>3. \A c \in Calls : Passed(call[c])
    BY <1>1, <1>9 DEF TimesPassed, Past
<1>4. Passed(Idle)
    BY IdleTyped
<1>5. \A c \in Calls : Passed(call'[c])
    <2>1. ASSUME NEW c \in Calls, OfOne(c)
          PROVE  \A d \in Calls : Passed(call'[d])
        <3>1. \A d \in Calls \ {c} : call'[d] = call[d]
            BY <2>1, HookSteps DEF Moves, Ends, OfOne
        <3>2. Utc' = Utc /\ Local' = Local
            BY <2>1 DEF Utc, Local, Record, Audit, Sum, Test, Message, Mark, OfOne
        <3>3. Passed(call'[c])
            <4>1. CASE Record(c)
                BY <1>0, <3>2, <4>1, HookSteps DEF Moves
            <4>2. CASE Audit(c) \/ (Sum(c) /\ Reached) \/ (Test(c) /\ ~Alerted) \/ Message(c)
                BY <1>0, <1>3, <3>2, <4>2, HookSteps DEF Moves, Audit, Sum, Test, Message
            <4>3. CASE (Sum(c) /\ ~Reached) \/ (Test(c) /\ Alerted) \/ Mark(c)
                BY <1>4, <4>3, HookSteps DEF Ends
            <4> QED
                BY <2>1, <4>1, <4>2, <4>3 DEF OfOne
        <3> QED
            BY <1>3, <3>1, <3>3
    <2>2. ASSUME NEW C, Undone(C) PROVE \A d \in Calls : Passed(call'[d])
        BY <1>3, <1>4, <2>2, HooksUndone
    <2>3. Tick => \A d \in Calls : Passed(call'[d])
        BY <1>3 DEF Tick
    <2> QED
        BY <2>1, <2>2, <2>3, NextCases
<1> QED
    BY <1>2, <1>5 DEF TimesPassed, Past

LEMMA TypeOKKept == ASSUME IInv, Next PROVE TypeOK'
<1>0. /\ now \in West .. LastTime /\ zone \in -West .. East
      /\ Months \subseteq Nat /\ None \notin Months /\ AlertAt \in Nat
      /\ \A c \in Calls : call[c] \in Hook
      /\ Typed /\ TimesPassed /\ TypeOK
    BY MonthsAreNumbers, BudgetAssumption DEF IInv, TypeOK, Typed
<1>1. /\ now' \in West .. LastTime /\ zone' = zone
      /\ Utc \in Months /\ Local \in Months
    BY <1>0, TimeGoesOn, InMonths DEF Utc, Local
<1>2. marker' \in Months \cup {None}
    BY <1>0 DEF Next, Tick, Restart, Record, Step, Fail, Audit, Sum, Test, Message, Mark,
                Undone, TimesPassed, Past, TypeOK
<1>3. \A i \in DOMAIN alerts' : alerts'[i].about \in Months /\ alerts'[i].label \in Months
    <2>1. \A i \in DOMAIN alerts' : alerts'[i] \in Alert
        BY AlertsGrow, ElementOfSeq, LenProperties
    <2> QED
        BY <2>1 DEF Alert
<1>4. /\ spent' \in [Months -> 0 .. MaxCalls] /\ calls' \in 0 .. MaxCalls
      /\ \A m \in Months : spent[m] >= AlertAt => spent'[m] >= AlertAt
    <2>1. \A m \in Months : spent[m] \in Int /\ spent'[m] \in Int /\ spent'[m] >= spent[m]
        BY SpentGrows DEF IInv, TypeOK
    <2> QED
        BY <1>0, <2>1, SpentGrows
<1>5. faults' \in 0 .. MaxFaults /\ restarts' \in 0 .. MaxRestarts
    <2>1. /\ faults' = faults \/ (faults < MaxFaults /\ faults' = faults + 1)
          /\ restarts' = restarts \/ (restarts < MaxRestarts /\ restarts' = restarts + 1)
        BY DEF Next, Tick, Restart, Record, Step, Fail, Audit, Sum, Test, Message, Mark, Counts
    <2> QED
        BY <1>0, <2>1, BudgetAssumption DEF TypeOK
<1>6. twice' \subseteq Months
    <2>1. ASSUME NEW C \in SUBSET Calls, Undone(C) PROVE twice' \subseteq Months
        BY <1>0, <2>1 DEF Undone, TypeOK, TimesPassed, Past
    <2>2. ASSUME NEW c \in Calls, Test(c) PROVE twice' \subseteq Months
        BY <1>0, <1>1, <2>2 DEF Test, TypeOK
    <2>3. ASSUME UNCHANGED twice PROVE twice' \subseteq Months
        BY <1>0, <2>3 DEF TypeOK
    <2> QED
        BY <2>1, <2>2, <2>3, NextCases
           DEF Tick, OfOne, Record, Audit, Sum, Message, Mark, History
<1>7. missed' \subseteq Months
    <2>1. ASSUME NEW C \in SUBSET Calls, Undone(C) PROVE missed' \subseteq Months
        <3>1. \A m \in missed' :
                  \/ m \in missed
                  \/ \E d \in Calls : call[d].pc \in {"audit", "sum"} /\ m = call[d].home
                  \/ \E d \in Calls : call[d].pc \in {"test", "message"} /\ m = call[d].about
            BY <2>1 DEF Undone
        <3>2. /\ missed \subseteq Months
              /\ \A d \in Calls : call[d].pc \in {"audit", "sum"} => call[d].home \in Months
              /\ \A d \in Calls : call[d].pc \in {"test", "message"} => call[d].about \in Months
            BY <1>0 DEF TypeOK, TimesPassed
        <3> QED
            BY <3>1, <3>2
    <2>2. ASSUME NEW c \in Calls, Record(c) \/ Sum(c) \/ Test(c) PROVE missed' \subseteq Months
        <3>1. /\ call[c].pc = "sum" => call[c].home \in Months
              /\ call[c].pc = "test" => call[c].about \in Months
              /\ missed \subseteq Months
            BY <1>0 DEF TimesPassed, TypeOK
        <3> QED
            BY <2>2, <3>1 DEF Record, Sum, Test
    <2>3. ASSUME UNCHANGED missed PROVE missed' \subseteq Months
        BY <1>0, <2>3 DEF TypeOK
    <2> QED
        BY <2>1, <2>2, <2>3, NextCases DEF Tick, OfOne, Audit, Message, Mark, History
<1> DEFINE Good(q) ==
    /\ q.pc = "idle" => q.home = None
    /\ q.pc \in {"test", "message", "mark"} =>
           q.home <= q.about /\ spent'[q.about] >= AlertAt
<1>8. \A c \in Calls : Good(call[c])
    BY <1>0, <1>4 DEF TypeOK, TimesPassed
<1>9. Good(Idle)
    BY IdleTyped
<1>10. \A c \in Calls : Good(call'[c])
    <2>1. ASSUME NEW c \in Calls, OfOne(c) PROVE \A d \in Calls : Good(call'[d])
        <3>1. \A d \in Calls \ {c} : call'[d] = call[d]
            BY <2>1, HookSteps DEF Moves, Ends, OfOne
        <3>2. Good(call'[c])
            <4>1. CASE Record(c) \/ Audit(c)
                BY <4>1, HookSteps DEF Moves
            <4>2. CASE Sum(c) /\ Reached
                <5>1. call[c].home <= Local
                    BY <1>0, <4>2 DEF TimesPassed, Sum
                <5>2. spent'[Local] >= AlertAt
                    BY <1>1, <1>4, <4>2 DEF Reached
                <5> QED
                    BY <4>2, <5>1, <5>2, HookSteps DEF Moves
            <4>3. CASE (Test(c) /\ ~Alerted) \/ Message(c)
                BY <1>8, <4>3, HookSteps DEF Moves, Test, Message
            <4>4. CASE (Sum(c) /\ ~Reached) \/ (Test(c) /\ Alerted) \/ Mark(c)
                BY <1>9, <4>4, HookSteps DEF Ends
            <4> QED
                BY <2>1, <4>1, <4>2, <4>3, <4>4 DEF OfOne
        <3> QED
            BY <1>8, <3>1, <3>2
    <2>2. ASSUME NEW C, Undone(C) PROVE \A d \in Calls : Good(call'[d])
        BY <1>8, <1>9, <2>2, HooksUndone
    <2>3. Tick => \A d \in Calls : Good(call'[d])
        BY <1>8 DEF Tick
    <2> QED
        BY <2>1, <2>2, <2>3, NextCases
<1>11. \A c \in Calls : /\ call'[c].pc \in {"idle", "audit", "sum", "test", "message", "mark"}
                        /\ call'[c].pc # "idle" => call'[c].home # None
    BY <1>0, HooksTyped, TimesPassedKept DEF Hook, TimesPassed
<1>12. \A c \in Calls : call'[c].pc = "idle" <=> call'[c].home = None
    BY <1>10, <1>11
<1> QED
    BY <1>0, <1>1, <1>2, <1>3, <1>4, <1>5, <1>6, <1>7, <1>10, <1>11, <1>12 DEF TypeOK

-----------------------------------------------------------------------------
(* Alerted once                                                             *)

\* A month that has been named stays so.
LEMMA NamesStay ==
    ASSUME IInv, Next
    PROVE  /\ \A m : Named(m) => NamedIn(alerts', m)
           /\ \A m : NamedIn(alerts', m) =>
                 Named(m) \/ \E c \in Calls : Message(c) /\ call[c].label = m
           /\ \A c \in Calls : Message(c) => NamedIn(alerts', call[c].label)
<1>1. \A c, d \in Calls : Message(c) /\ Message(d) => c = d
    <2> SUFFICES ASSUME NEW c \in Calls, NEW d \in Calls, Message(c), Message(d), c # d
                 PROVE  FALSE
        OBVIOUS
    <2>1. call'[c].pc = "mark" /\ call'[c] = call[c]
        BY HookSteps DEF Moves
    <2> QED
        BY <2>1 DEF Message
<1>2. CASE UNCHANGED alerts /\ \A c \in Calls : ~Message(c)
    BY <1>2 DEF Named, NamedIn
<1>3. ASSUME NEW c \in Calls, Message(c),
             DOMAIN alerts' = DOMAIN alerts \cup {Len(alerts) + 1},
             \A i \in DOMAIN alerts : alerts'[i] = alerts[i],
             alerts'[Len(alerts) + 1].label = call[c].label
      PROVE  /\ \A m : Named(m) => NamedIn(alerts', m)
             /\ \A m : NamedIn(alerts', m) => Named(m) \/ call[c].label = m
             /\ NamedIn(alerts', call[c].label)
    BY <1>3 DEF Named, NamedIn
<1> QED
    BY <1>1, <1>2, <1>3, AlertsGrow

LEMMA MarkerNamedKept == ASSUME IInv, Next PROVE MarkerNamed'
<1>0. MarkerNamed
    BY DEF IInv
<1>1. \A m : Named(m) => NamedIn(alerts', m)
    BY NamesStay
<1>2. marker' # None => NamedIn(alerts', marker')
    <2>1. marker' = marker \/ \E c \in Calls : call[c].pc = "mark" /\ marker' = call[c].label
        BY DEF Next, Tick, Restart, Record, Step, Fail, Audit, Sum, Test, Message, Mark, Undone
    <2> QED
        BY <1>0, <1>1, <2>1 DEF MarkerNamed
<1>3. \A d \in Calls : call'[d].pc = "mark" => NamedIn(alerts', call'[d].label)
    <2>1. ASSUME NEW c \in Calls, OfOne(c), NEW d \in Calls, call'[d].pc = "mark"
          PROVE  NamedIn(alerts', call'[d].label)
        <3>1. CASE d = c
            <4>1. Message(c) /\ call'[d].label = call[c].label
                BY <2>1, <3>1, HookSteps, IdleTyped DEF Moves, Ends, OfOne
            <4> QED
                BY <4>1, NamesStay
        <3>2. CASE d # c
            <4>1. call'[d] = call[d]
                BY <2>1, <3>2, HookSteps DEF Moves, Ends, OfOne
            <4> QED
                BY <1>0, <1>1, <2>1, <4>1 DEF MarkerNamed
        <3> QED
            BY <3>1, <3>2
    <2>2. ASSUME NEW C, Undone(C), NEW d \in Calls, call'[d].pc = "mark"
          PROVE  NamedIn(alerts', call'[d].label)
        BY <1>0, <1>1, <2>2, HooksUndone, IdleTyped DEF MarkerNamed
    <2>3. ASSUME Tick, NEW d \in Calls, call'[d].pc = "mark"
          PROVE  NamedIn(alerts', call'[d].label)
        BY <1>0, <1>1, <2>3 DEF MarkerNamed, Tick
    <2> QED
        BY <2>1, <2>2, <2>3, NextCases
<1> QED
    BY <1>2, <1>3 DEF MarkerNamed, Named

\* The exceptions only grow, and a hook that tests while another is past the
\* test, or ends before it has written the marker, makes one.
LEMMA TwiceGrows ==
    ASSUME IInv, Next
    PROVE  /\ twice \subseteq twice'
           /\ \A c \in Calls : Test(c) /\ ~Alerted /\ Past # {} => Utc \in twice'
           /\ \A C : Undone(C) => \A d \in C \cap Calls : call[d].pc = "mark" => call[d].label \in twice'
<1>1. twice \subseteq twice'
    BY DEF Next, Tick, Restart, Record, Step, Fail, Audit, Sum, Test, Message, Mark,
           Undone, History
<1> QED
    BY <1>1 DEF Test, Undone

\* No alert goes out under the name of a month that was alerted as it should be.
LEMMA SentOnce == ASSUME IInv, NEW c \in Calls, Message(c), call[c].label \notin twice
                  PROVE  ~Named(call[c].label)
BY DEF IInv, NotAgain, Sending, TimesPassed, Past, Message

LEMMA AlertedOnceKept == ASSUME IInv, Next PROVE AlertedOnce'
<1>0. AlertedOnce
    BY DEF IInv
<1>1. CASE UNCHANGED alerts
    BY <1>0, <1>1, TwiceGrows DEF AlertedOnce
<1>2. ASSUME NEW c \in Calls, Message(c),
             DOMAIN alerts' = DOMAIN alerts \cup {Len(alerts) + 1},
             \A i \in DOMAIN alerts : alerts'[i] = alerts[i],
             alerts'[Len(alerts) + 1].label = call[c].label
      PROVE  AlertedOnce'
    <2>1. call[c].label \notin twice => \A i \in DOMAIN alerts : alerts[i].label # call[c].label
        BY <1>2, SentOnce DEF Named, NamedIn
    <2> QED
        BY <1>0, <1>2, <2>1, TwiceGrows DEF AlertedOnce
<1> QED
    BY <1>1, <1>2, AlertsGrow

\* The hooks past the test, in one step.
LEMMA PastSteps ==
    ASSUME IInv, Next, NEW d \in Calls, call'[d].pc \in {"message", "mark"}
    PROVE  \/ /\ call'[d].pc = call[d].pc /\ call'[d].label = call[d].label
              /\ ~Mark(d) /\ ~Message(d)
              /\ \A C : Undone(C) => d \notin C
           \/ /\ Message(d) /\ call'[d].pc = "mark" /\ call'[d].label = call[d].label
           \/ /\ Test(d) /\ ~Alerted /\ call'[d].pc = "message" /\ call'[d].label = Utc
              /\ Utc' = Utc /\ UNCHANGED <<alerts, marker>>
              /\ Past # {} => Utc \in twice'
              /\ \A c \in Calls \ {d} : call'[c] = call[c]
<1> DEFINE Goal ==
    \/ /\ call'[d].pc = call[d].pc /\ call'[d].label = call[d].label
       /\ ~Mark(d) /\ ~Message(d)
       /\ \A C : Undone(C) => d \notin C
    \/ /\ Message(d) /\ call'[d].pc = "mark" /\ call'[d].label = call[d].label
    \/ /\ Test(d) /\ ~Alerted /\ call'[d].pc = "message" /\ call'[d].label = Utc
       /\ Utc' = Utc /\ UNCHANGED <<alerts, marker>>
       /\ Past # {} => Utc \in twice'
       /\ \A c \in Calls \ {d} : call'[c] = call[c]
<1>0. \A C : Undone(C) => d \notin C
    BY HooksUndone, IdleTyped
<1>1. ~Mark(d)
    BY HookSteps DEF Moves, Ends
<1>2. Message(d) => call'[d].pc = "mark" /\ call'[d].label = call[d].label
    BY HookSteps DEF Moves
<1>3. ASSUME NEW c \in Calls, OfOne(c) PROVE Goal
    <2>1. CASE d = c
        <3>1. Message(d) \/ (Test(d) /\ ~Alerted)
            BY <1>3, <2>1, HookSteps DEF Moves, Ends, OfOne
        <3>2. Test(d) /\ ~Alerted =>
                  /\ call'[d].pc = "message" /\ call'[d].label = Utc
                  /\ \A x \in Calls \ {d} : call'[x] = call[x]
            BY HookSteps DEF Moves
        <3>3. Test(d) => Utc' = Utc /\ UNCHANGED <<alerts, marker>>
            BY DEF Test, Utc
        <3> QED
            BY <1>2, <3>1, <3>2, <3>3, TwiceGrows
    <2>2. CASE d # c
        <3>1. call'[d] = call[d]
            BY <1>3, <2>2, HookSteps DEF Moves, Ends, OfOne
        <3> QED
            BY <1>0, <1>1, <1>2, <3>1
    <2> QED
        BY <2>1, <2>2
<1>4. ASSUME NEW C, Undone(C) PROVE Goal
    <2>1. call'[d] = call[d]
        BY <1>0, <1>4, HooksUndone
    <2> QED
        BY <1>0, <1>1, <1>2, <2>1
<1>5. ASSUME Tick PROVE Goal
    <2>1. call'[d] = call[d]
        BY <1>5 DEF Tick
    <2> QED
        BY <1>0, <1>1, <1>2, <2>1
<1> QED
    BY <1>3, <1>4, <1>5, NextCases

\* The months the hooks past the test and the messages bear are numbers.
LEMMA LabelsAreMonths ==
    ASSUME IInv
    PROVE  /\ Utc \in Months /\ Months \subseteq Nat
           /\ \A c \in Calls : call[c].pc \in {"message", "mark"} =>
                 call[c].label \in Months /\ call[c].label <= Utc
           /\ \A m \in Months : Named(m) => m <= Utc
<1>1. Utc \in Months /\ Months \subseteq Nat
    BY InMonths, MonthsAreNumbers, BudgetAssumption DEF IInv, TypeOK, Utc
<1>2. \A c \in Calls : call[c].pc \in {"message", "mark"} =>
          call[c].label \in Months /\ call[c].label <= Utc
    BY DEF IInv, TimesPassed, Past
<1>3. \A m \in Months : Named(m) => m <= Utc
    BY DEF IInv, TimesPassed, Named, NamedIn
<1> QED
    BY <1>1, <1>2, <1>3

LEMMA NotAgainKept == ASSUME IInv, Next PROVE NotAgain'
<1>0. NotAgain /\ Kept /\ twice \subseteq twice' /\ Utc \in Nat
    BY TwiceGrows, LabelsAreMonths DEF IInv
<1>1. ASSUME NEW m \in Months \ twice', NEW c \in Calls,
             call'[c].pc = "message", call'[c].label = m, NamedIn(alerts', m)
      PROVE  FALSE
    <2>1. CASE call[c].pc = "message" /\ call[c].label = m /\ ~Message(c)
        <3>1. ~Named(m) /\ \A d \in Calls : Sending(d, m) => d = c
            BY <1>0, <2>1 DEF NotAgain, Sending
        <3>2. \A d \in Calls : Message(d) /\ call[d].label = m => Sending(d, m)
            BY DEF Message, Sending
        <3> QED
            BY <1>1, <2>1, <3>1, <3>2, NamesStay
    <2>2. CASE /\ Test(c) /\ ~Alerted /\ m = Utc /\ UNCHANGED alerts
               /\ Past # {} => Utc \in twice'
        <3>1. Past = {}
            BY <2>2
        <3>2. Named(m)
            BY <1>1, <2>2 DEF Named
        <3>3. marker = m \/ Utc > m \/ \E d \in Calls : Marking(d, m)
            BY <1>0, <3>2 DEF Kept
        <3>4. \A d \in Calls : ~Marking(d, m)
            BY <3>1 DEF Past, Marking
        <3> QED
            BY <1>0, <2>2, <3>3, <3>4 DEF Alerted
    <2> QED
        BY <1>1, <2>1, <2>2, PastSteps
<1>2. ASSUME NEW m \in Months \ twice', NEW c \in Calls, NEW d \in Calls,
             call'[c].pc = "message", call'[c].label = m,
             call'[d].pc = "message", call'[d].label = m, c # d
      PROVE  FALSE
    <2>1. ~(Sending(c, m) /\ Sending(d, m))
        BY <1>0, <1>2 DEF NotAgain
    <2>2. /\ Sending(c, m) \/ (Test(c) /\ call'[d] = call[d] /\ (Past # {} => m \in twice'))
          /\ Sending(d, m) \/ (Test(d) /\ call'[c] = call[c] /\ (Past # {} => m \in twice'))
        BY <1>2, PastSteps DEF Sending
    <2>3. Sending(c, m) \/ Sending(d, m) => Past # {}
        BY DEF Sending, Past
    <2>4. ~(Test(c) /\ call'[c] = call[c]) /\ ~(Test(d) /\ call'[d] = call[d])
        BY <1>2 DEF Test
    <2> QED
        BY <2>1, <2>2, <2>3, <2>4
<1> QED
    BY <1>1, <1>2 DEF NotAgain, Sending, Named

LEMMA InOrderKept == ASSUME IInv, Next PROVE InOrder'
<1>0. InOrder /\ twice \subseteq twice'
    BY TwiceGrows DEF IInv
<1> SUFFICES ASSUME NEW c \in Calls, NEW d \in Calls,
                    call'[c].pc \in {"message", "mark"}, call'[d].pc \in {"message", "mark"},
                    call'[c].label < call'[d].label
             PROVE  call'[d].label \in twice'
    BY DEF InOrder, Past
<1> DEFINE Was(x) == call[x].pc \in {"message", "mark"} /\ call'[x].label = call[x].label
           New(x) == /\ Test(x) /\ call'[x].label = Utc /\ call'[x].pc = "message"
                     /\ Past # {} => Utc \in twice'
                     /\ \A y \in Calls \ {x} : call'[y] = call[y]
<1>1. \A x \in Calls : call'[x].pc \in {"message", "mark"} => Was(x) \/ New(x)
    BY PastSteps DEF Message
<1>2. CASE Was(c) /\ Was(d)
    BY <1>0, <1>2 DEF InOrder, Past
<1>3. CASE Was(c) /\ New(d)
    BY <1>3 DEF Past
<1>4. CASE New(c) /\ Was(d)
    BY <1>4, LabelsAreMonths
<1>5. CASE New(c) /\ New(d)
    <2>1. c = d
        BY <1>5 DEF Test
    <2> QED
        BY <1>5, <2>1, LabelsAreMonths
<1> QED
    BY <1>1, <1>2, <1>3, <1>4, <1>5

LEMMA KeptKept == ASSUME IInv, Next PROVE Kept'
<1>0. /\ Kept /\ InOrder /\ twice \subseteq twice'
      /\ Months \subseteq Nat /\ Utc \in Nat /\ Utc' \in Int /\ Utc <= Utc'
    <2>1. now' \in West .. LastTime /\ zone' \in -West .. East /\ Utc <= Utc'
        BY TimeGoesOn DEF IInv, TypeOK
    <2> QED
        BY <2>1, TwiceGrows, LabelsAreMonths, InMonths, MonthsAreNumbers DEF IInv, Utc
<1> SUFFICES ASSUME NEW m \in Months \ twice', NamedIn(alerts', m)
             PROVE  /\ marker' = m \/ Utc' > m \/ \E c \in Calls : Marking(c, m)'
                    /\ \A c \in Calls : call'[c].pc \in {"message", "mark"} => call'[c].label >= m
    BY DEF Kept, Named, Past
<1>1. ASSUME Named(m)
      PROVE  marker' = m \/ Utc' > m \/ \E c \in Calls : Marking(c, m)'
    <2>1. CASE Utc > m
        BY <1>0, <2>1
    <2>2. CASE marker = m
        <3>1. marker' = marker \/ \E c \in Calls : Mark(c) /\ marker' = call[c].label
            BY DEF Next, Tick, Restart, Record, Step, Fail, Audit, Sum, Test, Message, Mark, Undone
        <3>2. \A c \in Calls : Mark(c) => /\ call[c].label \in Months
                                          /\ call[c].label >= m /\ call[c].label <= Utc
            BY <1>0, <1>1, LabelsAreMonths DEF Kept, Past, Mark
        <3>3. \A l \in Months : l >= m /\ l <= Utc => l = m \/ Utc' > m
            <4> DEFINE later == Utc'
            <4>1. later \in Int /\ Utc <= later
                BY <1>0
            <4> HIDE DEF later
            <4>2. \A l \in Months : l >= m /\ l <= Utc => l = m \/ later > m
                BY <1>0, <4>1
            <4> QED
                BY <4>2 DEF later
        <3> QED
            BY <2>2, <3>1, <3>2, <3>3
    <2>3. ASSUME NEW c \in Calls, Marking(c, m)
          PROVE  marker' = m \/ \E d \in Calls : Marking(d, m)'
        <3>1. ASSUME NEW d \in Calls, OfOne(d) PROVE marker' = m \/ Marking(c, m)'
            <4>1. CASE c = d
                <5>1. Mark(c)
                    BY <2>3, <3>1, <4>1
                       DEF OfOne, Record, Audit, Sum, Test, Message, Marking
                <5> QED
                    BY <2>3, <5>1 DEF Mark, Marking
            <4>2. CASE c # d
                <5>1. call'[c] = call[c]
                    BY <3>1, <4>2, HookSteps DEF Moves, Ends, OfOne
                <5> QED
                    BY <2>3, <5>1 DEF Marking
            <4> QED
                BY <4>1, <4>2
        <3>2. ASSUME NEW C, Undone(C) PROVE Marking(c, m)'
            <4>1. c \notin C
                BY <2>3, <3>2, TwiceGrows DEF Marking
            <4> QED
                BY <2>3, <3>2, <4>1, HooksUndone DEF Marking
        <3>3. Tick => Marking(c, m)'
            BY <2>3 DEF Tick, Marking
        <3> QED
            BY <3>1, <3>2, <3>3, NextCases
    <2>4. marker = m \/ Utc > m \/ \E c \in Calls : Marking(c, m)
        BY <1>0, <1>1 DEF Kept
    <2> QED
        BY <2>1, <2>2, <2>3, <2>4
<1>2. ASSUME NEW d \in Calls, Message(d), call[d].label = m
      PROVE  Marking(d, m)'
    BY <1>2, HookSteps DEF Moves, Marking
<1>3. ASSUME NEW c \in Calls, call'[c].pc \in {"message", "mark"}
      PROVE  call'[c].label >= m
    <2>1. CASE call[c].pc \in {"message", "mark"} /\ call'[c].label = call[c].label
        <3>1. call[c].label \in Nat
            BY <2>1, LabelsAreMonths
        <3>2. CASE Named(m)
            BY <1>0, <2>1, <3>2 DEF Kept, Past
        <3>3. ASSUME NEW d \in Calls, Message(d), call[d].label = m
              PROVE  call[c].label >= m
            <4>1. call[c].label < m => m \in twice
                BY <1>0, <2>1, <3>3 DEF InOrder, Past, Message
            <4> QED
                BY <1>0, <3>1, <4>1
        <3> QED
            BY <2>1, <3>2, <3>3, NamesStay
    <2>2. CASE call'[c].label = Utc /\ UNCHANGED alerts
        <3>1. Named(m)
            BY <2>2 DEF Named
        <3> QED
            BY <1>0, <2>2, <3>1, LabelsAreMonths
    <2> QED
        BY <1>3, <2>1, <2>2, PastSteps DEF Message
<1> QED
    BY <1>1, <1>2, <1>3, NamesStay

-----------------------------------------------------------------------------
(* Alerted at all                                                           *)

LEMMA AccountedKept == ASSUME IInv, Next PROVE Accounted'
<1>0. Accounted
    BY DEF IInv
<1> SUFFICES ASSUME NEW m \in Months, spent'[m] >= AlertAt
             PROVE  m \in missed' \/ Told(m)' \/ AtWork(m)'
    BY DEF Accounted
<1> DEFINE Goal == m \in missed' \/ Told(m)' \/ AtWork(m)'
           Doing(q) == \/ q.pc \in {"audit", "sum"} /\ q.home = m
                       \/ q.pc \in {"test", "message"} /\ q.about = m
<1>1. Told(m) => Told(m)'
    BY AlertsGrow DEF Told
<1>2. \A c \in Calls : Doing(call'[c]) => AtWork(m)'
    BY DEF AtWork
<1>3. spent'[m] = spent[m] => m \in missed \/ Told(m) \/ \E c \in Calls : Doing(call[c])
    BY <1>0 DEF Accounted, AtWork
\* What one hook does, if the hook itself is what accounted for the month.
<1>4. ASSUME NEW c \in Calls, \A d \in Calls \ {c} : call'[d] = call[d],
             spent'[m] = spent[m], m \in missed => m \in missed',
             Doing(call[c]) => Goal
      PROVE  Goal
    BY <1>1, <1>2, <1>3, <1>4
<1>5. ASSUME NEW c \in Calls, Record(c) PROVE Goal
    <2>1. Moves(c, "audit") /\ call'[c].home = Local
        BY <1>5, HookSteps
    <2>2. CASE m = Local
        BY <1>2, <2>1, <2>2 DEF Moves
    <2>3. CASE m # Local
        <3>1. spent'[m] = spent[m]
            BY <2>3, SpentGrows
        <3>2. m \in missed => m \in missed'
            BY <1>5, <2>3 DEF Record
        <3>3. ~Doing(call[c])
            BY <1>5 DEF Record
        <3> QED
            BY <1>4, <2>1, <3>1, <3>2, <3>3 DEF Moves
    <2> QED
        BY <2>2, <2>3
<1>6. ASSUME NEW c \in Calls, OfOne(c), ~Record(c) PROVE Goal
    <2>1. \A d \in Calls \ {c} : call'[d] = call[d]
        BY <1>6, HookSteps DEF Moves, Ends, OfOne
    <2>2. UNCHANGED spent
        BY <1>6 DEF OfOne, Audit, Sum, Test, Message, Mark
    <2>3. missed \subseteq missed'
        BY <1>6 DEF OfOne, Audit, Sum, Test, Message, Mark, History
    <2>4. Doing(call[c]) => Goal
        <3>1. CASE Audit(c)
            BY <1>2, <3>1, HookSteps DEF Audit, Moves
        <3>2. CASE Sum(c) /\ Reached
            BY <1>2, <3>2, HookSteps DEF Sum, Moves
        <3>3. CASE Sum(c) /\ ~Reached
            <4>1. m # Local
                <5>1. CASE m = Local
                    BY <2>2, <3>3, <5>1 DEF Reached
                <5> QED
                    BY <5>1
            <4> QED
                BY <3>3, <4>1 DEF Sum
        <3>4. CASE Test(c) /\ Alerted
            <4> SUFFICES ASSUME call[c].about = m PROVE Goal
                BY <3>4 DEF Test
            <4>1. PICK i \in DOMAIN alerts : alerts[i].label = Utc
                <5>1. Utc # None
                    BY LabelsAreMonths, MonthsAreNumbers
                <5> QED
                    BY <3>4, <5>1 DEF Alerted, IInv, MarkerNamed, Named, NamedIn
            <4>2. CASE alerts[i].about = m
                BY <1>1, <4>2 DEF Told
            <4>3. CASE alerts[i].about # m
                BY <3>4, <4>1, <4>3 DEF Test, NameTaken
            <4> QED
                BY <4>2, <4>3
        <3>5. CASE Test(c) /\ ~Alerted
            BY <1>2, <3>5, HookSteps DEF Test, Moves
        <3>6. CASE Message(c)
            <4>1. \E i \in DOMAIN alerts' : alerts'[i].about = call[c].about
                <5>1. alerts \in Seq(Alert)
                    BY DEF IInv, Typed
                <5> QED
                    BY <3>6, <5>1 DEF Message
            <4> QED
                BY <3>6, <4>1 DEF Told, Message
        <3>7. CASE Mark(c)
            BY <3>7 DEF Mark
        <3> QED
            BY <1>6, <3>1, <3>2, <3>3, <3>4, <3>5, <3>6, <3>7 DEF OfOne
    <2> QED
        BY <1>4, <2>1, <2>2, <2>3, <2>4
<1>7. ASSUME NEW C, Undone(C) PROVE Goal
    <2>1. UNCHANGED spent /\ missed \subseteq missed'
        BY <1>7 DEF Undone
    <2>2. \A c \in Calls : Doing(call[c]) => m \in missed' \/ Doing(call'[c])
        <3> SUFFICES ASSUME NEW c \in Calls, Doing(call[c]), c \in C PROVE m \in missed'
            BY <1>7, HooksUndone
        <3> QED
            BY <1>7 DEF Undone
    <2> QED
        BY <1>1, <1>2, <1>3, <2>1, <2>2
<1>8. ASSUME Tick PROVE Goal
    BY <1>0, <1>8 DEF Tick, History, Accounted, AtWork, Told
<1> QED
    BY <1>5, <1>6, <1>7, <1>8, NextCases

-----------------------------------------------------------------------------
(* The theorems                                                             *)

LEMMA InitHolds == ASSUME Init PROVE IInv
<1>1. /\ now = West /\ zone \in -West .. East
      /\ spent \in [Months -> 0 .. MaxCalls] /\ \A m \in Months : spent[m] = 0
      /\ marker = None /\ alerts = <<>> /\ twice = {} /\ missed = {}
      /\ calls = 0 /\ faults = 0 /\ restarts = 0
    BY BudgetAssumption DEF Init
<1>2. call \in [Calls -> Hook] /\ \A c \in Calls : call[c] = Idle
    BY IdleTyped DEF Init
<1>3. alerts \in Seq(Alert) /\ DOMAIN alerts = {}
    BY <1>1
<1>4. \A c \in Calls : call[c].pc = "idle" /\ call[c].home = None
    BY <1>2, IdleTyped
<1>5. TypeOK
    <2>1. now \in West .. LastTime /\ 0 \in 0 .. MaxCalls /\ 0 \in 0 .. MaxFaults
          /\ 0 \in 0 .. MaxRestarts
        BY <1>1, BudgetAssumption
    <2> QED
        BY <1>1, <1>3, <1>4, <2>1 DEF TypeOK
<1>6. Typed /\ TimesPassed /\ MarkerNamed /\ AlertedOnce
    BY <1>1, <1>2, <1>3, <1>4
       DEF Typed, TimesPassed, MarkerNamed, AlertedOnce, Past
<1>7. NotAgain /\ InOrder /\ Kept
    BY <1>3, <1>4 DEF NotAgain, InOrder, Kept, Sending, Past, Named, NamedIn
<1>8. Accounted
    BY <1>1, BudgetAssumption DEF Accounted
<1> QED
    BY <1>5, <1>6, <1>7, <1>8 DEF IInv

\* Every month at the threshold is told, excepted or worked on, and the marker
\* of one alerted as it should be is not lost before the month is over.
THEOREM BudgetInvariant == Spec => []IInv
<1>1. Init => IInv
    BY InitHolds
<1>2. ASSUME IInv, [Next]_vars PROVE IInv'
    <2>1. CASE Next
        BY <1>2, <2>1, TypeOKKept, TypedKept, TimesPassedKept, MarkerNamedKept, AlertedOnceKept,
           NotAgainKept, InOrderKept, KeptKept, AccountedKept DEF IInv
    <2>2. CASE UNCHANGED vars
        <3>1. UNCHANGED <<now, zone, spent, marker, alerts, call, calls, faults, restarts,
                          twice, missed>>
            BY <2>2 DEF vars, Counts, History
        <3>2. TypeOK' /\ Typed' /\ TimesPassed' /\ MarkerNamed' /\ AlertedOnce'
            BY <1>2, <3>1 DEF IInv, TypeOK, Typed, TimesPassed, MarkerNamed, AlertedOnce, Local,
                        Utc, Past, Named, NamedIn
        <3>3. NotAgain' /\ InOrder' /\ Kept' /\ Accounted'
            BY <1>2, <3>1 DEF IInv, NotAgain, InOrder, Kept, Accounted, Utc, Past, Named, NamedIn,
                        Sending, Marking, Told, AtWork
        <3> QED
            BY <3>2, <3>3 DEF IInv
    <2> QED
        BY <1>2, <2>1, <2>2
<1> QED
    BY <1>1, <1>2, PTL DEF Spec

\* Each month that reaches the threshold is alerted once and no more, but in the
\* cases that were recorded, however hooks, months and zones interleave.
THEOREM AlertsAreSound == Spec => []AlertsSound
<1>1. IInv => MonthIsAlerted
    BY DEF IInv, Accounted, MonthIsAlerted, AtWork, Told
<1>2. IInv => AlertsSound
    BY <1>1 DEF IInv, AlertsSound
<1> QED
    BY <1>2, BudgetInvariant, PTL
=============================================================================
