-------------------------- MODULE ChatStreamsProofs --------------------------
(***************************************************************************)
(* Proofs about chat streams, for any number of messages, connections,     *)
(* rounds, tool calls and failures.                                        *)
(*                                                                         *)
(* A stretch of a handler ends in Leave, whatever it did: so there is one  *)
(* lemma on what Leave keeps, given what is true of the run it leaves, and *)
(* each action shows that of its own run (RunFine, Heeds).                 *)
(***************************************************************************)
EXTENDS ChatStreams, FiniteSetTheorems, TLAPS

\* The tool calls there may have been after n rounds of the loop.
Room(n) == n * ToolsPerTurn

\* A run by itself: how many tools it has begun, and that what reports an end
\* has nothing held back.
RunFine(x) ==
    /\ x \in Runs
    /\ x.stage \in {"idle", "preparing", "ended"} => x.begun = 0
    /\ x.stage \in {"idle", "preparing"} => x.round = 0 /\ x.left = 0
    /\ x.stage = "idle" => x.delayed = {}
    /\ x.stage = "model" => x.round > 0 /\ x.begun + ToolsPerTurn <= Room(x.round)
    /\ x.stage = "tool" => x.begun > 0 /\ x.begun + x.left <= Room(x.round)
    /\ x.stage = "ended" /\ x.verdict # "error" => x.delayed = {}

RunsFine == \A r \in Requests : RunFine(run[r])

\* Messages are numbered as they come.
InOrder ==
    \A q, r \in Requests : q < r /\ run[r].stage # "idle" => run[q].stage # "idle"

\* The last client that was told of a stream has it, while it runs, unless a
\* closed connection has taken it since.
Heard ==
    \A s \in Sockets : \A r \in told[s] :
        owner[r] = s => r \in strayed \/ (Running(r) /\ proxy[r] = s)

\* The tools a run may have begun before it looks for a cancel again.
Spent(x) == x.begun + IF x.stage \in {"preparing", "model"} THEN 1 ELSE 0

CancelHeeded ==
    latest # Nobody /\ Running(latest) /\ allowed # NoCancel =>
        byRequestId[latest].cancelRequested /\ Spent(run[latest]) <= allowed

\* Nothing follows the reply, and no cancel is reported after it but for a
\* failure.
RepliesLast ==
    \A r \in stored : /\ run[r].stage \in {"settling", "ended"}
                      /\ run[r].verdict = "cancelled" => r \in faulted

IInv ==
    /\ TypeOK /\ RunsFine /\ InOrder
    /\ LatestIsRegistered /\ Heard
    /\ CancelHeeded /\ RepliesLast

-----------------------------------------------------------------------------
(* Numbers                                                                  *)

LEMMA Rooms ==
    /\ ToolsPerTurn \in Nat /\ MaxRounds \in Nat \ {0}
    /\ \A n \in Nat : Room(n) \in Nat /\ Room(n + 1) = Room(n) + ToolsPerTurn
    /\ \A n \in 0 .. MaxRounds : Room(n) <= Room(MaxRounds)
    /\ Room(0) = 0
<1>1. ToolsPerTurn \in Nat /\ MaxRounds \in Nat \ {0}
    BY StreamsAssumption
<1>2. \A n \in Nat : Room(n) \in Nat /\ Room(n + 1) = Room(n) + ToolsPerTurn
    BY <1>1 DEF Room
<1>3. ASSUME NEW n \in 0 .. MaxRounds PROVE Room(n) <= Room(MaxRounds)
    <2>1. PICK k \in Nat : MaxRounds = n + k
        <3>1. MaxRounds - n \in Nat /\ MaxRounds = n + (MaxRounds - n)
            BY <1>1
        <3> QED
            BY <3>1
    <2>2. (n + k) * ToolsPerTurn = n * ToolsPerTurn + k * ToolsPerTurn
        BY <1>1, <2>1
    <2>3. k * ToolsPerTurn \in Nat /\ n * ToolsPerTurn \in Nat
        BY <1>1, <2>1
    <2> QED
        BY <2>1, <2>2, <2>3 DEF Room
<1>4. Room(0) = 0
    BY <1>1 DEF Room
<1> QED
    BY <1>1, <1>2, <1>3, <1>4

LEMMA CallsAre ==
    /\ Calls = 1 .. Room(MaxRounds) + 1 /\ NoCancel = Room(MaxRounds) + 2
    /\ Room(MaxRounds) \in Nat
    /\ \A n \in {0} \cup Calls : n \in Nat /\ n < NoCancel
<1>1. Room(MaxRounds) \in Nat /\ Calls = 1 .. Room(MaxRounds) + 1
    BY Rooms DEF Calls, Room
<1>2. Cardinality(1 .. Room(MaxRounds) + 1) = Room(MaxRounds) + 1
    BY <1>1, FS_Interval
<1>3. NoCancel = Room(MaxRounds) + 2
    BY <1>1, <1>2 DEF NoCancel
<1> QED
    BY <1>1, <1>3

LEMMA RequestsAre ==
    /\ MaxRequests \in Nat /\ Requests = 1 .. MaxRequests /\ IsFiniteSet(Requests)
    /\ Nobody \notin Requests /\ Nobody \notin Sockets
BY StreamsAssumption, FS_Interval DEF Requests, Sockets, Nobody

\* The next number is one no message has had, and the next after those.
LEMMA NextIsNew ==
    ASSUME InOrder, NEW r \in Requests, r = NextRequest
    PROVE  /\ run[r].stage = "idle"
           /\ \A q \in Requests : q < r <=> run[q].stage # "idle"
<1> DEFINE Made == {q \in Requests : run[q].stage # "idle"}
<1>1. /\ IsFiniteSet(Made) /\ Cardinality(Made) \in Nat /\ r = Cardinality(Made) + 1
    BY RequestsAre, FS_Subset, FS_CardinalityType DEF NextRequest
<1>2. ASSUME run[r].stage # "idle" PROVE FALSE
    <2>1. 1 .. r \subseteq Made
        BY <1>2, RequestsAre DEF InOrder
    <2>2. Cardinality(1 .. r) = r
        BY <1>1, FS_Interval
    <2>3. Cardinality(1 .. r) <= Cardinality(Made)
        BY <1>1, <2>1, FS_Subset
    <2> QED
        BY <1>1, <2>2, <2>3
<1>3. ASSUME NEW q \in Requests, q < r, run[q].stage = "idle" PROVE FALSE
    <2>1. Made \subseteq 1 .. q - 1
        BY <1>3, RequestsAre DEF InOrder
    <2>2. q - 1 \in Nat /\ Cardinality(1 .. q - 1) = q - 1 /\ IsFiniteSet(1 .. q - 1)
        BY RequestsAre, FS_Interval
    <2>3. Cardinality(Made) <= q - 1
        BY <2>1, <2>2, FS_Subset
    <2> QED
        BY <1>1, <1>3, <2>2, <2>3, RequestsAre
<1>4. ASSUME NEW q \in Requests, ~(q < r) PROVE run[q].stage = "idle"
    <2>1. q = r \/ r < q
        BY <1>4, RequestsAre
    <2> QED
        BY <1>2, <2>1 DEF InOrder
<1> QED
    BY <1>2, <1>3, <1>4

-----------------------------------------------------------------------------
(* How a run is left                                                        *)

Verdicts == {"none", "completed", "cancelled", "error"}

\* Where a stretch that is not cut short by a cancel leads is free; one that
\* is begins no tool it was not about to begin.
Obeys(x, old) == x.stage = "ended" \/ Spent(x) <= Spent(old)

LEMMA RunTyped ==
    ASSUME NEW x \in Runs
    PROVE  /\ x.round \in 0 .. MaxRounds /\ x.left \in 0 .. ToolsPerTurn
           /\ x.begun \in {0} \cup Calls /\ x.begun \in Nat /\ x.round \in Nat /\ x.left \in Nat
           /\ x.delayed \subseteq Calls /\ x.aborted \in BOOLEAN /\ x.verdict \in Verdicts
           /\ Spent(x) \in Nat /\ x.begun <= Spent(x) /\ x.begun < NoCancel
           /\ Spent(x) <= NoCancel
<1>1. /\ x.round \in 0 .. MaxRounds /\ x.left \in 0 .. ToolsPerTurn
      /\ x.begun \in {0} \cup Calls /\ x.delayed \subseteq Calls
      /\ x.aborted \in BOOLEAN /\ x.verdict \in Verdicts
    BY DEF Runs, Verdicts
<1>2. x.begun \in Nat /\ x.begun < NoCancel /\ NoCancel \in Nat
    BY <1>1, CallsAre
<1> QED
    BY <1>1, <1>2, StreamsAssumption DEF Spent

LEMMA NewRunFine ==
    /\ NewRun \in Runs /\ RunFine(NewRun) /\ NewRun.stage = "idle" /\ NewRun.begun = 0
    /\ NewRun.delayed = {}
BY StreamsAssumption DEF NewRun, Runs, RunFine

LEMMA EndsFine ==
    ASSUME NEW x \in Runs, NEW v \in Verdicts
    PROVE  /\ Ended(x, v) \in Runs
           /\ Ended(x, v).stage = "ended" /\ Ended(x, v).verdict = v
           /\ Ended(x, v).delayed = x.delayed
           /\ v = "error" \/ x.delayed = {} => RunFine(Ended(x, v))
           /\ RunFine(Finish(x, v)) /\ Finish(x, v).verdict = v
           /\ Finish(x, v).stage \in {"settling", "ended"}
           /\ Obeys(Finish(x, v), x)
<1>1. x.delayed \subseteq Calls
    BY RunTyped
<1> DEFINE n == Ended(x, v)
           m == [x EXCEPT !.stage = "settling", !.verdict = v]
<1>2. /\ n \in Runs /\ n.stage = "ended" /\ n.verdict = v /\ n.delayed = x.delayed
      /\ n.begun = 0 /\ n.round = 0 /\ n.left = 0
    <2>1. NewRun \in Runs /\ NewRun.begun = 0 /\ NewRun.round = 0 /\ NewRun.left = 0
        BY NewRunFine DEF NewRun
    <2>2. n = [NewRun EXCEPT !.stage = "ended", !.verdict = v, !.delayed = x.delayed]
        BY DEF Ended
    <2> HIDE DEF n
    <2> QED
        BY <1>1, <2>1, <2>2 DEF Runs, Verdicts
<1>3. /\ m \in Runs /\ m.stage = "settling" /\ m.verdict = v /\ m.begun = x.begun
    BY DEF Runs, Verdicts
<1>4. Finish(x, v) = IF x.delayed = {} \/ v = "error" THEN n ELSE m
    BY DEF Finish
<1>5. n = Ended(x, v)
    OBVIOUS
<1> HIDE DEF n, m
<1>6. v = "error" \/ x.delayed = {} => RunFine(n)
    BY <1>2 DEF RunFine
<1>7. RunFine(m) /\ Spent(m) <= Spent(x)
    BY <1>3, RunTyped DEF RunFine, Spent
<1> QED
    BY <1>2, <1>3, <1>4, <1>5, <1>6, <1>7 DEF Obeys

LEMMA ToStoreFine ==
    ASSUME NEW x \in Runs
    PROVE  /\ RunFine(ToStore(x)) /\ ToStore(x).stage = "storing" /\ Obeys(ToStore(x), x)
           /\ ToStore(x).begun = x.begun
<1> DEFINE n == ToStore(x)
<1>1. n \in Runs /\ n.stage = "storing" /\ n.begun = x.begun
    <2>1. 0 \in 0 .. ToolsPerTurn
        BY StreamsAssumption
    <2> QED
        BY <2>1 DEF ToStore, Runs
<1>2. n = ToStore(x)
    OBVIOUS
<1> HIDE DEF n
<1>3. RunFine(n) /\ Spent(n) <= Spent(x)
    BY <1>1, RunTyped DEF RunFine, Spent
<1> QED
    BY <1>1, <1>2, <1>3 DEF Obeys

LEMMA ToToolFine ==
    ASSUME NEW x \in Runs, NEW n \in 1 .. ToolsPerTurn, x.begun + n <= Room(x.round)
    PROVE  /\ RunFine(ToTool(x, n)) /\ ToTool(x, n).stage = "tool"
           /\ Spent(ToTool(x, n)) = x.begun + 1
<1> DEFINE begun == x.begun + 1
           left == n - 1
           m == [x EXCEPT !.stage = "tool", !.begun = begun, !.left = left]
<1>1. /\ x.begun \in Nat /\ x.round \in 0 .. MaxRounds /\ x.round \in Nat
      /\ Room(x.round) \in Nat /\ Room(x.round) <= Room(MaxRounds)
      /\ Room(MaxRounds) \in Nat /\ n \in Nat /\ n > 0 /\ ToolsPerTurn \in Nat
    BY RunTyped, Rooms
<1>2. begun \in Calls /\ left \in 0 .. ToolsPerTurn /\ begun + left = x.begun + n /\ begun > 0
    BY <1>1, CallsAre
<1>3. ToTool(x, n) = m
    BY DEF ToTool
<1>4. begun = x.begun + 1
    OBVIOUS
<1> HIDE DEF begun, left
<1>5. /\ m \in Runs /\ m.stage = "tool" /\ m.begun = begun /\ m.left = left
      /\ m.round = x.round
    BY <1>2 DEF Runs
<1> HIDE DEF m
<1>6. RunFine(m)
    BY <1>2, <1>5 DEF RunFine
<1>7. Spent(m) = x.begun + 1
    BY <1>1, <1>4, <1>5 DEF Spent
<1> QED
    BY <1>3, <1>5, <1>6, <1>7

LEMMA NextRoundFine ==
    ASSUME NEW x \in Runs, NEW e, x.begun <= Room(x.round)
    PROVE  /\ RunFine(NextRound(x, e))
           /\ NextRound(x, e).stage \in {"storing", "settling", "ended", "model"}
           /\ Stopped(x, e) => Obeys(NextRound(x, e), x)
<1>1. CASE x.round = MaxRounds
    BY <1>1, ToStoreFine DEF NextRound
<1>2. CASE x.round # MaxRounds /\ Stopped(x, e)
    <2>1. NextRound(x, e) = Finish(x, "cancelled")
        BY <1>2 DEF NextRound
    <2> QED
        BY <2>1, EndsFine DEF Verdicts
<1>3. CASE x.round # MaxRounds /\ ~Stopped(x, e)
    <2> DEFINE round == x.round + 1
               m == [x EXCEPT !.stage = "model", !.round = round]
    <2>0. x.begun \in Nat /\ x.round \in Nat /\ x.round \in 0 .. MaxRounds
        BY RunTyped
    <2>1. /\ ToolsPerTurn \in Nat /\ round \in 0 .. MaxRounds /\ round > 0
          /\ Room(x.round) \in Nat /\ Room(round) = Room(x.round) + ToolsPerTurn
        <3>1. ToolsPerTurn \in Nat /\ round \in 0 .. MaxRounds /\ round > 0
            BY <1>3, <2>0, StreamsAssumption
        <3>2. Room(x.round) \in Nat /\ Room(round) = Room(x.round) + ToolsPerTurn
            BY <2>0, Rooms
        <3> QED
            BY <3>1, <3>2
    <2>2. NextRound(x, e) = m
        BY <1>3 DEF NextRound
    <2> HIDE DEF round
    <2>3. m \in Runs /\ m.stage = "model" /\ m.round = round /\ m.begun = x.begun
        BY <2>1 DEF Runs
    <2> HIDE DEF m
    <2>4. RunFine(m)
        BY <2>0, <2>1, <2>3 DEF RunFine
    <2> QED
        BY <1>3, <2>2, <2>3, <2>4
<1> QED
    BY <1>1, <1>2, <1>3

LEMMA AfterToolFine ==
    ASSUME NEW x \in Runs, NEW e, x.begun + x.left <= Room(x.round)
    PROVE  /\ RunFine(AfterTool(x, e))
           /\ AfterTool(x, e).stage \in {"storing", "settling", "ended", "model", "tool"}
           /\ Stopped(x, e) => Obeys(AfterTool(x, e), x)
<1>0. x.begun \in Nat /\ x.left \in Nat /\ x.left \in 0 .. ToolsPerTurn /\ ToolsPerTurn \in Nat
      /\ x.round \in Nat /\ Room(x.round) \in Nat
    BY RunTyped, Rooms
<1>1. CASE Stopped(x, e)
    <2>1. AfterTool(x, e) = Finish(x, "cancelled")
        BY <1>1 DEF AfterTool
    <2> QED
        BY <2>1, EndsFine DEF Verdicts
<1>2. CASE ~Stopped(x, e) /\ x.left > 0
    <2>1. AfterTool(x, e) = ToTool(x, x.left) /\ x.left \in 1 .. ToolsPerTurn
        BY <1>0, <1>2 DEF AfterTool
    <2> QED
        BY <1>2, <2>1, ToToolFine
<1>3. CASE ~Stopped(x, e) /\ ~(x.left > 0)
    <2>1. AfterTool(x, e) = NextRound(x, e) /\ x.begun <= Room(x.round)
        BY <1>0, <1>3 DEF AfterTool
    <2> QED
        BY <1>3, <2>1, NextRoundFine
<1> QED
    BY <1>1, <1>2, <1>3

-----------------------------------------------------------------------------
(* What the end of a stretch keeps                                          *)

\* All of the invariant but for the replies.
Core ==
    /\ byAgentId \in Requests \cup {Nobody}
    /\ byRequestId \in [Requests -> Entries \cup {NoEntry}]
    /\ run \in [Requests -> Runs]
    /\ proxy \in [Requests -> Sockets \cup {Nobody}]
    /\ line \in [Sockets -> {"off", "opening", "open", "lost", "closed"}]
    /\ told \in [Sockets -> SUBSET Requests]
    /\ latest \in Requests \cup {Nobody}
    /\ allowed \in 0 .. NoCancel
    /\ owner \in [Requests -> Sockets \cup {Nobody}] /\ strayed \subseteq Requests
    /\ RunsFine /\ InOrder
    /\ LatestIsRegistered /\ Heard
    /\ CancelHeeded

LEMMA CoreAndReplies ==
    IInv <=> Core /\ stored \subseteq Requests /\ faulted \subseteq Requests /\ RepliesLast
BY DEF IInv, Core, TypeOK

\* The entry, but for the call it names.
EntryLike(e, o) ==
    e \in Entries \cup {NoEntry} /\ e.there = o.there /\ e.cancelRequested = o.cancelRequested

LEMMA NoEntryIs ==
    ~NoEntry.there /\ ~NoEntry.cancelRequested /\ NoEntry.activeToolCallId = 0
BY DEF NoEntry

LEMMA BegunLike ==
    ASSUME NEW x \in Runs, NEW e, NEW o, EntryLike(e, o)
    PROVE  EntryLike(Begun(x, e), o)
<1>1. x.begun \in {0} \cup Calls
    BY RunTyped
<1>2. CASE x.stage = "tool" /\ e.there
    <2>1. e \in Entries
        BY <1>2, NoEntryIs DEF EntryLike
    <2> DEFINE n == [e EXCEPT !.activeToolCallId = x.begun]
    <2>2. n \in Entries /\ n.there = e.there /\ n.cancelRequested = e.cancelRequested
        BY <1>1, <2>1 DEF Entries
    <2>3. Begun(x, e) = n
        BY <1>2 DEF Begun
    <2> HIDE DEF n
    <2> QED
        BY <2>2, <2>3 DEF EntryLike
<1>3. CASE ~(x.stage = "tool" /\ e.there)
    BY <1>3 DEF Begun
<1> QED
    BY <1>2, <1>3

LEMMA LeaveKeeps ==
    ASSUME Core, NEW r \in Requests, NEW x, NEW e, Leave(r, x, e),
           RunFine(x), x.stage # "idle", run[r].stage # "idle",
           Running(r) \/ x.stage = "ended", EntryLike(e, byRequestId[r]),
           byRequestId[r].cancelRequested => Obeys(x, run[r])
    PROVE  Core'
<1>0. /\ x \in Runs /\ run \in [Requests -> Runs] /\ run' = [run EXCEPT ![r] = x]
      /\ run'[r] = x /\ \A q \in Requests \ {r} : run'[q] = run[q]
      /\ byRequestId \in [Requests -> Entries \cup {NoEntry}]
      /\ UNCHANGED <<proxy, line, latest, owner, strayed>>
      /\ proxy \in [Requests -> Sockets \cup {Nobody}]
      /\ told \in [Sockets -> SUBSET Requests]
      /\ byAgentId \in Requests \cup {Nobody} /\ latest \in Requests \cup {Nobody}
      /\ allowed \in 0 .. NoCancel /\ NoCancel \in Nat
    BY CallsAre DEF Core, Leave, RunFine
<1>1. run' \in [Requests -> Runs] /\ RunsFine'
    BY <1>0 DEF Core, RunsFine
<1>2. InOrder'
    BY <1>0 DEF Core, InOrder
<1>3. allowed' \in 0 .. NoCancel
    BY <1>0 DEF Leave
<1>4. EntryLike(Begun(x, e), byRequestId[r])
    BY <1>0, BegunLike
<1>5. NoEntry \in Entries \cup {NoEntry} /\ ~NoEntry.there
    BY NoEntryIs
<1> DEFINE L == IF latest # Nobody /\ Running(latest) THEN latest ELSE Nobody
<1>6. /\ byAgentId = L
      /\ \A q \in Requests : byRequestId[q].there <=> q = L
    BY DEF Core, LatestIsRegistered
<1>7. CASE x.stage = "ended" /\ Running(r)
    <2>1. /\ byRequestId' = [byRequestId EXCEPT ![r] = NoEntry]
          /\ byAgentId' = IF Registered(r) THEN Nobody ELSE byAgentId
          /\ told' = [told EXCEPT ![proxy[r]] = @ \ {r}]
        BY <1>7 DEF Leave
    <2>2. /\ byRequestId' \in [Requests -> Entries \cup {NoEntry}]
          /\ byAgentId' \in Requests \cup {Nobody} /\ told' \in [Sockets -> SUBSET Requests]
        BY <1>0, <1>5, <2>1
    <2>3. LatestIsRegistered'
        <3>1. ~Running(r)'
            BY <1>0, <1>7 DEF Running
        <3>2. \A q \in Requests \ {r} : Running(q)' <=> Running(q)
            BY <1>0 DEF Running
        <3>3. /\ ~byRequestId'[r].there
              /\ \A q \in Requests \ {r} : byRequestId'[q].there <=> byRequestId[q].there
            BY <1>0, <1>5, <2>1
        <3>4. CASE latest = r
            <4>1. L = r /\ byRequestId[r].there /\ r # Nobody
                BY <1>6, <1>7, <3>4, RequestsAre
            <4>2. byAgentId' = Nobody
                BY <2>1, <4>1 DEF Registered
            <4>3. \A q \in Requests : ~byRequestId'[q].there
                BY <1>6, <3>3, <4>1
            <4> QED
                BY <1>0, <3>1, <3>4, <4>2, <4>3, RequestsAre DEF LatestIsRegistered
        <3>5. CASE latest # r
            <4>1. ~byRequestId[r].there
                BY <1>6, <3>5, RequestsAre
            <4>2. byAgentId' = byAgentId
                BY <2>1, <4>1 DEF Registered
            <4>3. latest' = latest /\ (latest # Nobody => (Running(latest)' <=> Running(latest)))
                BY <1>0, <3>2, <3>5 DEF Running
            <4>4. \A q \in Requests : byRequestId'[q].there <=> q = L
                BY <1>6, <3>3, <4>1
            <4> QED
                BY <1>6, <4>2, <4>3, <4>4 DEF LatestIsRegistered
        <3> QED
            BY <3>4, <3>5
    <2>4. Heard'
        <3> SUFFICES ASSUME NEW s \in Sockets, NEW q \in told'[s], owner[q] = s, q \notin strayed
                     PROVE  Running(q)' /\ proxy[q] = s
            BY <1>0 DEF Heard
        <3>1. q \in told[s] /\ q \in Requests
            BY <1>0, <2>1
        <3>2. Running(q) /\ proxy[q] = s
            BY <3>1 DEF Core, Heard
        <3>3. q # r
            BY <1>0, <2>1, <3>2
        <3> QED
            BY <1>0, <3>1, <3>2, <3>3 DEF Running
    <2>5. CancelHeeded'
        <3>1. CASE latest = r
            BY <1>0, <1>7, <3>1 DEF CancelHeeded, Running
        <3>2. CASE latest # r /\ latest # Nobody
            <4>1. /\ allowed' = allowed /\ run'[latest] = run[latest]
                  /\ byRequestId'[latest] = byRequestId[latest]
                BY <1>0, <2>1, <3>2 DEF Leave
            <4> QED
                BY <1>0, <4>1 DEF Core, CancelHeeded, Running, Spent
        <3> QED
            BY <1>0, <3>1, <3>2 DEF CancelHeeded
    <2> QED
        BY <1>0, <1>1, <1>2, <1>3, <2>2, <2>3, <2>4, <2>5 DEF Core
<1>8. CASE ~(x.stage = "ended" /\ Running(r))
    <2>1. /\ byRequestId' = [byRequestId EXCEPT ![r] = Begun(x, e)]
          /\ byAgentId' = byAgentId /\ told' = told
        BY <1>8 DEF Leave
    <2>2. byRequestId' \in [Requests -> Entries \cup {NoEntry}]
        BY <1>0, <1>4, <2>1 DEF EntryLike
    <2>3. \A q \in Requests : Running(q)' <=> Running(q)
        BY <1>0, <1>8 DEF Running
    <2>4. \A q \in Requests : /\ byRequestId'[q].there = byRequestId[q].there
                              /\ byRequestId'[q].cancelRequested = byRequestId[q].cancelRequested
        BY <1>0, <1>4, <2>1 DEF EntryLike
    <2>5. LatestIsRegistered'
        <3>1. latest' = latest /\ (latest # Nobody => (Running(latest)' <=> Running(latest)))
            BY <1>0, <2>3 DEF Running
        <3> QED
            BY <1>6, <2>1, <2>4, <3>1 DEF LatestIsRegistered
    <2>6. Heard'
        BY <1>0, <2>1, <2>3 DEF Core, Heard
    <2>7. CancelHeeded'
        <3> SUFFICES ASSUME latest # Nobody, Running(latest)', allowed' # NoCancel
                     PROVE  byRequestId'[latest].cancelRequested /\ Spent(run'[latest]) <= allowed'
            BY <1>0 DEF CancelHeeded, Running
        <3>1. latest \in Requests /\ Running(latest)
            BY <1>0, <2>3 DEF Running
        <3>2. CASE latest # r
            <4>1. allowed' = allowed /\ run'[latest] = run[latest]
                BY <1>0, <3>1, <3>2 DEF Leave
            <4> QED
                BY <2>4, <3>1, <4>1 DEF Core, CancelHeeded
        <3>3. CASE latest = r
            <4>1. x.stage # "ended" /\ allowed' = allowed
                BY <1>0, <3>1, <3>3, <1>8 DEF Leave
            <4>2. byRequestId[r].cancelRequested /\ Spent(run[r]) <= allowed
                BY <3>1, <3>3, <4>1 DEF Core, CancelHeeded
            <4>3. Spent(x) <= Spent(run[r])
                BY <4>1, <4>2 DEF Obeys
            <4>4. Spent(x) \in Nat /\ Spent(run[r]) \in Nat
                BY <1>0, RunTyped
            <4>5. Spent(x) <= allowed
                BY <1>0, <4>2, <4>3, <4>4
            <4> QED
                BY <1>0, <2>4, <3>3, <4>1, <4>2, <4>5
        <3> QED
            BY <3>2, <3>3
    <2> QED
        BY <1>0, <1>1, <1>2, <1>3, <2>1, <2>2, <2>5, <2>6, <2>7 DEF Core
<1> QED
    BY <1>7, <1>8

-----------------------------------------------------------------------------
(* Steps of a message                                                       *)

\* A stretch that stores no reply and fails no call.
LEMMA StretchKeeps ==
    ASSUME IInv, NEW r \in Requests, NEW x, NEW e, Leave(r, x, e),
           RunFine(x), x.stage # "idle", run[r].stage # "idle",
           Running(r) \/ x.stage = "ended", EntryLike(e, byRequestId[r]),
           byRequestId[r].cancelRequested => Obeys(x, run[r]),
           UNCHANGED <<stored, faulted>>,
           r \in stored => x.stage \in {"settling", "ended"} /\ x.verdict = run[r].verdict
    PROVE  IInv'
<1>1. Core /\ stored \subseteq Requests /\ faulted \subseteq Requests /\ RepliesLast
    BY CoreAndReplies
<1>2. Core'
    BY <1>1, LeaveKeeps
<1>3. run'[r] = x /\ \A q \in Requests \ {r} : run'[q] = run[q]
    BY <1>1 DEF Core, Leave
<1>4. RepliesLast'
    BY <1>1, <1>3 DEF RepliesLast
<1>5. Core' /\ stored' \subseteq Requests /\ faulted' \subseteq Requests /\ RepliesLast'
    BY <1>1, <1>2, <1>4
<1> QED
    BY <1>5, CoreAndReplies DEF IInv, Core, TypeOK

LEMMA OfRun ==
    ASSUME IInv, NEW r \in Requests
    PROVE  /\ run[r] \in Runs /\ RunFine(run[r])
           /\ byRequestId[r] \in Entries \cup {NoEntry}
           /\ EntryLike(byRequestId[r], byRequestId[r])
           /\ \A c : EntryLike(Completed(r, c), byRequestId[r])
           /\ \A c : Signalled(r, c) \in BOOLEAN
           /\ run[r].stage \notin {"settling", "ended"} => r \notin stored
<1>1. run[r] \in Runs /\ RunFine(run[r]) /\ byRequestId[r] \in Entries \cup {NoEntry}
    BY DEF IInv, TypeOK, RunsFine
<1>2. ASSUME NEW c PROVE EntryLike(Completed(r, c), byRequestId[r])
    <2>1. CASE Completes(r, c)
        <3>1. byRequestId[r] \in Entries
            BY <1>1, <2>1, NoEntryIs DEF Completes
        <3> DEFINE n == [byRequestId[r] EXCEPT !.activeToolCallId = 0]
        <3>2. /\ n \in Entries /\ n.there = byRequestId[r].there
              /\ n.cancelRequested = byRequestId[r].cancelRequested
            BY <3>1 DEF Entries
        <3>3. Completed(r, c) = n
            BY <2>1 DEF Completed
        <3> HIDE DEF n
        <3> QED
            BY <3>2, <3>3 DEF EntryLike
    <2>2. CASE ~Completes(r, c)
        BY <1>1, <2>2 DEF Completed, EntryLike
    <2> QED
        BY <2>1, <2>2
<1>3. ASSUME NEW c PROVE Signalled(r, c) \in BOOLEAN
    BY DEF Signalled
<1>4. run[r].stage \notin {"settling", "ended"} => r \notin stored
    BY DEF IInv, RepliesLast
<1> QED
    BY <1>1, <1>2, <1>3, <1>4 DEF EntryLike

LEMMA PrepareKeeps ==
    ASSUME IInv, NEW r \in Requests, PrepareEnds(r)
    PROVE  IInv'
<1> DEFINE old == run[r]
           e == byRequestId[r]
           m == [run[r] EXCEPT !.stage = "command", !.begun = 1]
<1>1. /\ old.stage = "preparing" /\ UNCHANGED <<stored, faulted>>
      /\ \/ Leave(r, NextRound(old, e), e) \/ Leave(r, m, e) \/ Leave(r, ToStore(old), e)
    BY DEF PrepareEnds
<1>2. /\ old \in Runs /\ old.begun = 0 /\ old.round = 0 /\ r \notin stored
      /\ Running(r) /\ EntryLike(e, byRequestId[r])
    BY <1>1, OfRun DEF RunFine, Running
<1>3. CASE Leave(r, NextRound(old, e), e)
    <2>1. old.begun <= Room(old.round)
        BY <1>2, Rooms
    <2>2. /\ RunFine(NextRound(old, e)) /\ NextRound(old, e).stage # "idle"
          /\ Stopped(old, e) => Obeys(NextRound(old, e), old)
        BY <1>2, <2>1, NextRoundFine
    <2>3. byRequestId[r].cancelRequested => Stopped(old, e)
        BY DEF Stopped
    <2> QED
        BY <1>1, <1>2, <1>3, <2>2, <2>3, StretchKeeps
<1>4. CASE Leave(r, m, e)
    <2>1. 1 \in Calls
        BY CallsAre
    <2>2. m \in Runs /\ m.stage = "command" /\ m.begun = 1
        BY <1>2, <2>1 DEF Runs
    <2> HIDE DEF m
    <2>3. RunFine(m)
        BY <2>2 DEF RunFine
    <2>4. Spent(m) <= Spent(old)
        BY <1>1, <1>2, <2>2 DEF Spent
    <2> QED
        BY <1>1, <1>2, <1>4, <2>2, <2>3, <2>4, StretchKeeps DEF Obeys
<1>5. CASE Leave(r, ToStore(old), e)
    BY <1>1, <1>2, <1>5, ToStoreFine, StretchKeeps
<1> QED
    BY <1>1, <1>3, <1>4, <1>5

LEMMA CommandKeeps ==
    ASSUME IInv, NEW r \in Requests, CommandEnds(r)
    PROVE  IInv'
<1>1. /\ run[r].stage = "command" /\ UNCHANGED <<stored, faulted>>
      /\ Leave(r, ToStore(run[r]), byRequestId[r])
    BY DEF CommandEnds
<1>2. run[r] \in Runs /\ r \notin stored /\ Running(r) /\ EntryLike(byRequestId[r], byRequestId[r])
    BY <1>1, OfRun DEF Running
<1> QED
    BY <1>1, <1>2, ToStoreFine, StretchKeeps

LEMMA AnswerKeeps ==
    ASSUME IInv, NEW r \in Requests, NEW n \in 0 .. ToolsPerTurn, ModelAnswers(r, n)
    PROVE  IInv'
<1> DEFINE old == run[r]
           e == byRequestId[r]
<1>1. /\ old.stage = "model" /\ UNCHANGED <<stored, faulted>>
      /\ Leave(r, IF n = 0 THEN ToStore(old) ELSE ToTool(old, n), e)
    BY DEF ModelAnswers
<1>2. /\ old \in Runs /\ r \notin stored /\ Running(r) /\ EntryLike(e, byRequestId[r])
      /\ old.begun + ToolsPerTurn <= Room(old.round)
    BY <1>1, OfRun DEF RunFine, Running
<1>3. CASE n = 0
    BY <1>1, <1>2, <1>3, ToStoreFine, StretchKeeps
<1>4. CASE n # 0
    <2>1. n \in 1 .. ToolsPerTurn /\ n <= ToolsPerTurn /\ n \in Nat
        BY <1>4, StreamsAssumption
    <2>2. old.begun \in Nat /\ Room(old.round) \in Nat
        BY <1>2, RunTyped, Rooms
    <2>3. old.begun + n <= Room(old.round)
        BY <1>2, <2>1, <2>2, StreamsAssumption
    <2>4. /\ RunFine(ToTool(old, n)) /\ ToTool(old, n).stage = "tool"
          /\ Spent(ToTool(old, n)) = old.begun + 1
        BY <1>2, <2>1, <2>3, ToToolFine
    <2>5. Obeys(ToTool(old, n), old)
        BY <1>1, <2>2, <2>4 DEF Obeys, Spent
    <2>6. Leave(r, ToTool(old, n), e)
        BY <1>1, <1>4
    <2> QED
        BY <1>1, <1>2, <2>4, <2>5, <2>6, StretchKeeps
<1> QED
    BY <1>3, <1>4

LEMMA AbortKeeps ==
    ASSUME IInv, NEW r \in Requests, ModelAborts(r)
    PROVE  IInv'
<1>1. /\ run[r].stage = "model" /\ UNCHANGED <<stored, faulted>>
      /\ Leave(r, Finish(run[r], "cancelled"), byRequestId[r])
    BY DEF ModelAborts
<1>2. run[r] \in Runs /\ r \notin stored /\ Running(r) /\ EntryLike(byRequestId[r], byRequestId[r])
    BY <1>1, OfRun DEF Running
<1>3. /\ RunFine(Finish(run[r], "cancelled")) /\ Obeys(Finish(run[r], "cancelled"), run[r])
      /\ Finish(run[r], "cancelled").stage # "idle"
    BY <1>2, EndsFine DEF Verdicts
<1> QED
    BY <1>1, <1>2, <1>3, StretchKeeps

LEMMA ToolKeeps ==
    ASSUME IInv, NEW r \in Requests, NEW slow \in BOOLEAN, NEW halt \in BOOLEAN,
           ToolEnds(r, slow, halt)
    PROVE  IInv'
<1> DEFINE old == run[r]
           c == old.begun
           e == IF slow THEN Completed(r, c) ELSE byRequestId[r]
           aborted == IF slow THEN Signalled(r, c) ELSE old.aborted
           delayed == IF slow THEN old.delayed ELSE old.delayed \cup {c}
           x == [old EXCEPT !.aborted = aborted, !.delayed = delayed]
           y == IF halt THEN ToStore(x) ELSE AfterTool(x, e)
<1>1. old.stage = "tool" /\ UNCHANGED <<stored, faulted>>
    BY DEF ToolEnds
<1>2. /\ old \in Runs /\ r \notin stored /\ Running(r) /\ EntryLike(e, byRequestId[r])
      /\ c > 0 /\ old.begun + old.left <= Room(old.round)
      /\ aborted \in BOOLEAN /\ old.begun \in {0} \cup Calls /\ old.delayed \subseteq Calls
    BY <1>1, OfRun, RunTyped DEF RunFine, Running
<1>3. delayed \subseteq Calls
    BY <1>2
<1>4. Leave(r, y, e)
    <2>1. CASE slow
        <3>1. Leave(r, IF halt THEN ToStore([run[r] EXCEPT !.aborted = Signalled(r, run[r].begun)])
                       ELSE AfterTool([run[r] EXCEPT !.aborted = Signalled(r, run[r].begun)],
                                      Completed(r, run[r].begun)),
                    Completed(r, run[r].begun))
            BY <2>1 DEF ToolEnds
        <3>2. x = [run[r] EXCEPT !.aborted = Signalled(r, run[r].begun)]
            BY <1>2, <2>1 DEF Runs
        <3> QED
            BY <2>1, <3>1, <3>2
    <2>2. CASE ~slow
        <3>1. Leave(r, IF halt THEN ToStore([run[r] EXCEPT !.delayed = @ \cup {run[r].begun}])
                       ELSE AfterTool([run[r] EXCEPT !.delayed = @ \cup {run[r].begun}],
                                      byRequestId[r]),
                    byRequestId[r])
            BY <2>2 DEF ToolEnds
        <3>2. x = [run[r] EXCEPT !.delayed = @ \cup {run[r].begun}]
            BY <1>2, <2>2 DEF Runs
        <3> QED
            BY <2>2, <3>1, <3>2
    <2> QED
        BY <2>1, <2>2
<1> HIDE DEF aborted, delayed, e
<1>5. /\ x \in Runs /\ x.begun = old.begun /\ x.left = old.left /\ x.round = old.round
      /\ x.stage = old.stage
    BY <1>2, <1>3 DEF Runs
<1> HIDE DEF x
<1>6. Spent(x) = Spent(old)
    BY <1>5 DEF Spent
<1>7. /\ RunFine(y) /\ y.stage # "idle"
      /\ Stopped(x, e) => Obeys(y, x)
    <2>1. CASE halt
        BY <1>5, <2>1, ToStoreFine
    <2>2. CASE ~halt
        BY <1>2, <1>5, <2>2, AfterToolFine
    <2> QED
        BY <2>1, <2>2
<1> HIDE DEF y
<1>8. byRequestId[r].cancelRequested => Obeys(y, old)
    BY <1>2, <1>6, <1>7 DEF Stopped, EntryLike, Obeys
<1> QED
    BY <1>1, <1>2, <1>4, <1>7, <1>8, StretchKeeps

LEMMA TimerKeeps ==
    ASSUME IInv, NEW r \in Requests, NEW c \in Calls, TimerFires(r, c)
    PROVE  IInv'
<1> DEFINE old == run[r]
           e == Completed(r, c)
           aborted == Signalled(r, c)
           delayed == old.delayed \ {c}
           x == [old EXCEPT !.delayed = delayed, !.aborted = aborted]
           y == Settled(x)
<1>1. c \in old.delayed /\ UNCHANGED <<stored, faulted>> /\ Leave(r, y, e)
    BY DEF TimerFires
<1>2. /\ old \in Runs /\ RunFine(old) /\ EntryLike(e, byRequestId[r])
      /\ aborted \in BOOLEAN /\ delayed \subseteq Calls
      /\ old.stage # "idle"
      /\ r \in stored => old.stage \in {"settling", "ended"}
    BY <1>1, OfRun, RunTyped DEF RunFine
<1>3. delayed \subseteq old.delayed
    OBVIOUS
<1> HIDE DEF aborted, delayed, e
<1>4. /\ x \in Runs /\ x.begun = old.begun /\ x.left = old.left /\ x.round = old.round
      /\ x.stage = old.stage /\ x.verdict = old.verdict /\ x.delayed = delayed
    BY <1>2 DEF Runs
<1>5. x.verdict \in Verdicts
    BY <1>4, RunTyped
<1> HIDE DEF x
<1>6. CASE x.stage = "settling" /\ x.delayed = {}
    <2>1. y = Ended(x, x.verdict)
        BY <1>6 DEF Settled
    <2>2. RunFine(y) /\ y.stage = "ended" /\ y.verdict = old.verdict
        BY <1>4, <1>5, <1>6, <2>1, EndsFine
    <2> HIDE DEF y
    <2> QED
        BY <1>1, <1>2, <2>2, StretchKeeps DEF Obeys
<1>7. CASE ~(x.stage = "settling" /\ x.delayed = {})
    <2>1. y = x
        BY <1>7 DEF Settled
    <2>2. RunFine(x)
        BY <1>1, <1>2, <1>4 DEF RunFine
    <2>3. Spent(x) = Spent(old) /\ Spent(x) \in Nat
        BY <1>4, RunTyped DEF Spent
    <2>4. Running(r) \/ x.stage = "ended"
        BY <1>2, <1>4 DEF Running
    <2> HIDE DEF y
    <2> QED
        BY <1>1, <1>2, <1>4, <2>1, <2>2, <2>3, <2>4, StretchKeeps DEF Obeys
<1> QED
    BY <1>6, <1>7

\* A stretch that ends in Finish, and the reply and the failure it leaves.
LEMMA FinishKeeps ==
    ASSUME IInv, NEW r \in Requests, NEW v \in Verdicts, Running(r),
           Leave(r, Finish(run[r], v), byRequestId[r]),
           stored' \subseteq stored \cup {r}, faulted' \subseteq Requests,
           faulted \subseteq faulted', r \in stored' /\ v = "cancelled" => r \in faulted'
    PROVE  IInv'
<1> DEFINE x == Finish(run[r], v)
<1>1. Core /\ stored \subseteq Requests /\ faulted \subseteq Requests /\ RepliesLast
    BY CoreAndReplies
<1>2. /\ RunFine(x) /\ x.verdict = v /\ x.stage \in {"settling", "ended"} /\ Obeys(x, run[r])
      /\ run[r].stage # "idle" /\ EntryLike(byRequestId[r], byRequestId[r])
    BY OfRun, EndsFine DEF Running
<1>3. Leave(r, x, byRequestId[r])
    OBVIOUS
<1> HIDE DEF x
<1>4. Core'
    BY <1>1, <1>2, <1>3, LeaveKeeps
<1>5. run'[r] = x /\ \A q \in Requests \ {r} : run'[q] = run[q]
    BY <1>1, <1>3 DEF Core, Leave
<1>6. RepliesLast'
    BY <1>1, <1>2, <1>5 DEF RepliesLast
<1>7. Core' /\ stored' \subseteq Requests /\ faulted' \subseteq Requests /\ RepliesLast'
    BY <1>1, <1>4, <1>6
<1> QED
    BY <1>7, CoreAndReplies DEF IInv, Core, TypeOK

LEMMA EndingsKeep ==
    ASSUME IInv, NEW r \in Requests, Stored(r) \/ Fails(r)
    PROVE  IInv'
<1>0. faulted \subseteq Requests /\ stored \subseteq Requests
    BY DEF IInv, TypeOK
<1>1. CASE Stored(r)
    <2>1. /\ Running(r) /\ Leave(r, Finish(run[r], "completed"), byRequestId[r])
          /\ stored' = stored \cup {r} /\ faulted' = faulted
        BY <1>1 DEF Stored, Outcome, Running
    <2> QED
        BY <1>0, <2>1, FinishKeeps DEF Verdicts
<1>2. CASE Fails(r)
    <2>1. /\ Running(r) /\ Leave(r, Finish(run[r], Caught(r)), byRequestId[r])
          /\ stored' \subseteq stored \cup {r} /\ faulted' = faulted \cup {r}
        BY <1>2 DEF Fails, Running
    <2>2. Caught(r) \in Verdicts
        BY DEF Caught, Verdicts
    <2> QED
        BY <1>0, <2>1, <2>2, FinishKeeps
<1> QED
    BY <1>1, <1>2

-----------------------------------------------------------------------------
(* Connections, messages and cancels                                        *)

LEMMA RegisteredRuns ==
    ASSUME IInv
    PROVE  /\ byAgentId # Nobody => /\ byAgentId = latest /\ latest \in Requests
                                    /\ Running(latest) /\ byRequestId[latest] \in Entries
           /\ \A q \in Requests : byRequestId[q].there <=> (byAgentId # Nobody /\ q = byAgentId)
<1> DEFINE L == IF latest # Nobody /\ Running(latest) THEN latest ELSE Nobody
<1>1. byAgentId = L /\ \A q \in Requests : byRequestId[q].there <=> q = L
    BY DEF IInv, LatestIsRegistered
<1>2. latest \in Requests \cup {Nobody}
    BY DEF IInv, TypeOK
<1>3. byAgentId # Nobody => byRequestId[latest].there
    BY <1>1, <1>2
<1>4. byAgentId # Nobody => byRequestId[latest] \in Entries
    BY <1>1, <1>2, <1>3, NoEntryIs DEF IInv, TypeOK
<1> QED
    BY <1>1, <1>2, <1>4, RequestsAre

LEMMA OpenKeeps ==
    ASSUME IInv, NEW s \in Sockets, Open(s)
    PROVE  IInv'
BY DEF Open, IInv, TypeOK, RunsFine, InOrder, LatestIsRegistered, Heard, CancelHeeded,
       RepliesLast, Running, registry, history

LEMMA DisconnectKeeps ==
    ASSUME IInv, NEW s \in Sockets, Disconnect(s)
    PROVE  IInv'
<1>1. /\ line' = [line EXCEPT ![s] = IF line[s] = "opening" THEN "lost" ELSE "closed"]
      /\ told' = [told EXCEPT ![s] = {}]
      /\ UNCHANGED <<byAgentId, byRequestId, run, proxy, latest, allowed, stored, owner, strayed, faulted>>
    BY DEF Disconnect, registry, history
<1>2. /\ line' \in [Sockets -> {"off", "opening", "open", "lost", "closed"}]
      /\ told' \in [Sockets -> SUBSET Requests]
      /\ \A t \in Sockets : told'[t] \subseteq told[t]
    BY <1>1 DEF IInv, TypeOK
<1>3. Heard'
    BY <1>1, <1>2 DEF IInv, Heard, Running
<1> QED
    BY <1>1, <1>2, <1>3 DEF IInv, TypeOK, RunsFine, InOrder, LatestIsRegistered, CancelHeeded,
       RepliesLast, Running

LEMMA AttachKeeps ==
    ASSUME IInv, NEW s \in Sockets, Attach(s)
    PROVE  IInv'
<1>1. /\ line' = [line EXCEPT ![s] = "open"]
      /\ proxy' = [r \in Requests |-> IF r \in Found THEN s ELSE proxy[r]]
      /\ told' = [told EXCEPT ![s] = @ \cup Found]
      /\ owner' = [r \in Requests |-> IF r \in Found THEN s ELSE owner[r]]
      /\ strayed' = strayed \ Found
      /\ UNCHANGED <<byAgentId, byRequestId, run, latest, allowed, stored, faulted>>
    BY DEF Attach, Tells, registry
<1>2. \A q \in Found : q \in Requests /\ Running(q)
    BY RegisteredRuns DEF Found
<1>3. /\ line \in [Sockets -> {"off", "opening", "open", "lost", "closed"}]
      /\ told \in [Sockets -> SUBSET Requests]
      /\ proxy \in [Requests -> Sockets \cup {Nobody}]
      /\ owner \in [Requests -> Sockets \cup {Nobody}]
    BY DEF IInv, TypeOK
<1>4. /\ line' \in [Sockets -> {"off", "opening", "open", "lost", "closed"}]
      /\ told' \in [Sockets -> SUBSET Requests]
      /\ proxy' \in [Requests -> Sockets \cup {Nobody}]
      /\ owner' \in [Requests -> Sockets \cup {Nobody}]
    BY <1>1, <1>2, <1>3
<1>5. Heard'
    <2> SUFFICES ASSUME NEW t \in Sockets, NEW q \in told'[t], owner'[q] = t, q \notin strayed'
                 PROVE  Running(q)' /\ proxy'[q] = t
        BY DEF Heard
    <2>1. q \in Requests /\ (Running(q)' <=> Running(q))
        BY <1>1, <1>4 DEF Running
    <2>2. CASE q \in Found
        BY <1>1, <1>2, <2>1, <2>2
    <2>3. CASE q \notin Found
        <3>1. owner[q] = t /\ proxy'[q] = proxy[q] /\ q \in told[t] /\ q \notin strayed
            BY <1>1, <1>3, <2>1, <2>3
        <3> QED
            BY <2>1, <3>1 DEF IInv, Heard
    <2> QED
        BY <2>2, <2>3
<1> QED
    BY <1>1, <1>4, <1>5 DEF IInv, TypeOK, RunsFine, InOrder, LatestIsRegistered, CancelHeeded,
       RepliesLast, Running

LEMMA AttachLostKeeps ==
    ASSUME IInv, NEW s \in Sockets, AttachLost(s)
    PROVE  IInv'
<1>1. /\ line' = [line EXCEPT ![s] = "closed"]
      /\ proxy' = [r \in Requests |-> IF r \in Found THEN s ELSE proxy[r]]
      /\ strayed' = strayed \cup Found
      /\ UNCHANGED <<byAgentId, byRequestId, run, told, latest, allowed, stored, owner, faulted>>
    BY DEF AttachLost, registry
<1>2. Found \subseteq Requests
    BY DEF Found
<1>3. /\ line' \in [Sockets -> {"off", "opening", "open", "lost", "closed"}]
      /\ told' \in [Sockets -> SUBSET Requests]
      /\ proxy' \in [Requests -> Sockets \cup {Nobody}]
      /\ strayed' \subseteq Requests
    BY <1>1, <1>2 DEF IInv, TypeOK
<1>4. Heard'
    <2> SUFFICES ASSUME NEW t \in Sockets, NEW q \in told[t], owner[q] = t, q \notin strayed'
                 PROVE  Running(q)' /\ proxy'[q] = t
        BY <1>1 DEF Heard
    <2>1. q \in Requests /\ (Running(q)' <=> Running(q))
        BY <1>1, <1>3 DEF Running
    <2>2. q \notin strayed /\ proxy'[q] = proxy[q]
        BY <1>1, <2>1
    <2> QED
        BY <2>1, <2>2 DEF IInv, Heard
<1> QED
    BY <1>1, <1>3, <1>4 DEF IInv, TypeOK, RunsFine, InOrder, LatestIsRegistered, CancelHeeded,
       RepliesLast, Running

\* A message takes the registration of the agent from the one that had it.
LEMMA EvictingEvicts ==
    ASSUME IInv, NEW r \in Requests, NEW e \in Entries \cup {NoEntry}, Evicting(r, e)
    PROVE  /\ byRequestId' \in [Requests -> Entries \cup {NoEntry}]
           /\ byRequestId'[r] = e
           /\ \A q \in Requests \ {r} : ~byRequestId'[q].there
<1>1. byRequestId \in [Requests -> Entries \cup {NoEntry}]
    BY DEF IInv, TypeOK
<1>2. byRequestId' = [q \in Requests |-> IF q = r THEN e
                                         ELSE IF q = byAgentId THEN NoEntry
                                         ELSE byRequestId[q]]
    BY DEF Evicting
<1>3. \A q \in Requests \ {r} : ~byRequestId'[q].there
    BY <1>2, RegisteredRuns, NoEntryIs
<1> QED
    BY <1>1, <1>2, <1>3

LEMMA NewMessage ==
    ASSUME IInv, NEW r \in Requests, r = NextRequest, NEW x \in Runs, RunFine(x),
           x.stage # "idle", run' = [run EXCEPT ![r] = x]
    PROVE  /\ run' \in [Requests -> Runs] /\ RunsFine' /\ InOrder'
           /\ run'[r] = x /\ \A q \in Requests \ {r} : run'[q] = run[q]
           /\ r \notin stored /\ ~Running(r)
<1>1. /\ run \in [Requests -> Runs] /\ InOrder /\ RunsFine
    BY DEF IInv, TypeOK
<1>2. run[r].stage = "idle" /\ \A q \in Requests : q < r <=> run[q].stage # "idle"
    BY <1>1, NextIsNew
<1>3. run'[r] = x /\ \A q \in Requests \ {r} : run'[q] = run[q]
    BY <1>1
<1>4. InOrder'
    <2> SUFFICES ASSUME NEW q \in Requests, NEW p \in Requests, q < p, run'[p].stage # "idle"
                 PROVE  run'[q].stage # "idle"
        BY DEF InOrder
    <2>1. q < r
        BY <1>2, <1>3, RequestsAre
    <2> QED
        BY <1>2, <1>3, <2>1
<1>5. run' \in [Requests -> Runs] /\ RunsFine'
    BY <1>1, <1>3 DEF RunsFine
<1>6. r \notin stored /\ ~Running(r)
    BY <1>2 DEF IInv, RepliesLast, Running
<1> QED
    BY <1>3, <1>4, <1>5, <1>6

LEMMA MessageKeeps ==
    ASSUME IInv, NEW s \in Sockets, NEW r \in Requests, Message(s, r)
    PROVE  IInv'
<1>1. /\ r = NextRequest /\ byAgentId' = r /\ Evicting(r, NewEntry)
      /\ run' = [run EXCEPT ![r].stage = "preparing"]
      /\ proxy' = [proxy EXCEPT ![r] = s]
      /\ told' = [told EXCEPT ![s] = @ \cup {r}]
      /\ owner' = [q \in Requests |-> IF q \in {r} THEN s ELSE owner[q]]
      /\ strayed' = strayed \ {r}
      /\ latest' = r /\ allowed' = NoCancel /\ UNCHANGED <<line, stored, faulted>>
    BY DEF Message, Tells
<1>2. NewEntry \in Entries /\ NewEntry.there
    BY DEF NewEntry, NoEntry, Entries
<1>3. /\ byRequestId' \in [Requests -> Entries \cup {NoEntry}] /\ byRequestId'[r].there
      /\ \A q \in Requests \ {r} : ~byRequestId'[q].there
    BY <1>1, <1>2, EvictingEvicts
<1> DEFINE x == [run[r] EXCEPT !.stage = "preparing"]
<1>4. run[r].stage = "idle" /\ run \in [Requests -> Runs] /\ run[r] \in Runs /\ RunFine(run[r])
    BY <1>1, NextIsNew, OfRun DEF IInv, TypeOK
<1>5. x \in Runs /\ x.stage = "preparing" /\ RunFine(x)
    <2>1. /\ x \in Runs /\ x.stage = "preparing" /\ x.begun = run[r].begun
          /\ x.round = run[r].round /\ x.left = run[r].left
        BY <1>4 DEF Runs
    <2> HIDE DEF x
    <2> QED
        BY <1>4, <2>1 DEF RunFine
<1>6. run' = [run EXCEPT ![r] = x]
    BY <1>1, <1>4 DEF Runs
<1> HIDE DEF x
<1>7. /\ run' \in [Requests -> Runs] /\ RunsFine' /\ InOrder'
      /\ run'[r] = x /\ \A q \in Requests \ {r} : run'[q] = run[q]
      /\ r \notin stored /\ ~Running(r)
    BY <1>1, <1>5, <1>6, NewMessage
<1>8. Running(r)' /\ \A q \in Requests \ {r} : Running(q)' <=> Running(q)
    BY <1>5, <1>7 DEF Running
<1>9. LatestIsRegistered'
    BY <1>1, <1>3, <1>8, RequestsAre DEF LatestIsRegistered, Running
<1>10. /\ told \in [Sockets -> SUBSET Requests]
       /\ proxy \in [Requests -> Sockets \cup {Nobody}]
       /\ owner \in [Requests -> Sockets \cup {Nobody}]
    BY DEF IInv, TypeOK
<1>11. /\ told' \in [Sockets -> SUBSET Requests]
       /\ proxy' \in [Requests -> Sockets \cup {Nobody}]
       /\ owner' \in [Requests -> Sockets \cup {Nobody}]
    BY <1>1, <1>10
<1>12. Heard'
    <2> SUFFICES ASSUME NEW t \in Sockets, NEW q \in told'[t], owner'[q] = t, q \notin strayed'
                 PROVE  Running(q)' /\ proxy'[q] = t
        BY DEF Heard
    <2>1. q \in Requests
        BY <1>11
    <2>2. CASE q = r
        BY <1>1, <1>8, <1>10, <2>1, <2>2
    <2>3. CASE q # r
        <3>1. owner[q] = t /\ proxy'[q] = proxy[q] /\ q \in told[t] /\ q \notin strayed
            BY <1>1, <1>10, <2>1, <2>3
        <3> QED
            BY <1>8, <2>1, <2>3, <3>1 DEF IInv, Heard
    <2> QED
        BY <2>2, <2>3
<1>13. CancelHeeded'
    BY <1>1 DEF CancelHeeded
<1>14. RepliesLast' /\ stored' \subseteq Requests /\ faulted' \subseteq Requests
    BY <1>1, <1>7 DEF IInv, TypeOK, RepliesLast
<1>15. allowed' \in 0 .. NoCancel
    BY <1>1, CallsAre
<1> QED
    BY <1>1, <1>3, <1>7, <1>9, <1>11, <1>12, <1>13, <1>14, <1>15 DEF IInv, TypeOK

LEMMA MalformedKeeps ==
    ASSUME IInv, NEW s \in Sockets, NEW r \in Requests, Malformed(s, r)
    PROVE  IInv'
<1>1. /\ r = NextRequest /\ byAgentId' = Nobody /\ Evicting(r, NoEntry)
      /\ run' = [run EXCEPT ![r] = Ended(run[r], "error")]
      /\ proxy' = [proxy EXCEPT ![r] = s]
      /\ latest' = r /\ allowed' = NoCancel /\ UNCHANGED <<line, told, stored, owner, strayed, faulted>>
    BY DEF Malformed
<1>2. /\ byRequestId' \in [Requests -> Entries \cup {NoEntry}]
      /\ \A q \in Requests : ~byRequestId'[q].there
    BY <1>1, EvictingEvicts, NoEntryIs
<1> DEFINE x == Ended(run[r], "error")
<1>3. x \in Runs /\ x.stage = "ended" /\ RunFine(x)
    BY OfRun, EndsFine DEF Verdicts
<1>4. run' = [run EXCEPT ![r] = x]
    BY <1>1
<1> HIDE DEF x
<1>5. /\ run' \in [Requests -> Runs] /\ RunsFine' /\ InOrder'
      /\ run'[r] = x /\ \A q \in Requests \ {r} : run'[q] = run[q]
      /\ r \notin stored /\ ~Running(r)
    BY <1>1, <1>3, <1>4, NewMessage
<1>6. LatestIsRegistered'
    BY <1>1, <1>2, <1>3, <1>5, RequestsAre DEF LatestIsRegistered, Running
<1>7. /\ told \in [Sockets -> SUBSET Requests]
      /\ proxy \in [Requests -> Sockets \cup {Nobody}]
    BY DEF IInv, TypeOK
<1>8. proxy' \in [Requests -> Sockets \cup {Nobody}]
    BY <1>1, <1>7
<1>9. Heard'
    <2> SUFFICES ASSUME NEW t \in Sockets, NEW q \in told[t], owner[q] = t, q \notin strayed
                 PROVE  Running(q)' /\ proxy'[q] = t
        BY <1>1 DEF Heard
    <2>1. q \in Requests /\ Running(q) /\ proxy[q] = t
        BY <1>7 DEF IInv, Heard
    <2>2. q # r
        BY <1>5, <2>1
    <2> QED
        BY <1>1, <1>5, <1>7, <2>1, <2>2 DEF Running
<1>10. CancelHeeded'
    BY <1>1 DEF CancelHeeded
<1>11. RepliesLast' /\ stored' \subseteq Requests /\ faulted' \subseteq Requests
    BY <1>1, <1>5 DEF IInv, TypeOK, RepliesLast
<1>12. allowed' \in 0 .. NoCancel
    BY <1>1, CallsAre
<1> QED
    BY <1>1, <1>2, <1>5, <1>6, <1>8, <1>9, <1>10, <1>11, <1>12 DEF IInv, TypeOK

LEMMA CancelKeeps ==
    ASSUME IInv, NEW s \in Sockets, Cancel(s)
    PROVE  IInv'
<1>1. PICK r \in Requests : r = byAgentId /\ r = latest /\ Running(r) /\ byRequestId[r] \in Entries
    BY RegisteredRuns DEF Cancel
<1> DEFINE aborted == run[r].aborted \/ byRequestId[r].activeToolCallId = 0
           x == [run[r] EXCEPT !.aborted = aborted]
           e == [byRequestId[r] EXCEPT !.cancelRequested = TRUE]
<1>2. /\ run \in [Requests -> Runs] /\ run[r] \in Runs /\ RunFine(run[r])
      /\ byRequestId \in [Requests -> Entries \cup {NoEntry}]
      /\ allowed \in 0 .. NoCancel /\ NoCancel \in Nat
    BY OfRun, CallsAre DEF IInv, TypeOK
<1>3. /\ byRequestId' = [byRequestId EXCEPT ![r].cancelRequested = TRUE]
      /\ run' = [run EXCEPT ![r].aborted = aborted]
      /\ allowed' = IF allowed = NoCancel THEN AllowedNow(r) ELSE allowed
      /\ UNCHANGED <<byAgentId, proxy, line, told, latest, stored, owner, strayed, faulted>>
    BY <1>1 DEF Cancel, lines
<1>4. aborted \in BOOLEAN
    OBVIOUS
<1> HIDE DEF aborted
<1>5. e \in Entries /\ e.there = byRequestId[r].there /\ e.cancelRequested
    BY <1>1 DEF Entries
<1>6. byRequestId' = [byRequestId EXCEPT ![r] = e]
    BY <1>1, <1>2, <1>3 DEF Entries
<1>7. /\ x \in Runs /\ x.stage = run[r].stage /\ x.begun = run[r].begun
      /\ x.round = run[r].round /\ x.left = run[r].left /\ x.delayed = run[r].delayed
      /\ x.verdict = run[r].verdict
    BY <1>2, <1>4 DEF Runs
<1>8. run' = [run EXCEPT ![r] = x]
    BY <1>2, <1>3 DEF Runs
<1> HIDE DEF x, e
<1>9. RunFine(x)
    BY <1>2, <1>7 DEF RunFine
<1>10. run'[r] = x /\ \A q \in Requests \ {r} : run'[q] = run[q]
    BY <1>2, <1>8
<1>11. \A q \in Requests : run'[q].stage = run[q].stage /\ run'[q].verdict = run[q].verdict
    BY <1>7, <1>10
<1>22. ASSUME NEW q \in Requests PROVE byRequestId'[q].there = byRequestId[q].there
    <2>1. byRequestId'[r] = e /\ \A p \in Requests \ {r} : byRequestId'[p] = byRequestId[p]
        BY <1>2, <1>6
    <2>2. CASE q = r
        <3>1. byRequestId'[r].there = e.there
            BY <2>1
        <3> QED
            BY <1>5, <2>2, <3>1, Zenon
    <2>3. CASE q # r
        BY <2>1, <2>3, Zenon
    <2> QED
        BY <2>2, <2>3
<1>12. run' \in [Requests -> Runs] /\ RunsFine'
    <2>1. run' \in [Requests -> Runs]
        BY <1>2, <1>7, <1>8
    <2>2. ASSUME NEW q \in Requests PROVE RunFine(run'[q])
        <3>1. CASE q = r
            BY <1>9, <1>10, <3>1, Zenon
        <3>2. CASE q # r
            <4>1. run'[q] = run[q] /\ RunFine(run[q])
                BY <1>10, <3>2 DEF IInv, RunsFine
            <4> QED
                BY <4>1, Zenon
        <3> QED
            BY <3>1, <3>2
    <2> QED
        BY <2>1, <2>2 DEF RunsFine
<1>13. InOrder'
    BY <1>11, <1>22 DEF IInv, InOrder
<1>14. byRequestId' \in [Requests -> Entries \cup {NoEntry}]
    BY <1>2, <1>5, <1>6
<1>15. LatestIsRegistered'
    <2>1. latest' = latest /\ latest \in Requests /\ (Running(latest)' <=> Running(latest))
        BY <1>1, <1>3, <1>11, <1>22 DEF Running
    <2> QED
        BY <1>3, <1>11, <1>22, <2>1 DEF IInv, LatestIsRegistered
<1>16. Heard'
    <2>1. /\ told' = told /\ owner' = owner /\ proxy' = proxy /\ strayed' = strayed
          /\ told \in [Sockets -> SUBSET Requests]
        BY <1>3 DEF IInv, TypeOK
    <2> QED
        BY <1>11, <1>22, <2>1 DEF IInv, Heard, Running
<1>17. Spent(run[r]) \in 0 .. NoCancel /\ AllowedNow(r) = Spent(run[r]) /\ Spent(x) = Spent(run[r])
    <2>1. Spent(run[r]) \in Nat /\ Spent(run[r]) <= NoCancel
        BY <1>2, RunTyped
    <2> QED
        BY <1>2, <1>7, <2>1 DEF AllowedNow, Spent
<1>18. allowed' \in 0 .. NoCancel
    BY <1>2, <1>3, <1>17
<1>19. CancelHeeded'
    <2>1. Spent(run[r]) <= allowed'
        <3>1. CASE allowed = NoCancel
            BY <1>2, <1>3, <1>17, <3>1
        <3>2. CASE allowed # NoCancel
            BY <1>1, <1>3, <3>2, RequestsAre DEF IInv, CancelHeeded
        <3> QED
            BY <3>1, <3>2
    <2>2. byRequestId'[r].cancelRequested
        BY <1>2, <1>5, <1>6
    <2> QED
        BY <1>1, <1>3, <1>10, <1>17, <2>1, <2>2 DEF CancelHeeded
<1>20. RepliesLast' /\ stored' \subseteq Requests /\ faulted' \subseteq Requests
    BY <1>3, <1>11, <1>22 DEF IInv, TypeOK, RepliesLast
<1> QED
    BY <1>3, <1>12, <1>13, <1>14, <1>15, <1>16, <1>18, <1>19, <1>20 DEF IInv, TypeOK

-----------------------------------------------------------------------------
(* Theorems                                                                 *)

LEMMA StreamsStart ==
    Init => IInv
<1> SUFFICES ASSUME Init PROVE IInv
    OBVIOUS
<1>1. \A r \in Requests : run[r] = NewRun /\ byRequestId[r] = NoEntry
    BY DEF Init
<1>2. RunsFine /\ InOrder
    BY <1>1, NewRunFine DEF RunsFine, InOrder
<1>3. TypeOK
    BY NewRunFine, CallsAre DEF Init, TypeOK
<1>4. LatestIsRegistered /\ Heard /\ CancelHeeded /\ RepliesLast
    BY <1>1, NoEntryIs, RequestsAre DEF Init, LatestIsRegistered, Heard, CancelHeeded, RepliesLast
<1> QED
    BY <1>2, <1>3, <1>4 DEF IInv

LEMMA StreamsKept ==
    ASSUME IInv, [Next]_vars
    PROVE  IInv'
<1>1. ASSUME NEW s \in Sockets, Open(s) \/ Attach(s) \/ AttachLost(s) \/ Disconnect(s) \/ Cancel(s)
      PROVE  IInv'
    BY <1>1, OpenKeeps, AttachKeeps, AttachLostKeeps, DisconnectKeeps, CancelKeeps
<1>2. ASSUME NEW s \in Sockets, NEW r \in Requests, Message(s, r) \/ Malformed(s, r)
      PROVE  IInv'
    BY <1>2, MessageKeeps, MalformedKeeps
<1>3. ASSUME NEW r \in Requests, RequestStep(r) PROVE IInv'
    <2>1. CASE PrepareEnds(r) \/ CommandEnds(r) \/ ModelAborts(r) \/ Stored(r)
        BY <2>1, PrepareKeeps, CommandKeeps, AbortKeeps, EndingsKeep
    <2>2. ASSUME NEW n \in 0 .. ToolsPerTurn, ModelAnswers(r, n) PROVE IInv'
        BY <2>2, AnswerKeeps
    <2>3. ASSUME NEW slow \in BOOLEAN, NEW halt \in BOOLEAN, ToolEnds(r, slow, halt) PROVE IInv'
        BY <2>3, ToolKeeps
    <2> QED
        BY <1>3, <2>1, <2>2, <2>3 DEF RequestStep
<1>4. ASSUME NEW r \in Requests, Timers(r) PROVE IInv'
    BY <1>4, TimerKeeps DEF Timers
<1>5. ASSUME NEW r \in Requests, Fails(r) PROVE IInv'
    BY <1>5, EndingsKeep
<1>6. CASE UNCHANGED vars
    BY <1>6 DEF vars, registry, lines, history, IInv, TypeOK, RunsFine, InOrder,
       LatestIsRegistered, Heard, CancelHeeded, RepliesLast, Running
<1> QED
    BY <1>1, <1>2, <1>3, <1>4, <1>5, <1>6 DEF Next

\* Whatever messages, cancels, timers, failures and connections come between:
\* the runs stay within their rounds and tools, the registry names the last
\* stream while it runs, the connection last told of it has it or a closed one
\* has taken it since, a cancel is
\* remembered by the run it was for, and nothing follows a reply
\* (chat-stream-registry.ts, agent-chat.service.ts, agent-loop.ts).
THEOREM StreamsInvariant ==
    Spec => []IInv
<1>1. Init => IInv
    BY StreamsStart
<1>2. IInv /\ [Next]_vars => IInv'
    BY StreamsKept
<1> QED
    BY <1>1, <1>2, PTL DEF Spec

\* The last stream can be cancelled and resumed for as long as it runs, no
\* other is registered, and the connection last told of it hears its end, but
\* for a stream that a closed connection has taken since
\* (ChatStreamRegistry.register, complete, attach).
THEOREM RegistryHolds ==
    Spec => []RegistrySound
<1>1. IInv => RegistrySound
    <2> SUFFICES ASSUME IInv PROVE LastToAttachHears
        BY DEF RegistrySound, IInv
    <2>1. told \in [Sockets -> SUBSET Requests]
        BY DEF IInv, TypeOK
    <2> QED
        BY <2>1 DEF IInv, Heard, LastToAttachHears, Running
<1> QED
    BY <1>1, StreamsInvariant, PTL

\* After a cancel is acknowledged the stream begins no tool if one was running
\* and one at the most if the model was being asked, and it stores no reply
\* and reports a cancel but for a failed call (requestCancel, assertNotCancelled).
THEOREM CancelsHold ==
    Spec => []CancelHolds
<1>1. IInv => CancelHolds
    <2> SUFFICES ASSUME IInv PROVE CancelStops /\ CancelledSaysNothing
        BY DEF CancelHolds
    <2>1. ASSUME latest # Nobody PROVE run[latest].begun <= allowed
        <3>1. latest \in Requests /\ allowed \in 0 .. NoCancel /\ NoCancel \in Nat
            BY <2>1, CallsAre DEF IInv, TypeOK
        <3>2. /\ run[latest] \in Runs /\ RunFine(run[latest])
              /\ run[latest].begun \in Nat /\ Spent(run[latest]) \in Nat
              /\ run[latest].begun <= Spent(run[latest]) /\ run[latest].begun < NoCancel
            BY <3>1, OfRun, RunTyped
        <3>3. CASE ~Running(latest)
            BY <3>1, <3>2, <3>3 DEF Running, RunFine
        <3>4. CASE allowed = NoCancel
            BY <3>1, <3>2, <3>4
        <3>5. CASE Running(latest) /\ allowed # NoCancel
            <4>1. Spent(run[latest]) <= allowed
                BY <2>1, <3>5 DEF IInv, CancelHeeded
            <4> QED
                BY <3>1, <3>2, <4>1
        <3> QED
            BY <3>3, <3>4, <3>5
    <2>2. CancelledSaysNothing
        BY DEF IInv, RepliesLast, CancelledSaysNothing
    <2> QED
        BY <2>1, <2>2 DEF CancelStops
<1> QED
    BY <1>1, StreamsInvariant, PTL

\* chat.completed and chat.cancelled are sent after the last chat.tool.complete
\* that was held back (agent-chat.service.ts).
THEOREM SpinnersComeFirst ==
    Spec => []SpinnersFirst
<1>1. IInv => SpinnersFirst
    BY DEF IInv, RunsFine, RunFine, SpinnersFirst
<1> QED
    BY <1>1, StreamsInvariant, PTL
=============================================================================
