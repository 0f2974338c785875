--------------------------- MODULE AgentRunsProofs ---------------------------
(***************************************************************************)
(* Proofs about agent runs, for any requests, actors, agents, quota, slots *)
(* and bounds.                                                             *)
(*                                                                         *)
(* A run is in three places at once: the request that created it, its job  *)
(* in the lane and its record.  The invariant says which state of the      *)
(* record goes with which stage of the other two (RecordFollows), what the *)
(* waiting list holds (ListHolds), and which stages can leave an agent     *)
(* shown as running (RunningBy).  As in the job queue a job waits only     *)
(* while every slot is taken, so a pump starts at most one.                *)
(*                                                                         *)
(* The second part is about the agents themselves (CompanyAgents).  What a *)
(* creation or deletion has found out holds until its end, or was changed  *)
(* by an event that is recorded; that paths to the root end is said by a   *)
(* set for each agent, which holds its superiors and not the agent.        *)
(***************************************************************************)
EXTENDS AgentRuns, CompanyAgents, FiniteSetTheorems, SequenceTheorems, WellFoundedInduction, TLAPS

(* The inductive invariant *)

\* Cardinality means something of the slots, however many requests there are.
SlotsFinite == IsFiniteSet(InSlot(job))

\* The waiting list holds the pending jobs, each once.
ListHolds ==
    /\ \A r \in Requests : job[r] = "pending" <=> \E i \in 1 .. Len(pending) : pending[i] = r
    /\ \A i, k \in 1 .. Len(pending) : pending[i] = pending[k] => i = k

\* Before its handler is done a request has no job, and at most a new record.
Fresh ==
    \A r \in Requests :
        /\ call[r] # "over" => job[r] = "none"
        /\ call[r] \in {"idle", "approving", "asking", "creating"} => state[r] = "none"
        /\ call[r] = "created" => state[r] = "queued"

\* The record at each stage of the job.
StateAt == [s \in JobStages |->
    CASE s \in {"pending", "planning"}           -> {"queued"}
      [] s \in {"starting", "executing"}         -> {"planning"}
      [] s \in {"running", "idling", "closing"}  -> {"executing"}
      [] s = "auditing"                          -> {"completed", "waiting_approval"}
      [] s \in {"erroring", "marking"}           -> RunStates
      [] s = "reporting"                         -> {"failed"}
      [] OTHER                                   -> RunStates \cup {"none"}]

RecordFollows == \A r \in Requests : state[r] \in StateAt[job[r]]

\* A run that a process or a failure ended is on record, if its state says
\* that it goes on.
DoneIsFinal ==
    \A r \in Requests :
        call[r] = "over" /\ job[r] \in {"none", "done"} /\ r \notin orphan =>
            state[r] \notin {"queued", "planning", "executing"}

\* An agent is shown as running between two of its job's own writes.
Marked == {"executing", "running", "idling", "erroring"}

RunningBy ==
    \A g \in Agents :
        status[g] = "running" =>
            \E r \in Requests : agent[r] = g /\ (r \in orphan \/ job[r] \in Marked)

\* Nothing comes in once the queue is closed.
ClosedIsQuiet == closed => \A r \in Requests : call[r] \in {"idle", "over"}

\* What was let through today is counted, or was counted by a process that ended.
Counted ==
    /\ boots <= crashes
    /\ \A a \in Actors : taken[a] <= usage[a] + MaxPerDay * boots

IInv ==
    /\ TypeOK
    /\ SlotsFinite
    /\ ListHolds
    /\ Fresh
    /\ RecordFollows
    /\ DoneIsFinal
    /\ RunningBy
    /\ ClosedIsQuiet
    /\ Counted

-----------------------------------------------------------------------------
(* The lane *)

\* A stage written for one request takes or frees at most its own slot.
LEMMA SlotOfOne ==
    ASSUME NEW j \in [Requests -> JobStages], NEW r \in Requests, NEW s \in JobStages
    PROVE  InSlot([j EXCEPT ![r] = s]) =
               IF s \in Stopped THEN InSlot(j) \ {r} ELSE InSlot(j) \cup {r}
BY DEF InSlot

\* The four things a pump is called for: an enqueued job starts or waits, a
\* job that ends frees its slot or hands it to the first waiting job.
StartNow(r) ==
    /\ pending = <<>> /\ pending' = <<>>
    /\ job' = [job EXCEPT ![r] = "planning"]

Wait(r) ==
    /\ Cardinality(InSlot(job)) = Slots
    /\ pending' = Append(pending, r)
    /\ job' = [job EXCEPT ![r] = "pending"]

FreeSlot(r) ==
    /\ pending = <<>> /\ pending' = <<>>
    /\ job' = [job EXCEPT ![r] = "done"]

HandOver(r) ==
    /\ pending # <<>> /\ pending' = Tail(pending)
    /\ job' = [job EXCEPT ![r] = "done", ![Head(pending)] = "planning"]

LEMMA SlotsCounted ==
    ASSUME IInv
    PROVE  /\ Cardinality(InSlot(job)) \in Nat
           /\ Cardinality(InSlot(job)) <= Slots
           /\ pending # <<>> => Cardinality(InSlot(job)) = Slots
           /\ Slots \in Nat /\ Slots >= 1
BY FS_CardinalityType, RunsAssumption DEF IInv, TypeOK, SlotsFinite

\* An enqueue starts its own job or leaves it waiting, nothing else.
LEMMA EnqueueCases ==
    ASSUME IInv, NEW r \in Requests, Enqueue(r)
    PROVE  \/ StartNow(r) /\ Cardinality(InSlot(job)) < Slots
           \/ Wait(r)
<1> DEFINE j == [job EXCEPT ![r] = "pending"]
           p == Append(pending, r)
           free == Slots - Cardinality(InSlot(j))
           n == IF Len(p) < free THEN Len(p) ELSE free
           started == {p[i] : i \in 1 .. n}
<1>1. /\ job \in [Requests -> JobStages] /\ job[r] = "none"
      /\ pending \in Seq(Requests) /\ Len(pending) \in Nat
    BY DEF IInv, TypeOK, Fresh, Enqueue, ToStage
<1>2. InSlot(j) = InSlot(job)
    BY <1>1 DEF InSlot, Stopped
<1>3. /\ pending' = SubSeq(p, n + 1, Len(p))
      /\ job' = [q \in Requests |-> IF q \in started THEN "planning" ELSE j[q]]
    BY DEF Enqueue, Pump
<1>4. p \in Seq(Requests) /\ Len(p) = Len(pending) + 1 /\ p[Len(p)] = r
    BY <1>1
<1>5. CASE Cardinality(InSlot(job)) = Slots
    <2>1. free = 0
        BY <1>2, <1>5, SlotsCounted
    <2>2. n = 0
        <3> HIDE DEF free, p
        <3> QED
            BY <1>1, <1>4, <2>1
    <2>3. started = {}
        BY <2>2
    <2>4. SubSeq(p, 1, Len(p)) = p
        BY <1>4, SubSeqFull
    <2>5. pending' = p
        <3> HIDE DEF p, n
        <3> QED
            BY <1>3, <2>2, <2>4
    <2>6. job' = j
        BY <1>1, <1>3, <2>3
    <2> QED
        BY <1>5, <2>5, <2>6 DEF Wait
<1>6. CASE Cardinality(InSlot(job)) < Slots
    <2>1. pending = <<>>
        BY <1>6, SlotsCounted
    <2>2. p = <<r>> /\ Len(p) = 1 /\ n = 1
        BY <1>2, <1>6, <2>1, SlotsCounted
    <2>3. started = {r}
        BY <2>2
    <2>4. pending' = <<>>
        BY <1>3, <2>2
    <2>5. job' = [job EXCEPT ![r] = "planning"]
        BY <1>1, <1>3, <2>3
    <2> QED
        BY <1>6, <2>1, <2>4, <2>5 DEF StartNow
<1> QED
    BY <1>5, <1>6, SlotsCounted

\* A job that ends frees its slot or hands it to the first that waits.
LEMMA JobEndsCases ==
    ASSUME IInv, NEW r \in Requests, job[r] \notin Stopped, JobEnds(r)
    PROVE  FreeSlot(r) \/ HandOver(r)
<1> DEFINE j == [job EXCEPT ![r] = "done"]
           free == Slots - Cardinality(InSlot(j))
           n == IF Len(pending) < free THEN Len(pending) ELSE free
           started == {pending[i] : i \in 1 .. n}
<1>1. /\ job \in [Requests -> JobStages]
      /\ pending \in Seq(Requests) /\ Len(pending) \in Nat
    BY DEF IInv, TypeOK
<1>2. InSlot(j) = InSlot(job) \ {r} /\ r \in InSlot(job)
    BY <1>1 DEF InSlot, Stopped
<1>3. Cardinality(InSlot(j)) = Cardinality(InSlot(job)) - 1
    BY <1>2, FS_RemoveElement DEF IInv, SlotsFinite
<1>4. /\ pending' = SubSeq(pending, n + 1, Len(pending))
      /\ job' = [q \in Requests |-> IF q \in started THEN "planning" ELSE j[q]]
    BY DEF JobEnds, Pump
<1>5. CASE pending = <<>>
    <2>1. free \in Nat /\ Len(pending) = 0
        BY <1>3, <1>5, SlotsCounted
    <2>2. n = 0
        <3> HIDE DEF free
        <3> QED
            BY <2>1
    <2>3. started = {} /\ pending' = <<>>
        BY <1>4, <1>5, <2>2
    <2>4. job' = j
        BY <1>1, <1>4, <2>3
    <2> QED
        BY <1>5, <2>3, <2>4 DEF FreeSlot
<1>6. CASE pending # <<>>
    <2>1. free = 1 /\ Len(pending) >= 1
        BY <1>1, <1>3, <1>6, SlotsCounted
    <2>2. n = 1
        <3> HIDE DEF free
        <3> QED
            BY <1>1, <2>1
    <2>3. started = {Head(pending)}
        BY <1>1, <1>6, <2>2
    <2>4. pending' = Tail(pending)
        <3>1. pending' = SubSeq(pending, 2, Len(pending))
            <4> HIDE DEF n
            <4> QED
                BY <1>4, <2>2
        <3> QED
            BY <1>1, <1>6, <3>1, TailIsSubSeq
    <2>5. Head(pending) \in Requests
        BY <1>1, <1>6
    <2>6. job' = [job EXCEPT ![r] = "done", ![Head(pending)] = "planning"]
        <3> DEFINE h == Head(pending)
        <3>1. job' = [q \in Requests |-> IF q = h THEN "planning" ELSE j[q]]
            <4> HIDE DEF started, j
            <4> QED
                BY <1>4, <2>3
        <3>2. h \in Requests
            BY <2>5
        <3> HIDE DEF h
        <3>3. job' = [job EXCEPT ![r] = "done", ![h] = "planning"]
            BY <1>1, <3>1, <3>2
        <3> QED
            BY <3>3 DEF h
    <2> QED
        BY <1>6, <2>4, <2>6 DEF HandOver
<1> QED
    BY <1>5, <1>6

\* A job that runs goes on to another stage that holds its slot.
GoesOn(r) ==
    /\ job[r] \notin Stopped
    /\ \E s \in JobStages \ Stopped : job' = [job EXCEPT ![r] = s]
    /\ pending' = pending

LEMMA LaneCases ==
    ASSUME IInv, Next
    PROVE  \/ UNCHANGED <<pending, job>>
           \/ \E r \in Requests : call[r] = "created" /\ StartNow(r)
                                  /\ Cardinality(InSlot(job)) < Slots
           \/ \E r \in Requests : call[r] = "created" /\ Wait(r)
           \/ \E r \in Requests : GoesOn(r)
           \/ \E r \in Requests : job[r] \notin Stopped /\ (FreeSlot(r) \/ HandOver(r))
           \/ NewProcess
<1>1. ASSUME NEW r \in Requests, NEW from, NEW s, NEW to \in JobStages \ Stopped,
             from \notin Stopped, Write(r, from, s, to) \/ Mark(r, from, s, to)
      PROVE  GoesOn(r)
    BY <1>1 DEF Write, Mark, GoesOn
<1>2. ASSUME NEW r \in Requests,
             \/ Plan(r) \/ MarkStarted(r) \/ Execute(r) \/ MarkCompleted(r) \/ Close(r)
             \/ MarkFailed(r) \/ Fail(r)
      PROVE  GoesOn(r)
    BY <1>1, <1>2 DEF Plan, MarkStarted, Execute, MarkCompleted, Close, MarkFailed, Fail,
       JobStages, Stopped
<1>3. ASSUME NEW r \in Requests, RunnerEnds(r) \/ JobFails(r)
      PROVE  GoesOn(r)
    BY <1>3 DEF RunnerEnds, JobFails, GoesOn, Caught, JobStages, Stopped
<1>4. ASSUME NEW r \in Requests, Report(r) \/ FailureFails(r)
      PROVE  job[r] \notin Stopped /\ (FreeSlot(r) \/ HandOver(r))
    BY <1>4, JobEndsCases DEF Report, FailureFails, Failing, Stopped
<1>5. ASSUME NEW r \in Requests, Enqueue(r)
      PROVE  /\ call[r] = "created"
             /\ (StartNow(r) /\ Cardinality(InSlot(job)) < Slots) \/ Wait(r)
    BY <1>5, EnqueueCases DEF Enqueue, ToStage
<1>6. ASSUME NEW r \in Requests, Decide(r) \/ RequestApproval(r) \/ CreateRun(r) \/ CallFails(r)
      PROVE  UNCHANGED <<pending, job>>
    BY <1>6 DEF Decide, RequestApproval, CreateRun, CallFails, jobVars
<1>7. ASSUME NEW r \in Requests, NEW a \in Actors, Ask(r, a)
      PROVE  UNCHANGED <<pending, job>>
    BY <1>7 DEF Ask, jobVars
<1>8. CloseQueue \/ Midnight => UNCHANGED <<pending, job>>
    BY DEF CloseQueue, Midnight, jobVars
<1>9. Crash \/ Restart => NewProcess
    BY DEF Crash, Restart
<1> QED
    BY <1>2, <1>3, <1>4, <1>5, <1>6, <1>7, <1>8, <1>9 DEF Next, CallStep, JobStep

\* What the lane keeps.
LaneOK ==
    /\ pending \in Seq(Requests)
    /\ job \in [Requests -> JobStages]
    /\ Cardinality(InSlot(job)) <= Slots
    /\ pending # <<>> => Cardinality(InSlot(job)) = Slots
    /\ SlotsFinite
    /\ ListHolds

\* The slots are as many as the jobs that hold them, and the list holds the
\* others, whatever happens.
LEMMA LaneStep ==
    ASSUME IInv, Next
    PROVE  LaneOK'
<1>1. /\ pending \in Seq(Requests) /\ Len(pending) \in Nat
      /\ job \in [Requests -> JobStages]
      /\ SlotsFinite /\ ListHolds
    BY DEF IInv, TypeOK
<1>2. CASE UNCHANGED <<pending, job>>
    BY <1>1, <1>2, SlotsCounted DEF LaneOK, SlotsFinite, ListHolds
<1>3. ASSUME NEW r \in Requests, call[r] = "created", StartNow(r),
             Cardinality(InSlot(job)) < Slots
      PROVE  LaneOK'
    <2>1. InSlot(job') = InSlot(job) \cup {r} /\ r \notin InSlot(job)
        BY <1>1, <1>3, SlotOfOne DEF StartNow, IInv, Fresh, InSlot, JobStages, Stopped
    <2>2. IsFiniteSet(InSlot(job')) /\ Cardinality(InSlot(job')) = Cardinality(InSlot(job)) + 1
        BY <1>1, <2>1, FS_AddElement DEF SlotsFinite
    <2>3. ListHolds'
        <3>1. \A q \in Requests : job[q] # "pending"
            BY <1>3, <1>1 DEF StartNow, ListHolds
        <3> QED
            BY <1>1, <1>3, <3>1 DEF StartNow, ListHolds
    <2> QED
        BY <1>1, <1>3, <2>2, <2>3, SlotsCounted DEF LaneOK, StartNow, SlotsFinite, JobStages
<1>4. ASSUME NEW r \in Requests, call[r] = "created", Wait(r)
      PROVE  LaneOK'
    <2>1. job[r] = "none"
        BY <1>4 DEF IInv, Fresh
    <2>2. InSlot(job') = InSlot(job)
        BY <1>1, <1>4, <2>1 DEF Wait, InSlot, Stopped
    <2>3. /\ pending' \in Seq(Requests) /\ Len(pending') = Len(pending) + 1
          /\ pending'[Len(pending) + 1] = r
          /\ \A i \in 1 .. Len(pending) : pending'[i] = pending[i]
        BY <1>1, <1>4 DEF Wait
    <2>4. ListHolds'
        <3>1. ASSUME NEW i \in 1 .. Len(pending) PROVE pending[i] # r
            BY <1>1, <2>1, <3>1 DEF ListHolds
        <3>2. \A q \in Requests : job'[q] = IF q = r THEN "pending" ELSE job[q]
            BY <1>1, <1>4 DEF Wait
        <3>3. ASSUME NEW q \in Requests
              PROVE  job'[q] = "pending" <=> \E i \in 1 .. Len(pending') : pending'[i] = q
            <4>1. CASE q = r
                BY <1>1, <2>3, <3>2, <4>1
            <4>2. CASE q # r
                <5>1. job[q] = "pending" <=> \E i \in 1 .. Len(pending) : pending[i] = q
                    BY <1>1 DEF ListHolds
                <5> QED
                    BY <1>1, <2>3, <3>2, <4>2, <5>1
            <4> QED
                BY <4>1, <4>2
        <3>4. ASSUME NEW i \in 1 .. Len(pending'), NEW k \in 1 .. Len(pending'),
                     pending'[i] = pending'[k]
              PROVE  i = k
            BY <1>1, <2>3, <3>1, <3>4 DEF ListHolds
        <3> QED
            BY <3>3, <3>4 DEF ListHolds
    <2> QED
        BY <1>1, <1>4, <2>2, <2>3, <2>4, SlotsCounted DEF LaneOK, Wait, SlotsFinite, JobStages
<1>5. ASSUME NEW r \in Requests, GoesOn(r)
      PROVE  LaneOK'
    <2>1. InSlot(job') = InSlot(job)
        BY <1>1, <1>5 DEF GoesOn, InSlot
    <2>2. \A q \in Requests : job'[q] = "pending" <=> job[q] = "pending"
        BY <1>1, <1>5 DEF GoesOn, Stopped
    <2> QED
        BY <1>1, <1>5, <2>1, <2>2, SlotsCounted DEF LaneOK, GoesOn, SlotsFinite, ListHolds
<1>6. ASSUME NEW r \in Requests, job[r] \notin Stopped, FreeSlot(r)
      PROVE  LaneOK'
    <2>1. InSlot(job') = InSlot(job) \ {r} /\ r \in InSlot(job)
        BY <1>1, <1>6, SlotOfOne DEF FreeSlot, InSlot, JobStages, Stopped
    <2>2. IsFiniteSet(InSlot(job')) /\ Cardinality(InSlot(job')) = Cardinality(InSlot(job)) - 1
        BY <1>1, <2>1, FS_RemoveElement DEF SlotsFinite
    <2>3. ListHolds'
        BY <1>1, <1>6 DEF FreeSlot, ListHolds
    <2> QED
        BY <1>1, <1>6, <2>2, <2>3, SlotsCounted DEF LaneOK, FreeSlot, SlotsFinite, JobStages
<1>7. ASSUME NEW r \in Requests, job[r] \notin Stopped, HandOver(r)
      PROVE  LaneOK'
    <2> DEFINE h == Head(pending)
    <2>1. h \in Requests /\ h = pending[1] /\ 1 \in 1 .. Len(pending)
        BY <1>1, <1>7 DEF HandOver
    <2>2. job[h] = "pending" /\ h # r
        BY <1>1, <1>7, <2>1 DEF ListHolds, Stopped
    <2>3. job' = [job EXCEPT ![r] = "done", ![h] = "planning"]
        BY <1>7 DEF HandOver
    <2> HIDE DEF h
    <2>4. /\ job' \in [Requests -> JobStages]
          /\ \A q \in Requests :
                 job'[q] = IF q = h THEN "planning" ELSE IF q = r THEN "done" ELSE job[q]
        BY <1>1, <2>1, <2>2, <2>3 DEF JobStages
    <2>5. InSlot(job') = (InSlot(job) \ {r}) \cup {h} /\ r \in InSlot(job) /\ h \notin InSlot(job)
        BY <1>7, <2>1, <2>2, <2>4 DEF InSlot, Stopped
    <2>6. IsFiniteSet(InSlot(job')) /\ Cardinality(InSlot(job')) = Cardinality(InSlot(job))
        <3>1. /\ IsFiniteSet(InSlot(job) \ {r})
              /\ Cardinality(InSlot(job) \ {r}) = Cardinality(InSlot(job)) - 1
            BY <1>1, <2>5, FS_RemoveElement DEF SlotsFinite
        <3>2. h \notin InSlot(job) \ {r}
            BY <2>5
        <3>3. /\ IsFiniteSet((InSlot(job) \ {r}) \cup {h})
              /\ Cardinality((InSlot(job) \ {r}) \cup {h}) = Cardinality(InSlot(job) \ {r}) + 1
            BY <3>1, <3>2, FS_AddElement
        <3> QED
            BY <2>5, <3>1, <3>3, SlotsCounted
    <2>7. /\ pending' \in Seq(Requests) /\ Len(pending') = Len(pending) - 1
          /\ \A i \in 1 .. Len(pending) - 1 : pending'[i] = pending[i + 1]
        BY <1>1, <1>7, HeadTailProperties DEF HandOver
    <2>8. ListHolds'
        <3>1. ASSUME NEW q \in Requests
              PROVE  job'[q] = "pending" <=> \E i \in 1 .. Len(pending') : pending'[i] = q
            <4>1. job[q] = "pending" <=> \E i \in 1 .. Len(pending) : pending[i] = q
                BY <1>1 DEF ListHolds
            <4>2. (\E i \in 1 .. Len(pending') : pending'[i] = q) <=>
                      \E i \in 2 .. Len(pending) : pending[i] = q
                <5>1. ASSUME NEW i \in 2 .. Len(pending)
                      PROVE  i - 1 \in 1 .. Len(pending') /\ pending'[i - 1] = pending[i]
                    BY <1>1, <2>7, <5>1
                <5>2. ASSUME NEW i \in 1 .. Len(pending')
                      PROVE  i + 1 \in 2 .. Len(pending) /\ pending'[i] = pending[i + 1]
                    BY <1>1, <2>7, <5>2
                <5> QED
                    BY <5>1, <5>2
            <4>3. (\E i \in 2 .. Len(pending) : pending[i] = q) <=> job[q] = "pending" /\ q # h
                BY <1>1, <2>1, <4>1 DEF ListHolds
            <4>4. job'[q] = "pending" <=> job[q] = "pending" /\ q # h
                BY <1>7, <2>4 DEF Stopped
            <4> QED
                BY <4>2, <4>3, <4>4
        <3>2. ASSUME NEW i \in 1 .. Len(pending'), NEW k \in 1 .. Len(pending'),
                     pending'[i] = pending'[k]
              PROVE  i = k
            <4>1. i + 1 \in 1 .. Len(pending) /\ k + 1 \in 1 .. Len(pending)
                  /\ pending[i + 1] = pending[k + 1]
                BY <1>1, <2>7, <3>2
            <4>2. i + 1 = k + 1
                BY <1>1, <4>1 DEF ListHolds
            <4> QED
                BY <1>1, <2>7, <4>2
        <3> QED
            BY <3>1, <3>2 DEF ListHolds
    <2> QED
        BY <1>7, <2>4, <2>6, <2>7, <2>8, SlotsCounted DEF LaneOK, HandOver, SlotsFinite
<1>8. CASE NewProcess
    <2>1. pending' = <<>> /\ \A q \in Requests : job'[q] \in {"none", "done"}
        BY <1>8 DEF NewProcess
    <2>2. InSlot(job') = {}
        BY <2>1 DEF InSlot, Stopped
    <2>3. IsFiniteSet(InSlot(job')) /\ Cardinality(InSlot(job')) = 0
        BY <2>2, FS_EmptySet
    <2>4. job' \in [Requests -> JobStages]
        BY <1>8 DEF NewProcess, JobStages
    <2>5. ListHolds'
        BY <2>1 DEF ListHolds
    <2> QED
        BY <2>1, <2>3, <2>4, <2>5, RunsAssumption DEF LaneOK, SlotsFinite
<1> QED
    BY <1>2, <1>3, <1>4, <1>5, <1>6, <1>7, <1>8, LaneCases

-----------------------------------------------------------------------------
(* The request, its job and its record                                      *)

\* What StateAt says, stage by stage.
LEMMA StateAtStages ==
    /\ StateAt["none"] = RunStates \cup {"none"} /\ StateAt["done"] = RunStates \cup {"none"}
    /\ StateAt["pending"] = {"queued"} /\ StateAt["planning"] = {"queued"}
    /\ StateAt["starting"] = {"planning"} /\ StateAt["executing"] = {"planning"}
    /\ StateAt["running"] = {"executing"} /\ StateAt["idling"] = {"executing"}
    /\ StateAt["closing"] = {"executing"}
    /\ StateAt["auditing"] = {"completed", "waiting_approval"}
    /\ StateAt["erroring"] = RunStates /\ StateAt["marking"] = RunStates
    /\ StateAt["reporting"] = {"failed"}
BY DEF StateAt, JobStages

\* A step that leaves a request's call, job, record and orphanage alone leaves
\* what is said of it alone.
Same(q) ==
    /\ call'[q] = call[q] /\ job'[q] = job[q] /\ state'[q] = state[q]
    /\ q \in orphan' <=> q \in orphan

FollowsAt(q) ==
    /\ call'[q] \in CallStages
    /\ state'[q] \in StateAt[job'[q]]
    /\ call'[q] # "over" => job'[q] = "none"
    /\ call'[q] \in {"idle", "approving", "asking", "creating"} => state'[q] = "none"
    /\ call'[q] = "created" => state'[q] = "queued"
    /\ call'[q] = "over" /\ job'[q] \in {"none", "done"} /\ q \notin orphan' =>
           state'[q] \notin {"queued", "planning", "executing"}

LEMMA SameFollows ==
    ASSUME IInv, NEW q \in Requests, Same(q)
    PROVE  FollowsAt(q)
BY DEF Same, FollowsAt, IInv, TypeOK, Fresh, RecordFollows, DoneIsFinal

\* The HTTP handler takes its request from stage to stage.
LEMMA CallFollows ==
    ASSUME IInv, NEW r \in Requests,
           \/ \E a \in Actors : Ask(r, a)
           \/ Decide(r) \/ RequestApproval(r) \/ CreateRun(r) \/ CallFails(r)
    PROVE  \A q \in Requests : FollowsAt(q)
<1> USE DEF IInv, TypeOK
<1>1. /\ \A q \in Requests \ {r} : Same(q)
      /\ job' = job /\ orphan' = orphan
    BY DEF Ask, Decide, RequestApproval, CreateRun, CallFails, ToStage, Same, jobVars
<1>2. job[r] = "none"
    BY DEF Fresh, Ask, Decide, RequestApproval, CreateRun, CallFails, ToStage
<1>3. call[r] \in {"idle", "approving", "creating", "asking"} /\ state[r] = "none"
    BY DEF Fresh, Ask, Decide, RequestApproval, CreateRun, CallFails, ToStage
<1>4. CASE CreateRun(r)
    <2>1. call'[r] = "created" /\ state'[r] = "queued"
        BY <1>4 DEF CreateRun, ToStage
    <2> QED
        BY <1>1, <1>2, <2>1, StateAtStages, SameFollows DEF FollowsAt, CallStages, RunStates
<1>5. CASE ~CreateRun(r)
    <2>1. state' = state
        BY <1>5 DEF Ask, Decide, RequestApproval, CallFails
    <2>2. call'[r] \in {"approving", "creating", "asking", "over"}
        BY <1>5 DEF Ask, Decide, RequestApproval, CallFails, ToStage
    <2> QED
        BY <1>1, <1>2, <1>3, <2>1, <2>2, StateAtStages, SameFollows
           DEF FollowsAt, CallStages, RunStates
<1> QED
    BY <1>4, <1>5

\* A write of the handler takes its job and its record on together.
LEMMA WriteFollows ==
    ASSUME IInv, NEW r \in Requests, NEW from \in JobStages \ Stopped,
           NEW s \in RunStates, NEW to \in JobStages \ Stopped,
           Write(r, from, s, to), s \in StateAt[to]
    PROVE  \A q \in Requests : FollowsAt(q)
<1> USE DEF IInv, TypeOK
<1>1. \A q \in Requests \ {r} : Same(q)
    BY DEF Write, Same, httpVars
<1>2. /\ call' = call /\ call[r] = "over" /\ job'[r] = to /\ state'[r] = s
    BY DEF Write, httpVars, Fresh, Stopped
<1>3. FollowsAt(r)
    BY <1>2 DEF FollowsAt, Stopped
<1> QED
    BY <1>1, <1>3, SameFollows

\* A step that does not write the record leaves it in a state that goes with
\* the next stage of the job.
LEMMA StageFollows ==
    ASSUME IInv, NEW r \in Requests, NEW to \in JobStages \ Stopped,
           job[r] \notin Stopped, job' = [job EXCEPT ![r] = to],
           UNCHANGED <<call, state, orphan>>, StateAt[job[r]] \subseteq StateAt[to]
    PROVE  \A q \in Requests : FollowsAt(q)
<1> USE DEF IInv, TypeOK
<1>1. \A q \in Requests \ {r} : Same(q)
    BY DEF Same
<1>2. call[r] = "over" /\ job'[r] = to
    BY DEF Fresh, Stopped
<1>3. FollowsAt(r)
    BY <1>2 DEF FollowsAt, Stopped, RecordFollows
<1> QED
    BY <1>1, <1>3, SameFollows

\* What the parts say of requests, calls, jobs and records, request by request.
LEMMA RequestsStep ==
    ASSUME IInv, Next
    PROVE  \A q \in Requests : FollowsAt(q)
<1> USE DEF IInv, TypeOK
<1>1. /\ job \in [Requests -> JobStages] /\ call \in [Requests -> CallStages]
      /\ state \in [Requests -> RunStates \cup {"none"}]
    OBVIOUS
<1>2. ASSUME NEW r \in Requests,
             \/ \E a \in Actors : Ask(r, a)
             \/ Decide(r) \/ RequestApproval(r) \/ CreateRun(r) \/ CallFails(r)
      PROVE  \A q \in Requests : FollowsAt(q)
    BY <1>2, CallFollows
<1>3. ASSUME NEW r \in Requests, Enqueue(r)
      PROVE  \A q \in Requests : FollowsAt(q)
    <2>1. /\ call' = [call EXCEPT ![r] = "over"] /\ call[r] = "created"
          /\ state' = state /\ orphan' = orphan
        BY <1>3 DEF Enqueue, ToStage
    <2>2. \E s \in {"planning", "pending"} : job' = [job EXCEPT ![r] = s]
        BY <1>3, EnqueueCases DEF StartNow, Wait
    <2>3. \A q \in Requests \ {r} : Same(q)
        BY <1>1, <2>1, <2>2 DEF Same
    <2>4. FollowsAt(r)
        BY <1>1, <2>1, <2>2, StateAtStages DEF FollowsAt, Fresh, CallStages
    <2> QED
        BY <2>3, <2>4, SameFollows
<1>4. ASSUME NEW r \in Requests, Plan(r) \/ Execute(r) \/ Close(r) \/ Fail(r)
      PROVE  \A q \in Requests : FollowsAt(q)
    <2> USE WriteFollows, StateAtStages DEF JobStages, RunStates, Stopped
    <2>1. Plan(r) => \A q \in Requests : FollowsAt(q)
        BY DEF Plan
    <2>2. Execute(r) => \A q \in Requests : FollowsAt(q)
        BY DEF Execute
    <2>3. Write(r, "closing", "completed", "auditing") => \A q \in Requests : FollowsAt(q)
        OBVIOUS
    <2>4. Write(r, "closing", "waiting_approval", "auditing") =>
              \A q \in Requests : FollowsAt(q)
        OBVIOUS
    <2>5. Fail(r) => \A q \in Requests : FollowsAt(q)
        BY DEF Fail
    <2> QED
        BY <1>4, <2>1, <2>2, <2>3, <2>4, <2>5 DEF Close
<1>5. ASSUME NEW r \in Requests,
             \/ MarkStarted(r) \/ RunnerEnds(r) \/ MarkCompleted(r) \/ MarkFailed(r)
             \/ JobFails(r)
      PROVE  \A q \in Requests : FollowsAt(q)
    <2>1. UNCHANGED <<call, state, orphan>>
        BY <1>5 DEF MarkStarted, RunnerEnds, MarkCompleted, MarkFailed, JobFails, Mark,
           httpVars
    <2>2. \E to \in JobStages \ Stopped :
              /\ job[r] \notin Stopped /\ job' = [job EXCEPT ![r] = to]
              /\ StateAt[job[r]] \subseteq StateAt[to]
        <3> USE StateAtStages DEF JobStages, Stopped, RunStates
        <3>1. CASE JobFails(r)
            <4>1. job[r] \in JobStages \ (Stopped \cup Failing)
                BY <3>1 DEF JobFails
            <4>2. StateAt[job[r]] \subseteq StateAt["erroring"]
                BY <4>1 DEF Failing
            <4> QED
                BY <3>1, <4>1, <4>2 DEF JobFails, Caught
        <3> QED
            BY <1>5, <3>1 DEF MarkStarted, RunnerEnds, MarkCompleted, MarkFailed, Mark
    <2> QED
        BY <2>1, <2>2, StageFollows
<1>6. ASSUME NEW r \in Requests, Report(r) \/ FailureFails(r)
      PROVE  \A q \in Requests : FollowsAt(q)
    <2>1. /\ call' = call /\ state' = state /\ orphan \subseteq orphan'
          /\ orphan' \subseteq orphan \cup {r}
          /\ job[r] \in {"auditing", "reporting"} \/ r \in orphan'
          /\ job[r] \notin Stopped
        BY <1>6 DEF Report, FailureFails, Failing, Stopped, httpVars
    <2>2. FreeSlot(r) \/ HandOver(r)
        BY <1>6, <2>1, JobEndsCases DEF Report, FailureFails
    <2>3. call[r] = "over"
        BY <2>1 DEF Fresh, Stopped
    <2>4. ASSUME job'[r] = "done" PROVE FollowsAt(r)
        <3>1. job[r] \in {"auditing", "reporting"} =>
                  state[r] \in {"completed", "waiting_approval", "failed"}
            BY StateAtStages DEF RecordFollows
        <3> QED
            BY <1>1, <2>1, <2>3, <2>4, <3>1, StateAtStages DEF FollowsAt
    <2>5. CASE FreeSlot(r)
        <3>1. \A q \in Requests \ {r} : Same(q)
            BY <1>1, <2>1, <2>5 DEF FreeSlot, Same
        <3> QED
            BY <1>1, <2>4, <2>5, <3>1, SameFollows DEF FreeSlot
    <2>6. CASE HandOver(r)
        <3> DEFINE h == Head(pending)
        <3>1. h \in Requests /\ job[h] = "pending" /\ h # r
            <4>1. h \in Requests /\ h = pending[1] /\ 1 \in 1 .. Len(pending)
                BY <2>6 DEF HandOver
            <4> QED
                BY <2>1, <4>1 DEF ListHolds, Stopped
        <3>2. job' = [job EXCEPT ![r] = "done", ![h] = "planning"]
            BY <2>6 DEF HandOver
        <3> HIDE DEF h
        <3>3. /\ job'[r] = "done" /\ job'[h] = "planning"
              /\ \A q \in Requests \ {r, h} : Same(q)
            BY <1>1, <2>1, <3>1, <3>2 DEF Same
        <3>4. FollowsAt(h)
            BY <2>1, <3>1, <3>3, StateAtStages
               DEF FollowsAt, RecordFollows, Fresh, CallStages
        <3> QED
            BY <2>4, <3>3, <3>4, SameFollows
    <2> QED
        BY <2>2, <2>5, <2>6
<1>7. ASSUME NewProcess, Crash \/ Restart
      PROVE  \A q \in Requests : FollowsAt(q)
    <2> SUFFICES ASSUME NEW q \in Requests PROVE FollowsAt(q)
        OBVIOUS
    <2>1. /\ call'[q] \in {"idle", "over"} /\ (call'[q] = "idle" => call[q] = "idle")
          /\ job'[q] \in {"none", "done"} /\ (job[q] = "none" => job'[q] = "none")
          /\ state'[q] = state[q]
        BY <1>7 DEF NewProcess
    <2>2. call'[q] = "idle" => job'[q] = "none" /\ state[q] = "none"
        BY <2>1 DEF Fresh
    <2>3. q \notin orphan' => state[q] \notin {"queued", "planning", "executing"}
        <3>1. CASE call[q] # "over"
            <4>1. job[q] = "none"
                BY <3>1 DEF Fresh
            <4>2. call[q] # "created" \/ q \in orphan'
                BY <1>7 DEF Crash, Unfinished, Restart, ClosedIsQuiet
            <4>3. call[q] # "created" => state[q] = "none"
                BY <1>1, <3>1 DEF Fresh, CallStages
            <4> QED
                BY <4>2, <4>3
        <3>2. CASE call[q] = "over" /\ job[q] \in {"none", "done"}
            BY <1>7, <3>2 DEF DoneIsFinal, Crash, Restart
        <3>3. CASE job[q] \notin {"none", "done"}
            <4>1. Crash
                BY <1>7, <3>3 DEF Restart
            <4>2. job[q] \in {"auditing", "reporting"} \/ q \in orphan'
                BY <3>3, <4>1 DEF Crash, Unfinished
            <4> QED
                BY <4>2, StateAtStages DEF RecordFollows
        <3> QED
            BY <3>1, <3>2, <3>3
    <2> QED
        BY <1>1, <2>1, <2>2, <2>3, StateAtStages DEF FollowsAt, CallStages
<1>8. CASE CloseQueue \/ Midnight
    <2>1. UNCHANGED <<call, job, state, orphan>>
        BY <1>8 DEF CloseQueue, Midnight, httpVars, jobVars
    <2> QED
        BY <2>1, SameFollows DEF Same
<1> QED
    <2>1. Crash \/ Restart => NewProcess
        BY DEF Crash, Restart
    <2> QED
        BY <1>2, <1>3, <1>4, <1>5, <1>6, <1>7, <1>8, <2>1 DEF Next, CallStep, JobStep

-----------------------------------------------------------------------------
(* The agents and the quota                                                 *)

KeptMarked(q) ==
    q \in orphan \/ job[q] \in Marked => q \in orphan' \/ job'[q] \in Marked

\* A job that shows its agent as running keeps doing so until its own write.
LEMMA MarkedStep ==
    ASSUME IInv, Next, NEW q \in Requests
    PROVE  \/ KeptMarked(q)
           \/ MarkCompleted(q) \/ MarkFailed(q)
<1> USE DEF IInv, TypeOK
<1>1. CASE UNCHANGED job /\ orphan \subseteq orphan'
    BY <1>1 DEF KeptMarked
<1>2. ASSUME NEW r \in Requests, Enqueue(r)
      PROVE  KeptMarked(q)
    <2>1. \E s \in {"planning", "pending"} : job' = [job EXCEPT ![r] = s]
        BY <1>2, EnqueueCases DEF StartNow, Wait
    <2>2. job[r] = "none" /\ orphan' = orphan
        BY <1>2 DEF Enqueue, ToStage, Fresh
    <2> QED
        BY <2>1, <2>2 DEF KeptMarked, Marked
<1>3. ASSUME NEW r \in Requests, JobStep(r) \/ JobFails(r), ~Report(r),
             ~MarkCompleted(q), ~MarkFailed(q)
      PROVE  KeptMarked(q)
    <2>1. orphan' = orphan /\ \E s \in JobStages : job' = [job EXCEPT ![r] = s]
        BY <1>3 DEF JobStep, Plan, MarkStarted, Execute, RunnerEnds, MarkCompleted, Close,
           MarkFailed, Fail, JobFails, Write, Mark, Caught, JobStages
    <2>2. CASE q # r
        BY <2>1, <2>2 DEF KeptMarked
    <2>3. CASE q = r
        BY <1>3, <2>3 DEF JobStep, Plan, MarkStarted, Execute, RunnerEnds, Close, Fail,
           JobFails, Write, Mark, Caught, KeptMarked, Marked
    <2> QED
        BY <2>2, <2>3
<1>4. ASSUME NEW r \in Requests, Report(r) \/ FailureFails(r)
      PROVE  KeptMarked(q)
    <2>1. /\ orphan \subseteq orphan'
          /\ job[r] \in {"auditing", "reporting"} \/ r \in orphan'
          /\ job[r] \notin Stopped
          /\ JobEnds(r)
        BY <1>4 DEF Report, FailureFails, Failing, Stopped
    <2>2. CASE q = r
        BY <2>1, <2>2 DEF KeptMarked, Marked
    <2>3. CASE q # r /\ FreeSlot(r)
        BY <2>1, <2>3 DEF KeptMarked, FreeSlot
    <2>4. CASE q # r /\ HandOver(r)
        <3> DEFINE h == Head(pending)
        <3>1. h \in Requests /\ job[h] = "pending"
            <4>1. h \in Requests /\ h = pending[1] /\ 1 \in 1 .. Len(pending)
                BY <2>4 DEF HandOver
            <4> QED
                BY <4>1 DEF ListHolds
        <3>2. job' = [job EXCEPT ![r] = "done", ![h] = "planning"]
            BY <2>4 DEF HandOver
        <3> HIDE DEF h
        <3>3. q # h => job'[q] = job[q]
            BY <2>4, <3>1, <3>2
        <3> QED
            BY <2>1, <3>1, <3>3 DEF KeptMarked, Marked
    <2> QED
        BY <2>1, <2>2, <2>3, <2>4, JobEndsCases
<1>5. ASSUME Crash \/ Restart
      PROVE  KeptMarked(q)
    <2>1. Crash => KeptMarked(q)
        BY DEF Crash, Unfinished, KeptMarked, Marked
    <2>2. Restart => KeptMarked(q)
        BY DEF Restart, KeptMarked, Marked
    <2> QED
        BY <1>5, <2>1, <2>2
<1>6. ASSUME NEW r \in Requests,
             \/ \E a \in Actors : Ask(r, a)
             \/ Decide(r) \/ RequestApproval(r) \/ CreateRun(r) \/ CallFails(r)
      PROVE  UNCHANGED job /\ orphan \subseteq orphan'
    BY <1>6 DEF Ask, Decide, RequestApproval, CreateRun, CallFails, jobVars
<1>7. CloseQueue \/ Midnight => UNCHANGED job /\ orphan \subseteq orphan'
    BY DEF CloseQueue, Midnight, jobVars
<1> QED
    BY <1>1, <1>2, <1>3, <1>4, <1>5, <1>6, <1>7 DEF Next, CallStep, JobStep

\* No order of two runs of one agent ends on "running".
LEMMA RunningStep ==
    ASSUME IInv, Next
    PROVE  RunningBy'
<1> USE DEF IInv, TypeOK
<1>1. agent' = agent
    BY DEF Next, CallStep, JobStep, Ask, Decide, RequestApproval, CreateRun, Enqueue,
       CallFails, Plan, MarkStarted, Execute, RunnerEnds, MarkCompleted, Close, Report,
       MarkFailed, Fail, JobFails, FailureFails, CloseQueue, Crash, Restart, Midnight,
       NewProcess, Write, Mark, httpVars
<1>2. ASSUME NEW r \in Requests, MarkStarted(r) \/ MarkCompleted(r) \/ MarkFailed(r)
      PROVE  RunningBy'
    <2> SUFFICES ASSUME NEW g \in Agents, status'[g] = "running"
                 PROVE  \E q \in Requests :
                            agent[q] = g /\ (q \in orphan' \/ job'[q] \in Marked)
        BY <1>1 DEF RunningBy
    <2>1. CASE g = agent[r]
        <3>1. MarkStarted(r)
            BY <1>2, <2>1 DEF MarkCompleted, MarkFailed, Mark
        <3>2. job'[r] \in Marked
            BY <3>1 DEF MarkStarted, Mark, Marked
        <3> QED
            BY <2>1, <3>2
    <2>2. CASE g # agent[r]
        <3>1. status[g] = "running"
            BY <1>2, <2>2 DEF MarkStarted, MarkCompleted, MarkFailed, Mark
        <3>2. PICK q \in Requests : agent[q] = g /\ (q \in orphan \/ job[q] \in Marked)
            BY <3>1 DEF RunningBy
        <3>3. job'[q] = job[q] /\ orphan' = orphan
            BY <1>2, <2>2, <3>2 DEF MarkStarted, MarkCompleted, MarkFailed, Mark
        <3> QED
            BY <3>2, <3>3
    <2> QED
        BY <2>1, <2>2
<1>3. ASSUME \A r \in Requests : ~MarkStarted(r) /\ ~MarkCompleted(r) /\ ~MarkFailed(r)
      PROVE  RunningBy'
    <2>1. status' = status
        BY <1>3 DEF Next, CallStep, JobStep, Ask, Decide, RequestApproval, CreateRun,
           Enqueue, CallFails, Plan, Execute, RunnerEnds, Close, Report, Fail, JobFails,
           FailureFails, CloseQueue, Crash, Restart, Midnight, NewProcess, Write
    <2>2. \A q \in Requests : KeptMarked(q)
        BY <1>3, MarkedStep
    <2> QED
        BY <1>1, <2>1, <2>2 DEF RunningBy, KeptMarked
<1> QED
    BY <1>2, <1>3

\* What a process that ended has let through is at most a quota more.
LEMMA CountedStep ==
    ASSUME IInv, Next
    PROVE  /\ usage' \in [Actors -> 0 .. MaxPerDay] /\ taken' \in [Actors -> Nat]
           /\ crashes' \in 0 .. MaxCrashes /\ boots' \in 0 .. MaxCrashes
           /\ Counted'
<1> USE RunsAssumption DEF IInv, TypeOK, Counted
<1> DEFINE Quota(n) == MaxPerDay * n
<1>1. \A n \in Nat : Quota(n + 1) = Quota(n) + MaxPerDay /\ Quota(n) \in Nat
    OBVIOUS
<1>2. ASSUME NEW r \in Requests, NEW a \in Actors, Ask(r, a)
      PROVE  /\ usage' \in [Actors -> 0 .. MaxPerDay] /\ taken' \in [Actors -> Nat]
             /\ UNCHANGED <<crashes, boots>>
             /\ \A b \in Actors : taken'[b] - usage'[b] = taken[b] - usage[b]
    BY <1>2 DEF Ask
<1>3. ASSUME NEW r \in Requests,
             CallStep(r) \/ CallFails(r) \/ JobStep(r) \/ JobFails(r) \/ FailureFails(r)
      PROVE  UNCHANGED <<usage, taken, crashes, boots>>
    BY <1>3 DEF CallStep, JobStep, Decide, RequestApproval, CreateRun, Enqueue, CallFails,
       Plan, MarkStarted, Execute, RunnerEnds, MarkCompleted, Close, Report, MarkFailed,
       Fail, JobFails, FailureFails, Write, Mark, httpVars
<1>4. CloseQueue => UNCHANGED <<usage, taken, crashes, boots>>
    BY DEF CloseQueue, httpVars
<1>5. ASSUME Crash \/ Restart
      PROVE  /\ usage' = [a \in Actors |-> 0] /\ taken' = taken
             /\ crashes < MaxCrashes /\ crashes' = crashes + 1 /\ boots' = boots + 1
    BY <1>5 DEF Crash, Restart, NewProcess
<1>6. Midnight => /\ usage' = [a \in Actors |-> 0] /\ taken' = [a \in Actors |-> 0]
                  /\ crashes' = crashes /\ boots' = 0
    BY DEF Midnight
<1> DEFINE Goal == /\ usage' \in [Actors -> 0 .. MaxPerDay] /\ taken' \in [Actors -> Nat]
                   /\ crashes' \in 0 .. MaxCrashes /\ boots' \in 0 .. MaxCrashes
                   /\ boots' <= crashes'
                   /\ \A a \in Actors : taken'[a] <= usage'[a] + Quota(boots')
<1>7. /\ boots \in Nat /\ boots <= crashes /\ crashes \in 0 .. MaxCrashes
      /\ MaxCrashes \in Nat /\ MaxPerDay \in Nat /\ boots \in 0 .. MaxCrashes
      /\ usage \in [Actors -> 0 .. MaxPerDay] /\ taken \in [Actors -> Nat]
      /\ \A a \in Actors : taken[a] <= usage[a] + Quota(boots)
    OBVIOUS
<1>8. Goal
    <2> HIDE RunsAssumption DEF Quota, IInv, TypeOK, Counted
    <2>1. ASSUME NEW r \in Requests, NEW a \in Actors, Ask(r, a) PROVE Goal
        <3>1. \A b \in Actors : taken'[b] <= usage'[b] + Quota(boots')
            <4> SUFFICES ASSUME NEW b \in Actors
                         PROVE  taken'[b] <= usage'[b] + Quota(boots')
                OBVIOUS
            <4>1. /\ taken'[b] - usage'[b] = taken[b] - usage[b] /\ boots' = boots
                  /\ usage'[b] \in Int /\ taken'[b] \in Int
                BY <1>2, <2>1
            <4>2. /\ taken[b] <= usage[b] + Quota(boots)
                  /\ taken[b] \in Int /\ usage[b] \in Int /\ Quota(boots) \in Int
                BY <1>1, <1>7
            <4> QED
                BY <4>1, <4>2
        <3> QED
            BY <1>2, <1>7, <2>1, <3>1
    <2>2. CASE UNCHANGED <<usage, taken, crashes, boots>>
        BY <1>7, <2>2
    <2>3. CASE Crash \/ Restart
        <3>1. \A b \in Actors : taken'[b] <= usage'[b] + Quota(boots')
            <4> SUFFICES ASSUME NEW b \in Actors
                         PROVE  taken'[b] <= usage'[b] + Quota(boots')
                OBVIOUS
            <4>1. /\ taken[b] <= usage[b] + Quota(boots) /\ usage[b] <= MaxPerDay
                  /\ taken[b] \in Int /\ usage[b] \in Int /\ Quota(boots) \in Int
                BY <1>1, <1>7
            <4>2. Quota(boots') = Quota(boots) + MaxPerDay
                BY <1>1, <1>5, <1>7, <2>3
            <4>3. taken'[b] = taken[b] /\ usage'[b] = 0
                BY <1>5, <2>3
            <4> QED
                BY <1>7, <4>1, <4>2, <4>3
        <3> QED
            BY <1>5, <1>7, <2>3, <3>1
    <2>4. CASE Midnight
        <3>1. Quota(0) \in Nat
            BY <1>1
        <3> QED
            BY <1>6, <1>7, <2>4, <3>1
    <2> QED
        BY <1>3, <1>4, <2>1, <2>2, <2>3, <2>4 DEF Next
<1> QED
    BY <1>8

LEMMA ClosedStep ==
    ASSUME IInv, Next
    PROVE  ClosedIsQuiet'
<1> USE DEF IInv, TypeOK
<1>1. CASE ~closed'
    BY <1>1 DEF ClosedIsQuiet
<1>2. CASE closed' /\ ~closed
    BY <1>2 DEF Next, CallStep, JobStep, Ask, Decide, RequestApproval, CreateRun, Enqueue,
       CallFails, Plan, MarkStarted, Execute, RunnerEnds, MarkCompleted, Close, Report,
       MarkFailed, Fail, JobFails, FailureFails, CloseQueue, Crash, Restart, Midnight,
       NewProcess, Write, Mark, httpVars, ClosedIsQuiet
<1>3. CASE closed' /\ closed
    <2>1. \A q \in Requests : call'[q] = call[q]
        BY <1>3 DEF Next, CallStep, JobStep, Ask, Decide, RequestApproval, CreateRun,
           Enqueue, CallFails, Plan, MarkStarted, Execute, RunnerEnds, MarkCompleted, Close,
           Report, MarkFailed, Fail, JobFails, FailureFails, CloseQueue, Crash, Restart,
           Midnight, NewProcess, Write, Mark, ToStage, httpVars, ClosedIsQuiet
    <2> QED
        BY <1>3, <2>1 DEF ClosedIsQuiet
<1> QED
    BY <1>1, <1>2, <1>3

\* The types of the variables that the lane and the quota leave.
OtherTypes ==
    /\ agent \in [Requests -> Agents]
    /\ approval \in [Requests -> BOOLEAN]
    /\ call \in [Requests -> CallStages]
    /\ state \in [Requests -> RunStates \cup {"none"}]
    /\ status \in [Agents -> {"idle", "running", "error"}]
    /\ closed \in BOOLEAN
    /\ faults \in 0 .. MaxFaults /\ days \in 0 .. MaxDays
    /\ orphan \subseteq Requests

LEMMA OtherTypesStep ==
    ASSUME IInv, Next
    PROVE  OtherTypes'
<1> USE RunsAssumption DEF OtherTypes
<1>1. OtherTypes
    BY DEF IInv, TypeOK
<1>2. ASSUME NEW r \in Requests,
             \/ \E a \in Actors : Ask(r, a)
             \/ Decide(r) \/ RequestApproval(r) \/ CreateRun(r) \/ CallFails(r) \/ Enqueue(r)
      PROVE  OtherTypes'
    <2>1. CASE \E a \in Actors : Ask(r, a)
        BY <1>1, <2>1 DEF Ask, CallStages
    <2>2. CASE Decide(r)
        BY <1>1, <2>2 DEF Decide, ToStage, CallStages
    <2>3. CASE RequestApproval(r)
        BY <1>1, <2>3 DEF RequestApproval, ToStage, CallStages
    <2>4. CASE CreateRun(r)
        BY <1>1, <2>4 DEF CreateRun, ToStage, CallStages, RunStates
    <2>5. CASE CallFails(r)
        BY <1>1, <2>5 DEF CallFails, CallStages
    <2>6. CASE Enqueue(r)
        BY <1>1, <2>6 DEF Enqueue, ToStage, CallStages
    <2> QED
        BY <1>2, <2>1, <2>2, <2>3, <2>4, <2>5, <2>6
<1>3. ASSUME NEW r \in Requests, NEW from, NEW s \in RunStates, NEW to, Write(r, from, s, to)
      PROVE  OtherTypes'
    BY <1>1, <1>3 DEF Write, httpVars
<1>4. ASSUME NEW r \in Requests, NEW from, NEW s \in {"idle", "running", "error"}, NEW to,
             Mark(r, from, s, to)
      PROVE  OtherTypes'
    BY <1>1, <1>4 DEF Mark, httpVars
<1>5. ASSUME NEW r \in Requests, Plan(r) \/ Execute(r) \/ Close(r) \/ Fail(r)
      PROVE  OtherTypes'
    BY <1>3, <1>5 DEF Plan, Execute, Close, Fail, RunStates
<1>6. ASSUME NEW r \in Requests, MarkStarted(r) \/ MarkCompleted(r) \/ MarkFailed(r)
      PROVE  OtherTypes'
    BY <1>4, <1>6 DEF MarkStarted, MarkCompleted, MarkFailed
<1>7. ASSUME NEW r \in Requests, RunnerEnds(r) \/ JobFails(r) \/ Report(r) \/ FailureFails(r)
      PROVE  OtherTypes'
    BY <1>1, <1>7 DEF RunnerEnds, JobFails, Report, FailureFails, httpVars
<1>8. CASE CloseQueue \/ Midnight
    <2>1. CASE CloseQueue
        BY <1>1, <2>1 DEF CloseQueue, httpVars
    <2>2. CASE Midnight
        BY <1>1, <2>2 DEF Midnight
    <2> QED
        BY <1>8, <2>1, <2>2
<1>9. CASE Crash \/ Restart
    <2>1. call' = [r \in Requests |-> IF call[r] = "idle" THEN "idle" ELSE "over"]
        BY <1>9 DEF Crash, Restart, NewProcess
    <2>2. call' \in [Requests -> CallStages]
        BY <2>1 DEF CallStages
    <2>3. orphan' \subseteq Requests
        BY <1>1, <1>9 DEF Crash, Restart
    <2>4. closed' = FALSE /\ UNCHANGED <<agent, approval, state, status, faults, days>>
        BY <1>9 DEF Crash, Restart, NewProcess
    <2> QED
        BY <1>1, <2>2, <2>3, <2>4
<1> QED
    BY <1>2, <1>5, <1>6, <1>7, <1>8, <1>9 DEF Next, CallStep, JobStep

-----------------------------------------------------------------------------
(* The theorems                                                             *)

LEMMA InitInv == Init => IInv
<1> SUFFICES ASSUME Init PROVE IInv
    OBVIOUS
<1> USE RunsAssumption DEF Init
<1>1. InSlot(job) = {}
    BY DEF InSlot, Stopped
<1>2. SlotsFinite /\ Cardinality(InSlot(job)) = 0
    BY <1>1, FS_EmptySet DEF SlotsFinite
<1>3. TypeOK
    <2>1. pending \in Seq(Requests) /\ pending = <<>>
        OBVIOUS
    <2>2. /\ usage \in [Actors -> 0 .. MaxPerDay] /\ taken \in [Actors -> Nat]
          /\ call \in [Requests -> CallStages] /\ job \in [Requests -> JobStages]
          /\ state \in [Requests -> RunStates \cup {"none"}]
        BY DEF CallStages, JobStages
    <2>3. /\ agent \in [Requests -> Agents] /\ approval \in [Requests -> BOOLEAN]
          /\ status \in [Agents -> {"idle", "running", "error"}]
          /\ closed \in BOOLEAN /\ orphan \subseteq Requests
        OBVIOUS
    <2>4. /\ faults \in 0 .. MaxFaults /\ days \in 0 .. MaxDays
          /\ crashes \in 0 .. MaxCrashes /\ boots \in 0 .. MaxCrashes
        OBVIOUS
    <2>5. Cardinality(InSlot(job)) <= Slots
        BY <1>2
    <2> HIDE DEF Init
    <2> QED
        BY <2>1, <2>2, <2>3, <2>4, <2>5 DEF TypeOK
<1>4. ListHolds /\ Fresh /\ DoneIsFinal /\ RunningBy /\ ClosedIsQuiet /\ Counted
    BY DEF ListHolds, Fresh, DoneIsFinal, RunningBy, ClosedIsQuiet, Counted
<1>5. RecordFollows
    BY StateAtStages DEF RecordFollows
<1> QED
    BY <1>2, <1>3, <1>4, <1>5 DEF IInv

LEMMA StepInv == IInv /\ [Next]_vars => IInv'
<1> SUFFICES ASSUME IInv, [Next]_vars PROVE IInv'
    OBVIOUS
<1>1. CASE Next
    <2>1. TypeOK'
        BY <1>1, LaneStep, OtherTypesStep, CountedStep DEF TypeOK, LaneOK, OtherTypes
    <2>2. Fresh' /\ RecordFollows' /\ DoneIsFinal'
        BY <1>1, RequestsStep DEF Fresh, RecordFollows, DoneIsFinal, FollowsAt
    <2> QED
        BY <1>1, <2>1, <2>2, LaneStep, RunningStep, ClosedStep, CountedStep
           DEF IInv, LaneOK
<1>2. CASE UNCHANGED vars
    BY <1>2 DEF vars, httpVars, jobVars, IInv, TypeOK, SlotsFinite, ListHolds, Fresh,
       RecordFollows, DoneIsFinal, RunningBy, ClosedIsQuiet, Counted
<1> QED
    BY <1>1, <1>2

\* Every reachable state of the runs satisfies the nine parts of IInv.
THEOREM RunsInvariant == Spec => []IInv
BY InitInv, StepInv, PTL DEF Spec

\* consume() of the daily quota: each process of a day lets at most MaxPerDay
\* requests of an actor through, however the requests overlap.
THEOREM QuotaIsKept == Spec => []QuotaHolds
<1>1. IInv => QuotaHolds
    <2> SUFFICES ASSUME IInv, NEW a \in Actors
                 PROVE  taken[a] <= MaxPerDay * (1 + boots)
        BY DEF QuotaHolds
    <2>1. /\ usage[a] \in 0 .. MaxPerDay /\ taken[a] \in Nat /\ boots \in Nat
          /\ taken[a] <= usage[a] + MaxPerDay * boots
        BY RunsAssumption DEF IInv, TypeOK, Counted
    <2>2. MaxPerDay * (1 + boots) = MaxPerDay + MaxPerDay * boots
          /\ MaxPerDay * boots \in Nat
        BY <2>1, RunsAssumption
    <2> QED
        BY <2>1, <2>2, RunsAssumption
<1> QED
    BY <1>1, RunsInvariant, PTL

\* AgentRunService and the agent.run handler: a record that is not final is
\* being worked on or was left behind on record, and an agent shown as running
\* has a run in progress.
THEOREM RecordsAreSound == Spec => []RecordsSound
<1>1. IInv => NothingForgotten
    <2> SUFFICES ASSUME IInv, NEW r \in Requests,
                        state[r] \in {"queued", "planning", "executing"},
                        r \notin orphan, call[r] # "created", job[r] \in Stopped
                 PROVE  job[r] = "pending" /\ \E i \in DOMAIN pending : pending[i] = r
        BY DEF NothingForgotten
    <2>1. call[r] = "over"
        BY DEF IInv, TypeOK, Fresh, CallStages
    <2>2. job[r] = "pending"
        BY <2>1 DEF IInv, DoneIsFinal, Stopped
    <2>3. \E i \in 1 .. Len(pending) : pending[i] = r
        BY <2>2 DEF IInv, ListHolds
    <2>4. DOMAIN pending = 1 .. Len(pending)
        BY DEF IInv, TypeOK
    <2> QED
        BY <2>2, <2>3, <2>4
<1>2. IInv => RunningIsBusy
    BY DEF IInv, RunningBy, RunningIsBusy, Marked, Stopped
<1>3. IInv => RecordsSound
    BY <1>1, <1>2 DEF IInv, RecordsSound
<1> QED
    BY <1>3, RunsInvariant, PTL

\* The state column: RUN_TRANSITIONS, which no writer consults, is followed all
\* the same, but for a run whose handler has failed.
THEOREM RecordsMoveLegally == Spec => MovesAreLegal
<1> DEFINE Legal == \A r \in Requests :
                        (state'[r] # state[r] /\ state[r] # "none")
                        => \/ state'[r] \in RUN_TRANSITIONS[state[r]]
                           \/ state'[r] = "failed" /\ job[r] = "marking"
<1>1. ASSUME IInv, Next PROVE Legal
    <2> USE <1>1
    <2>0. state \in [Requests -> RunStates \cup {"none"}] /\ Fresh /\ RecordFollows
        BY DEF IInv, TypeOK
    <2>1. ASSUME NEW r \in Requests, CreateRun(r) PROVE Legal
        <3>1. state[r] = "none"
            BY <2>0, <2>1 DEF CreateRun, ToStage, Fresh
        <3> QED
            BY <2>0, <2>1, <3>1 DEF CreateRun
    <2>2. ASSUME NEW r \in Requests, Plan(r) \/ Execute(r) \/ Close(r) \/ Fail(r) PROVE Legal
        <3>1. /\ RUN_TRANSITIONS["queued"] = {"planning", "cancelled"}
              /\ RUN_TRANSITIONS["planning"] =
                     {"waiting_approval", "executing", "failed", "cancelled"}
              /\ RUN_TRANSITIONS["executing"] =
                     {"completed", "failed", "cancelled", "waiting_approval"}
            BY DEF RUN_TRANSITIONS, RunStates
        <3>2. \A q \in Requests \ {r} : state'[q] = state[q]
            BY <2>0, <2>2 DEF Plan, Execute, Close, Fail, Write
        <3>3. \/ state'[r] \in RUN_TRANSITIONS[state[r]]
              \/ state'[r] = "failed" /\ job[r] = "marking"
            <4>1. state[r] \in StateAt[job[r]]
                BY <2>0 DEF RecordFollows
            <4>2. CASE Plan(r)
                <5>1. state[r] = "queued"
                    BY <4>1, <4>2, StateAtStages DEF Plan, Write
                <5>2. state'[r] \in {"planning"}
                    BY <2>0, <4>2 DEF Plan, Write
                <5> QED
                    BY <3>1, <5>1, <5>2
            <4>3. CASE Execute(r)
                <5>1. state[r] = "planning"
                    BY <4>1, <4>3, StateAtStages DEF Execute, Write
                <5>2. state'[r] \in {"executing"}
                    BY <2>0, <4>3 DEF Execute, Write
                <5> QED
                    BY <3>1, <5>1, <5>2
            <4>4. CASE Close(r)
                <5>1. state[r] = "executing"
                    BY <4>1, <4>4, StateAtStages DEF Close, Write
                <5>2. state'[r] \in {"completed", "waiting_approval"}
                    BY <2>0, <4>4 DEF Close, Write
                <5> QED
                    BY <3>1, <5>1, <5>2
            <4>5. CASE Fail(r)
                BY <2>0, <4>5 DEF Fail, Write
            <4> QED
                BY <2>2, <4>2, <4>3, <4>4, <4>5
        <3> QED
            BY <3>2, <3>3
    <2>3. CASE UNCHANGED state
        BY <2>3
    <2> QED
        BY <1>1, <2>1, <2>2, <2>3
           DEF Next, CallStep, JobStep, Ask, Decide, RequestApproval, Enqueue, CallFails,
               MarkStarted, RunnerEnds, MarkCompleted, Report, MarkFailed, JobFails,
               FailureFails, CloseQueue, Crash, Restart, Midnight, NewProcess, Mark
<1>2. IInv /\ [Next]_vars => [Legal]_vars
    BY <1>1
<1> QED
    BY <1>2, RunsInvariant, PTL DEF Spec, MovesAreLegal

-----------------------------------------------------------------------------
(* The agents of the company (CompanyAgents), for any numbers of agents, of *)
(* requests at once and of changes between their steps                      *)

DeletionSteps == {"children", "projects", "tasks", "approvals", "delete"}

CompanyRequest ==
    [pc : {"idle", "create"} \cup DeletionSteps, agent : Staff \cup {Nobody},
     level : {"L0", "L1"}, parent : Staff \cup {Nobody},
     fallback : Staff \cup {Nobody}, alone : BOOLEAN]

\* A deletion is of an agent, and hands over to another; a creation of an
\* executive began when there was none.
RequestsTyped ==
    /\ request \in [Handlers -> CompanyRequest]
    /\ \A r \in Handlers :
          /\ request[r].pc \notin DeletionSteps => request[r].agent = Nobody
          /\ request[r].pc \in DeletionSteps =>
                request[r].agent # Nobody
                /\ request[r].fallback \notin {Nobody, request[r].agent}
          /\ request[r].pc = "create" /\ request[r].level = "L0" => request[r].alone

\* The executive that should stay is not being deleted, and no other is made.
ExecutiveStays ==
    why \cap {"archived", "revived"} = {} =>
        /\ ActiveExecutives # {}
        /\ \A r \in Handlers :
              /\ request[r].agent # First(ActiveExecutives)
              /\ request[r].pc = "create" => request[r].level = "L1"

ExecutiveAlone ==
    why \cap {"race", "reactivated", "revived"} = {} =>
        \A a, b \in ActiveExecutives : a = b

\* What an agent still holds of a kind that a deletion of it handed over
\* already came after that.
GivenLate == \A i \in Items : TooLate(holder[i], i) \subseteq late

\* S holds the parents of a and of its members: a is not its own superior, if
\* there is such a set without a.
Above(rows, S, a) ==
    \A c \in S \cup {a} : rows[c].parent \in S \cup {Nobody}

Rootward(rows) ==
    \A a \in Staff : \E S \in SUBSET Staff : a \notin S /\ Above(rows, S, a)

Acyclic == why \cap {"patched", "headed"} = {} => Rootward(agents)

CompanyInv ==
    /\ CompanyTypeOK /\ RequestsTyped
    /\ ExecutiveStays /\ ExecutiveAlone /\ GivenLate /\ Acyclic

(* Agents are in the order of their creation *)

\* The first of some agents is one of them, and before the others.
LEMMA FirstAgent ==
    ASSUME NEW S, S \subseteq Staff, S # {}
    PROVE  First(S) \in S /\ \A b \in S : First(S) <= b
<1> DEFINE Less == {ss \in Nat \X Nat : ss[1] < ss[2]}
<1>1. S \subseteq Nat
    BY CompanyAssumption DEF Staff
<1>2. IsWellFoundedOn(Less, Nat)
    BY NatLessThanWellFounded DEF OpToRel
<1>3. PICK a \in S : \A b \in S : <<b, a>> \notin Less
    <2> HIDE DEF Less
    <2> QED
        BY <1>1, <1>2, WFMin
<1>4. ASSUME NEW b \in S PROVE a <= b
    <2>1. a \in Nat /\ b \in Nat
        BY <1>1
    <2>2. ~(<<b, a>> \in Less)
        BY <1>3
    <2> QED
        BY <2>1, <2>2
<1> QED
    BY <1>4 DEF First

\* The first of some agents is the first of those that are left with it.
LEMMA FirstStays ==
    ASSUME NEW S, S \subseteq Staff,
           NEW T, T \subseteq S, First(S) \in T
    PROVE  First(T) = First(S)
<1>1. T # {} /\ T \subseteq Staff
    OBVIOUS
<1>2. First(T) <= First(S) /\ First(S) <= First(T)
    BY <1>1, FirstAgent
<1>3. First(T) \in Staff /\ First(S) \in Staff
    BY <1>1, FirstAgent
<1> QED
    BY <1>2, <1>3 DEF Staff

(* The hierarchy *)

\* Taking parents away leaves no agent its own superior.
LEMMA RootwardFewer ==
    ASSUME NEW g, NEW h, Rootward(g),
           \A a \in Staff : h[a].parent \in {g[a].parent, Nobody}
    PROVE  Rootward(h)
BY DEF Rootward, Above

\* Nor does a new agent, which nobody is below.
LEMMA RootwardNew ==
    ASSUME NEW g, NEW h, Rootward(g), NEW n \in Staff,
           \A a \in Staff : g[a].parent # n,
           \A a \in Staff \ {n} : h[a].parent = g[a].parent,
           h[n].parent \in (Staff \ {n}) \cup {Nobody}
    PROVE  Rootward(h)
<1> SUFFICES ASSUME NEW a \in Staff
             PROVE  \E T \in SUBSET Staff : a \notin T /\ Above(h, T, a)
    BY DEF Rootward
<1>1. CASE a # n
    <2>1. PICK S \in SUBSET Staff : a \notin S /\ Above(g, S, a)
        BY DEF Rootward
    <2>2. Above(h, S \ {n}, a)
        BY <1>1, <2>1 DEF Above
    <2> QED
        BY <2>1, <2>2
<1>2. CASE a = n /\ h[n].parent = Nobody
    <2>1. Above(h, {}, a)
        BY <1>2 DEF Above
    <2> QED
        BY <2>1
<1>3. CASE a = n /\ h[n].parent # Nobody
    <2> DEFINE p == h[n].parent
    <2>1. p \in Staff \ {n}
        BY <1>3
    <2>2. PICK S \in SUBSET Staff : p \notin S /\ Above(g, S, p)
        BY <2>1 DEF Rootward
    <2>3. Above(h, (S \cup {p}) \ {n}, a)
        BY <1>3, <2>1, <2>2 DEF Above
    <2> QED
        BY <1>3, <2>1, <2>2, <2>3
<1> QED
    BY <1>1, <1>2, <1>3

\* Nor does it when the children of an agent go under another that is not
\* below the agent.
LEMMA RootwardMoved ==
    ASSUME NEW g, NEW h, Rootward(g), NEW A \in Staff, NEW f \in Staff,
           A # Nobody,
           NEW S0 \in SUBSET Staff, A \notin S0, Above(g, S0, f), f # A,
           \A c \in Staff : h[c].parent = IF g[c].parent = A THEN f ELSE g[c].parent
    PROVE  Rootward(h)
<1>1. PICK S1 \in SUBSET Staff : f \notin S1 /\ Above(g, S1, f)
    BY DEF Rootward
<1> DEFINE U == (S0 \cap S1) \cup {f}
<1>2. \A c \in U : g[c].parent # A /\ g[c].parent \in (U \ {f}) \cup {Nobody}
    BY <1>1 DEF Above
<1>3. U \in SUBSET Staff
    BY <1>1
<1>4. \A c \in U : h[c].parent = g[c].parent
    BY <1>2, <1>3
<1> SUFFICES ASSUME NEW a \in Staff
             PROVE  \E T \in SUBSET Staff : a \notin T /\ Above(h, T, a)
    BY DEF Rootward
<1>5. PICK S \in SUBSET Staff : a \notin S /\ Above(g, S, a)
    BY DEF Rootward
<1> HIDE DEF U
<1>f. f \in U /\ f # Nobody
    <2>1. f \in U
        BY DEF U
    <2>2. f # Nobody
        BY DEF Staff, Nobody
    <2> QED
        BY <2>1, <2>2
<1>6. CASE g[a].parent = A
    <2>1. a \notin U
        BY <1>2, <1>6
    <2>2. Above(h, U, a)
        BY <1>2, <1>4, <1>6, <1>f DEF Above
    <2> QED
        BY <1>3, <2>1, <2>2
<1>7. CASE a \in U /\ g[a].parent # A
    <2>1. Above(h, S \cap U, a)
        BY <1>2, <1>4, <1>5, <1>7 DEF Above
    <2> QED
        BY <1>3, <1>5, <2>1
<1>8. CASE a \notin U /\ g[a].parent # A
    <2>1. \A c \in S \cup {a} : h[c].parent \in S \cup U \cup {Nobody}
        BY <1>5, <1>8, <1>f DEF Above
    <2>2. Above(h, S \cup U, a)
        BY <1>2, <1>4, <2>1 DEF Above
    <2> QED
        BY <1>3, <1>5, <1>8, <2>2
<1> QED
    BY <1>6, <1>7, <1>8
-----------------------------------------------------------------------------
(* Types, and what requests are                                             *)

LEMMA IdleRequest ==
    /\ Idle \in CompanyRequest /\ Idle.pc = "idle"
    /\ Idle.agent = Nobody
BY DEF Idle, CompanyRequest, Nobody

\* No agent is nobody.
LEMMA SomebodyIs == Nobody \notin Staff
BY DEF Staff, Nobody

LEMMA ExecutivesAre ==
    \A a : a \in ActiveExecutives <=>
        a \in Staff /\ agents[a].is = "there" /\ agents[a].level = "L0" /\ agents[a].active
BY DEF ActiveExecutives, There

\* What a step that hands over items does: it fails, or every item among them
\* that the agent held is the fallback's.
LEMMA ItemsMoved ==
    ASSUME RequestsTyped, CompanyTypeOK, NEW r \in Handlers, NEW items,
           NEW pc \in DeletionSteps, request[r].pc \in DeletionSteps,
           MoveItems(r, items, pc)
    PROVE  /\ agents' = agents
           /\ \/ /\ request' = [request EXCEPT ![r] = Idle]
                 /\ holder' = holder /\ late' = late
                 /\ ~There(request[r].fallback)
              \/ /\ request' = [request EXCEPT ![r].pc = pc]
                 /\ late \subseteq late' /\ late' \subseteq Handlers
                 /\ holder' \in [Items -> Staff \cup {Nobody}]
                 /\ \A i \in Items :
                       IF i \in items /\ holder[i] = request[r].agent
                       THEN /\ holder'[i] = request[r].fallback
                            /\ There(request[r].fallback)
                            /\ TooLate(request[r].fallback, i) \subseteq late'
                       ELSE holder'[i] = holder[i]
<1> DEFINE A == request[r].agent
           f == request[r].fallback
           held == {i \in items : holder[i] = A}
<1>1. CASE held # {} /\ ~There(f)
    BY <1>1 DEF MoveItems, Hand, End
<1>2. CASE ~(held # {} /\ ~There(f))
    <2>1. /\ request' = [request EXCEPT ![r].pc = pc] /\ agents' = agents
          /\ holder' = [i \in Items |-> IF i \in held THEN f ELSE holder[i]]
          /\ late' = late \cup UNION {TooLate(f, i) : i \in held}
        BY <1>2 DEF MoveItems, Hand, Goto
    <2>2. f \in Staff \cup {Nobody}
        BY DEF RequestsTyped, CompanyRequest
    <2>3. \A i \in Items : holder[i] \in Staff \cup {Nobody}
        BY DEF CompanyTypeOK
    <2>4. \A i \in held : TooLate(f, i) \subseteq late'
        BY <2>1
    <2>5. late \subseteq late' /\ late' \subseteq Handlers
        BY <2>1 DEF CompanyTypeOK, TooLate
    <2>6. holder' \in [Items -> Staff \cup {Nobody}]
        BY <2>1, <2>2, <2>3
    <2> QED
        BY <1>2, <2>1, <2>4, <2>5, <2>6
<1> QED
    BY <1>1, <1>2

\* The steps that hand over items are three of this kind.
LEMMA ItemSteps ==
    ASSUME NEW r \in Handlers,
           MoveProjects(r) \/ MoveTasks(r) \/ MoveApprovals(r)
    PROVE  /\ why' = why /\ tied' = tied /\ changes' = changes /\ deletes' = deletes
           /\ \E items, pc :
                 /\ MoveItems(r, items, pc)
                 /\ \/ request[r].pc = "projects" /\ items = {"project"} /\ pc = "tasks"
                    \/ request[r].pc = "tasks" /\ items = {"creator", "assignee"} /\ pc = "approvals"
                    \/ request[r].pc = "approvals" /\ items = {"approval"} /\ pc = "delete"
BY DEF MoveProjects, MoveTasks, MoveApprovals, At, Counts

\* What the deletion of the agent's row does, if it does.
LEMMA RowDeleted ==
    ASSUME RequestsTyped, CompanyTypeOK, NEW r \in Handlers, DeleteWrite(r)
    PROVE  LET a == request[r].agent IN
           /\ request' = [request EXCEPT ![r] = Idle]
           /\ request[r].pc = "delete" /\ a \in Staff
           /\ UNCHANGED <<tied, late, why, changes, deletes>>
           /\ \/ /\ agents' = agents /\ holder' = holder
                 /\ ~(/\ There(a) /\ a \notin tied
                      /\ \A i \in Binding : holder[i] # a)
              \/ /\ a \notin tied /\ There(a)
                 /\ \A i \in Binding : holder[i] # a
                 /\ agents' = [c \in Staff |->
                        IF c = a THEN [NoAgent EXCEPT !.is = "gone"]
                        ELSE IF agents[c].parent = a THEN [agents[c] EXCEPT !.parent = Nobody]
                        ELSE agents[c]]
                 /\ holder' = [i \in Items |->
                        IF holder[i] = a THEN Nobody ELSE holder[i]]
<1>1. request[r].pc = "delete" /\ request[r].agent \in Staff
    BY DEF DeleteWrite, At, RequestsTyped, DeletionSteps, CompanyRequest
<1> QED
    BY <1>1 DEF DeleteWrite, End, Counts

\* What the move of the children does.
LEMMA ChildrenMoved ==
    ASSUME RequestsTyped, CompanyTypeOK, NEW r \in Handlers, MoveChildren(r)
    PROVE  LET a == request[r].agent
               f == request[r].fallback
           IN
           /\ request[r].pc = "children" /\ a \in Staff /\ f \in Staff
           /\ UNCHANGED <<holder, tied, late, changes, deletes>>
           /\ why' = why \cup IF a \in Superiors(f) THEN {"headed"} ELSE {}
           /\ \/ /\ request' = [request EXCEPT ![r] = Idle]
                 /\ agents' = agents
                 /\ ~There(f)
              \/ /\ request' = [request EXCEPT ![r].pc = "projects"]
                 /\ (\E c \in Staff : agents[c].parent = a) => There(f)
                 /\ agents' = [c \in Staff |->
                        IF agents[c].parent = a THEN [agents[c] EXCEPT !.parent = f]
                        ELSE agents[c]]
<1> DEFINE a == request[r].agent
           f == request[r].fallback
           kids == Children(a)
<1>1. /\ request[r].pc = "children" /\ a \in Staff /\ f \in Staff
      /\ a # Nobody
    BY DEF MoveChildren, At, RequestsTyped, DeletionSteps, CompanyRequest
<1>2. \A c \in Staff : c \in kids <=> agents[c].parent = a
    BY <1>1 DEF Children, CompanyTypeOK, There
<1>3. kids \subseteq Staff
    BY DEF Children
<1>4. /\ Hand(r, "projects", kids # {},
              agents' = [c \in Staff |->
                            IF c \in kids THEN [agents[c] EXCEPT !.parent = f] ELSE agents[c]]
              /\ UNCHANGED <<holder, late>>)
      /\ why' = why \cup IF a \in Superiors(f) THEN {"headed"} ELSE {}
      /\ UNCHANGED <<tied, changes, deletes>>
    BY DEF MoveChildren, Counts
<1> HIDE DEF kids
<1>5. CASE kids # {} /\ ~There(f)
    BY <1>1, <1>4, <1>5 DEF Hand, End
<1>6. CASE ~(kids # {} /\ ~There(f))
    <2>1. /\ request' = [request EXCEPT ![r].pc = "projects"]
          /\ agents' = [c \in Staff |->
                            IF c \in kids THEN [agents[c] EXCEPT !.parent = f] ELSE agents[c]]
          /\ UNCHANGED <<holder, late>>
        BY <1>4, <1>6 DEF Hand, Goto
    <2>2. agents' = [c \in Staff |->
                        IF agents[c].parent = a THEN [agents[c] EXCEPT !.parent = f]
                        ELSE agents[c]]
        BY <1>2, <2>1
    <2>3. (\E c \in Staff : agents[c].parent = a) => There(f)
        BY <1>2, <1>6
    <2> QED
        BY <1>1, <1>4, <2>1, <2>2, <2>3
<1> QED
    BY <1>5, <1>6
\* A creation begins.
LEMMA CreationBegun ==
    ASSUME NEW r \in Handlers, CreateRead(r)
    PROVE  /\ UNCHANGED <<agents, holder, tied, late, why, changes, deletes>>
           /\ request[r].pc = "idle"
           /\ \E q \in CompanyRequest :
                 /\ request' = [request EXCEPT ![r] = q]
                 /\ q.pc = "create" /\ q.agent = Nobody
                 /\ q.level = "L0" => ActiveExecutives = {} /\ q.alone
<1>1. UNCHANGED <<agents, holder, tied, late, why, changes, deletes>> /\ request[r].pc = "idle"
    BY DEF CreateRead, Begin, At, Company, History,
           Counts
<1>2. PICK level \in {"L0", "L1"}, p \in Staff \cup {Nobody} :
          /\ level = "L0" => ActiveExecutives = {}
          /\ request' = [request EXCEPT ![r] =
                 [Idle EXCEPT !.pc = "create", !.level = level, !.parent = p,
                              !.alone = ActiveExecutives = {}]]
    BY DEF CreateRead, Begin, MayCreate
<1> DEFINE alone == ActiveExecutives = {}
           q == [Idle EXCEPT !.pc = "create", !.level = level, !.parent = p, !.alone = alone]
<1>3. alone \in BOOLEAN
    OBVIOUS
<1> HIDE DEF alone
<1>4. q \in CompanyRequest
    BY <1>3, IdleRequest DEF CompanyRequest
<1>5. q.pc = "create" /\ q.agent = Nobody /\ q.level = level /\ q.alone = alone
    BY IdleRequest DEF CompanyRequest
<1>6. q.level = "L0" => ActiveExecutives = {} /\ q.alone
    <2>1. q.level = "L0" => alone
        BY <1>2, <1>5 DEF alone
    <2> HIDE DEF q
    <2>2. q.level = "L0" => q.alone
        BY <1>5, <2>1
    <2> QED
        BY <2>1, <2>2 DEF alone
<1>7. request' = [request EXCEPT ![r] = q]
    BY <1>2 DEF alone
<1> QED
    BY <1>1, <1>4, <1>5, <1>6, <1>7

\* A deletion begins.
LEMMA DeletionBegun ==
    ASSUME NEW r \in Handlers, DeleteRead(r)
    PROVE  /\ UNCHANGED <<agents, holder, tied, why, changes>>
           /\ late' = late \ {r}
           /\ deletes < MaxDeletes /\ deletes' = deletes + 1
           /\ request[r].pc = "idle"
           /\ ActiveExecutives # {}
           /\ \E a, f \in Staff :
                 /\ f # a
                 /\ There(a) /\ a # First(ActiveExecutives)
                 /\ request' = [request EXCEPT ![r] =
                        [pc |-> "children", agent |-> a, level |-> "L1", parent |-> Nobody,
                         fallback |-> f, alone |-> FALSE]]
<1>1. PICK a \in Staff :
          /\ There(a) /\ Deletable(a) /\ request[r].pc = "idle"
          /\ request' = [request EXCEPT ![r] =
                [pc |-> "children", agent |-> a, level |-> "L1", parent |-> Nobody,
                 fallback |-> First(ActiveExecutives \ {a}), alone |-> FALSE]]
    BY ZenonT(60) DEF DeleteRead, Begin, Idle, At
<1>2. /\ ActiveExecutives # {} /\ ActiveExecutives \subseteq Staff
      /\ a # First(ActiveExecutives)
    BY <1>1 DEF Deletable, ActiveExecutives
<1>3. First(ActiveExecutives) \in ActiveExecutives \ {a}
    BY <1>2, FirstAgent
<1>4. First(ActiveExecutives \ {a}) \in Staff \ {a}
    BY <1>2, <1>3, FirstAgent
<1>5. UNCHANGED <<agents, holder, tied, why, changes>> /\ late' = late \ {r}
      /\ deletes < MaxDeletes /\ deletes' = deletes + 1
    BY DEF DeleteRead, Company
<1> QED
    BY <1>1, <1>2, <1>4, <1>5

\* A creation ends, with a new row or without.
LEMMA RowCreated ==
    ASSUME RequestsTyped, NEW r \in Handlers, CreateWrite(r)
    PROVE  LET q == request[r] IN
           /\ UNCHANGED <<holder, tied, late, changes, deletes>>
           /\ q.pc = "create" /\ q.parent \in Staff \cup {Nobody}
           /\ request' = [request EXCEPT ![r] = Idle]
           /\ \/ agents' = agents /\ why' = why
              \/ /\ q.parent = Nobody \/ There(q.parent)
                 /\ \E new \in Staff :
                       /\ agents[new] = NoAgent
                       /\ agents' = [agents EXCEPT ![new] = NewAgent(q.level, q.parent)]
                 /\ why' = why \cup IF /\ q.level = "L0" /\ q.alone
                                       /\ ActiveExecutives # {}
                                    THEN {"race"} ELSE {}
<1> DEFINE free == {a \in Staff : agents[a] = NoAgent}
<1>1. ASSUME free # {} PROVE First(free) \in free
    <2>1. free \subseteq Staff
        OBVIOUS
    <2> QED
        BY <1>1, <2>1, FirstAgent
<1>2. (\E a \in Staff : agents[a] = NoAgent) <=> free # {}
    OBVIOUS
<1>3. request[r].pc = "create" /\ request[r].parent \in Staff \cup {Nobody}
    BY DEF CreateWrite, At, RequestsTyped, CompanyRequest
<1>4. CASE free # {} /\ (request[r].parent = Nobody \/ There(request[r].parent))
    <2>1. /\ agents' = [agents EXCEPT ![First(free)] =
                           NewAgent(request[r].level, request[r].parent)]
          /\ why' = why \cup IF /\ request[r].level = "L0" /\ request[r].alone
                                /\ ActiveExecutives # {}
                             THEN {"race"} ELSE {}
          /\ UNCHANGED <<holder, tied, late, changes, deletes>>
          /\ request' = [request EXCEPT ![r] = Idle]
        BY <1>2, <1>4 DEF CreateWrite, End, Counts
    <2>2. First(free) \in Staff /\ agents[First(free)] = NoAgent
        BY <1>1, <1>4
    <2> QED
        BY <1>3, <1>4, <2>1, <2>2
<1>5. CASE ~(free # {} /\ (request[r].parent = Nobody \/ There(request[r].parent)))
    BY <1>2, <1>3, <1>5 DEF CreateWrite, End, Counts
<1> QED
    BY <1>4, <1>5

\* The changes of one agent leave the requests alone.
LEMMA ChangesOfOne ==
    ASSUME NEW a \in Staff,
           \/ SetStatus(a) \/ SetParent(a) \/ Give(a) \/ Tie(a)
    PROVE  /\ request' = request /\ deletes' = deletes
           /\ changes < MaxChanges /\ changes' = changes + 1
           /\ There(a)
BY DEF SetStatus, SetParent, Give, Tie, Change,
       History

\* A deletion goes on to its next step or ends, a request begins or ends.
LEMMA RequestsKept ==
    ASSUME CompanyTypeOK, RequestsTyped, CompanyNext
    PROVE  RequestsTyped'
<1>1. ASSUME NEW r \in Handlers, request' = [request EXCEPT ![r] = Idle]
      PROVE  RequestsTyped'
    BY <1>1, IdleRequest DEF RequestsTyped, DeletionSteps
<1>2. ASSUME NEW r \in Handlers, NEW pc \in DeletionSteps, request[r].pc \in DeletionSteps,
             request' = [request EXCEPT ![r].pc = pc]
      PROVE  RequestsTyped'
    <2>1. pc # "create" /\ pc # "idle"
        BY DEF DeletionSteps
    <2> QED
        BY <1>2, <2>1 DEF RequestsTyped, CompanyRequest
<1>3. ASSUME NEW r \in Handlers, CreateRead(r) PROVE RequestsTyped'
    <2>1. PICK q \in CompanyRequest :
             /\ request' = [request EXCEPT ![r] = q]
             /\ q.pc = "create" /\ q.agent = Nobody
             /\ q.level = "L0" => q.alone
        BY <1>3, CreationBegun
    <2>2. "create" \notin DeletionSteps
        BY DEF DeletionSteps
    <2> QED
        BY <2>1, <2>2 DEF RequestsTyped
<1>4. ASSUME NEW r \in Handlers, DeleteRead(r) PROVE RequestsTyped'
    <2>1. PICK a, f \in Staff : f # a /\
             request' = [request EXCEPT ![r] =
                    [pc |-> "children", agent |-> a, level |-> "L1", parent |-> Nobody,
                     fallback |-> f, alone |-> FALSE]]
        BY <1>4, DeletionBegun
    <2>2. [pc |-> "children", agent |-> a, level |-> "L1", parent |-> Nobody,
           fallback |-> f, alone |-> FALSE] \in CompanyRequest
        BY DEF CompanyRequest, DeletionSteps
    <2>3. request' \in [Handlers -> CompanyRequest]
        BY <2>1, <2>2 DEF RequestsTyped
    <2>4. \A q \in Handlers : q # r => request'[q] = request[q]
        BY <2>1 DEF RequestsTyped
    <2>5. /\ request'[r].pc = "children" /\ request'[r].agent = a /\ request'[r].fallback = f
        BY <2>1 DEF RequestsTyped
    <2>6. request'[r].pc \in DeletionSteps /\ request'[r].pc # "create" /\ a # Nobody
          /\ f # Nobody
        BY <2>5, SomebodyIs DEF DeletionSteps
    <2> QED
        BY <2>1, <2>3, <2>4, <2>5, <2>6 DEF RequestsTyped
<1>5. ASSUME NEW r \in Handlers,
             MoveProjects(r) \/ MoveTasks(r) \/ MoveApprovals(r)
      PROVE  RequestsTyped'
    <2>1. PICK items, pc : /\ MoveItems(r, items, pc)
                           /\ pc \in DeletionSteps /\ request[r].pc \in DeletionSteps
        BY <1>5, ItemSteps DEF DeletionSteps
    <2> QED
        BY <1>1, <1>2, <2>1, ItemsMoved
<1>6. ASSUME NEW r \in Handlers,
             CreateWrite(r) \/ MoveChildren(r) \/ DeleteWrite(r)
      PROVE  RequestsTyped'
    <2>1. CASE CreateWrite(r)
        BY <1>1, <2>1, RowCreated
    <2>2. CASE MoveChildren(r)
        <3>1. "projects" \in DeletionSteps /\ "children" \in DeletionSteps
            BY DEF DeletionSteps
        <3> QED
            BY <1>1, <1>2, <2>2, <3>1, ChildrenMoved
    <2>3. CASE DeleteWrite(r)
        BY <1>1, <2>3, RowDeleted
    <2> QED
        BY <1>6, <2>1, <2>2, <2>3
<1>7. ASSUME NEW a \in Staff,
             \/ SetStatus(a) \/ SetParent(a) \/ Give(a) \/ Tie(a)
      PROVE  RequestsTyped'
    BY <1>7, ChangesOfOne DEF RequestsTyped
<1> QED
    BY <1>3, <1>4, <1>5, <1>6, <1>7 DEF CompanyNext
\* What every row names stays there.
LEMMA NamesKept ==
    ASSUME CompanyTypeOK, RequestsTyped, CompanyNext
    PROVE  CompanyTypeOK'
<1>1. ASSUME UNCHANGED <<agents, holder, tied, why>>, late' \subseteq Handlers,
             changes' \in 0..MaxChanges, deletes' \in 0..MaxDeletes
      PROVE  CompanyTypeOK'
    BY <1>1 DEF CompanyTypeOK, There
<1>2. changes' \in 0..MaxChanges /\ deletes' \in 0..MaxDeletes
    <2>1. changes \in 0..MaxChanges /\ deletes \in 0..MaxDeletes
        BY DEF CompanyTypeOK
    <2>2. changes' = changes \/ (changes < MaxChanges /\ changes' = changes + 1)
        <3>1. ASSUME NEW r \in Handlers, CompanyNext,
                     \/ CreateRead(r) \/ CreateWrite(r)
                     \/ DeleteRead(r) \/ MoveChildren(r) \/ MoveProjects(r)
                     \/ MoveTasks(r) \/ MoveApprovals(r) \/ DeleteWrite(r)
              PROVE  changes' = changes
            BY <3>1, CreationBegun, RowCreated, DeletionBegun, ChildrenMoved, ItemSteps, RowDeleted
        <3> QED
            BY <3>1, ChangesOfOne DEF CompanyNext
    <2>3. deletes' = deletes \/ (deletes < MaxDeletes /\ deletes' = deletes + 1)
        <3>1. ASSUME NEW r \in Handlers,
                     \/ CreateRead(r) \/ CreateWrite(r)
                     \/ DeleteRead(r) \/ MoveChildren(r) \/ MoveProjects(r)
                     \/ MoveTasks(r) \/ MoveApprovals(r) \/ DeleteWrite(r)
              PROVE  deletes' = deletes \/ (deletes < MaxDeletes /\ deletes' = deletes + 1)
            BY <3>1, CreationBegun, RowCreated, DeletionBegun, ChildrenMoved, ItemSteps, RowDeleted
        <3> QED
            BY <3>1, ChangesOfOne DEF CompanyNext
    <2>4. MaxChanges \in Nat /\ MaxDeletes \in Nat
        BY CompanyAssumption
    <2> QED
        BY <2>1, <2>2, <2>3, <2>4
<1>3. ASSUME NEW r \in Handlers, CreateRead(r) PROVE CompanyTypeOK'
    BY <1>1, <1>2, <1>3, CreationBegun DEF CompanyTypeOK
<1>4. ASSUME NEW r \in Handlers, DeleteRead(r) PROVE CompanyTypeOK'
    BY <1>1, <1>2, <1>4, DeletionBegun DEF CompanyTypeOK
<1>5. ASSUME NEW r \in Handlers, CreateWrite(r) PROVE CompanyTypeOK'
    <2>1. CASE agents' = agents /\ why' = why
        BY <1>1, <1>2, <1>5, <2>1, RowCreated DEF CompanyTypeOK
    <2>2. CASE ~(agents' = agents /\ why' = why)
        <3> DEFINE q == request[r]
        <3>1. PICK new \in Staff :
                 /\ agents[new] = NoAgent
                 /\ agents' = [agents EXCEPT ![new] = NewAgent(q.level, q.parent)]
            BY <1>5, <2>2, RowCreated
        <3>2. /\ q.parent = Nobody \/ There(q.parent)
              /\ q.parent \in Staff \cup {Nobody} /\ q.level \in {"L0", "L1"}
              /\ why' \subseteq why \cup {"race"}
              /\ UNCHANGED <<holder, tied, late>>
            BY <1>5, <2>2, RowCreated DEF RequestsTyped, CompanyRequest
        <3>3. NewAgent(q.level, q.parent) \in Rows
            BY <3>2 DEF NewAgent, Rows
        <3>4. agents' \in [Staff -> Rows]
            BY <3>1, <3>3 DEF CompanyTypeOK
        <3>5. /\ \A a \in Staff \ {new} : agents'[a] = agents[a]
              /\ agents'[new].is = "there" /\ agents'[new].parent = q.parent
            BY <3>1 DEF CompanyTypeOK, NewAgent
        <3>6. \A a : There(a) => There(a)'
            BY <3>5 DEF There
        <3>7. \A a \in Staff : agents'[a].parent # Nobody =>
                  There(a)' /\ There(agents[a].parent)'
            <4>1. There(new)'
                BY <3>5 DEF There
            <4>2. ASSUME NEW a \in Staff \ {new}, agents'[a].parent # Nobody
                  PROVE  There(a)' /\ There(agents[a].parent)'
                BY <3>5, <3>6, <4>2 DEF CompanyTypeOK
            <4>3. \A p : p = q.parent /\ p # Nobody => There(p)'
                BY <3>2, <3>6
            <4> QED
                BY <3>5, <4>1, <4>2, <4>3
        <3> QED
            BY <1>2, <3>2, <3>4, <3>6, <3>7 DEF CompanyTypeOK
    <2> QED
        BY <2>1, <2>2
<1>6. ASSUME NEW r \in Handlers,
             MoveProjects(r) \/ MoveTasks(r) \/ MoveApprovals(r)
      PROVE  CompanyTypeOK'
    <2>1. PICK items, pc : /\ MoveItems(r, items, pc)
                           /\ pc \in DeletionSteps /\ request[r].pc \in DeletionSteps
        BY <1>6, ItemSteps DEF DeletionSteps
    <2>2. UNCHANGED <<agents, tied, why>> /\ late' \subseteq Handlers
        BY <1>6, <2>1, ItemsMoved, ItemSteps DEF CompanyTypeOK
    <2>3. /\ holder' \in [Items -> Staff \cup {Nobody}]
          /\ \A i \in Items : holder'[i] # Nobody => There(holder'[i])
        BY <2>1, ItemsMoved DEF CompanyTypeOK
    <2> QED
        BY <1>2, <2>2, <2>3 DEF CompanyTypeOK, There
<1>7. ASSUME NEW r \in Handlers, MoveChildren(r) PROVE CompanyTypeOK'
    <2> DEFINE A == request[r].agent
               f == request[r].fallback
    <2>1. /\ UNCHANGED <<holder, tied, late>> /\ why' \subseteq why \cup {"headed"}
          /\ f \in Staff
        BY <1>7, ChildrenMoved
    <2>2. CASE agents' = agents
        BY <1>2, <2>1, <2>2 DEF CompanyTypeOK, There
    <2>3. CASE /\ (\E c \in Staff : agents[c].parent = A) => There(f)
               /\ agents' = [c \in Staff |->
                        IF agents[c].parent = A THEN [agents[c] EXCEPT !.parent = f]
                        ELSE agents[c]]
        <3>1. \A a \in Staff :
                  /\ agents'[a] \in Rows /\ agents'[a].is = agents[a].is
                  /\ agents'[a].parent = IF agents[a].parent = A THEN f ELSE agents[a].parent
            BY <2>1, <2>3 DEF CompanyTypeOK, Rows
        <3>2. agents' \in [Staff -> Rows]
            BY <2>3, <3>1
        <3>3. \A a : There(a)' <=> There(a)
            BY <3>1 DEF There
        <3>4. \A a \in Staff : agents'[a].parent # Nobody =>
                  There(a) /\ There(agents'[a].parent)
            <4>1. A # Nobody
                BY <1>7, ChildrenMoved, SomebodyIs
            <4> QED
                BY <2>3, <3>1, <4>1 DEF CompanyTypeOK
        <3> QED
            BY <1>2, <2>1, <3>2, <3>3, <3>4 DEF CompanyTypeOK
    <2> QED
        BY <1>7, <2>2, <2>3, ChildrenMoved
<1>8. ASSUME NEW r \in Handlers, DeleteWrite(r) PROVE CompanyTypeOK'
    <2> DEFINE A == request[r].agent
    <2>1. UNCHANGED <<tied, late, why>> /\ A \in Staff
        BY <1>8, RowDeleted
    <2>2. CASE agents' = agents /\ holder' = holder
        BY <1>2, <2>1, <2>2 DEF CompanyTypeOK, There
    <2>3. CASE /\ A \notin tied
               /\ agents' = [c \in Staff |->
                        IF c = A THEN [NoAgent EXCEPT !.is = "gone"]
                        ELSE IF agents[c].parent = A THEN [agents[c] EXCEPT !.parent = Nobody]
                        ELSE agents[c]]
               /\ holder' = [i \in Items |->
                        IF holder[i] = A THEN Nobody ELSE holder[i]]
        <3>1. \A a \in Staff \ {A} :
                  /\ agents'[a] \in Rows /\ agents'[a].is = agents[a].is
                  /\ agents'[a].parent = IF agents[a].parent = A THEN Nobody
                                         ELSE agents[a].parent
            BY <2>3 DEF CompanyTypeOK, Rows
        <3>2. agents'[A] \in Rows /\ agents'[A].parent = Nobody
            BY <2>1, <2>3 DEF NoAgent, Rows
        <3>3. agents' \in [Staff -> Rows]
            BY <2>3, <3>1, <3>2
        <3>4. \A a : There(a) /\ a # A => There(a)'
            BY <3>1 DEF There
        <3>5. \A a \in Staff : agents'[a].parent # Nobody =>
                  There(a)' /\ There(agents[a].parent)'
            BY <3>1, <3>2, <3>4 DEF CompanyTypeOK
        <3>6. /\ holder' \in [Items -> Staff \cup {Nobody}]
              /\ \A i \in Items :
                    holder'[i] # Nobody => holder'[i] = holder[i] /\ holder[i] # A
            BY <2>3 DEF CompanyTypeOK
        <3>7. \A i \in Items : holder'[i] # Nobody => There(holder[i])'
            BY <3>4, <3>6 DEF CompanyTypeOK
        <3>8. \A a \in tied' : There(a)'
            BY <2>1, <2>3, <3>4 DEF CompanyTypeOK
        <3> QED
            BY <1>2, <2>1, <3>3, <3>5, <3>6, <3>7, <3>8 DEF CompanyTypeOK
    <2> QED
        BY <1>8, <2>2, <2>3, RowDeleted
<1>9. ASSUME NEW a \in Staff, SetStatus(a) \/ SetParent(a)
      PROVE  CompanyTypeOK'
    <2>1. /\ UNCHANGED <<holder, tied, late>>
          /\ why' \subseteq why \cup {"archived", "revived", "reactivated", "patched"}
        BY <1>9 DEF SetStatus, SetParent
    <2>2. There(a)
        BY <1>9, ChangesOfOne
    <2>3. /\ agents' \in [Staff -> Rows]
          /\ \A c \in Staff :
                /\ agents'[c].is = agents[c].is
                /\ \/ agents'[c].parent = agents[c].parent
                   \/ c = a /\ (agents'[c].parent # Nobody => There(agents'[c].parent))
        <3>1. CASE SetStatus(a)
            BY <3>1, ZenonT(60) DEF SetStatus, CompanyTypeOK, Rows
        <3>2. CASE SetParent(a)
            <4>1. PICK p \in Staff \cup {Nobody} :
                     /\ p # Nobody => There(p)
                     /\ agents' = [agents EXCEPT ![a].parent = p]
                BY <3>2 DEF SetParent
            <4> QED
                BY <4>1 DEF CompanyTypeOK, Rows
        <3> QED
            BY <1>9, <3>1, <3>2
    <2>4. \A c : There(c)' <=> There(c)
        BY <2>3 DEF There
    <2>5. \A c \in Staff : agents'[c].parent # Nobody =>
              There(c)' /\ There(agents[c].parent)'
        BY <2>2, <2>3, <2>4 DEF CompanyTypeOK
    <2> QED
        BY <1>2, <2>1, <2>3, <2>4, <2>5 DEF CompanyTypeOK
<1>10. ASSUME NEW a \in Staff, Give(a) \/ Tie(a)
       PROVE  CompanyTypeOK'
    <2>1. agents' = agents /\ why' = why /\ There(a)
        BY <1>10 DEF Give, Tie, History
    <2>2. /\ holder' \in [Items -> Staff \cup {Nobody}]
          /\ \A i \in Items : holder'[i] \in {holder[i], a}
        BY <1>10 DEF Give, Tie, CompanyTypeOK
    <2>3. tied' \subseteq tied \cup {a}
        BY <1>10 DEF Give, Tie
    <2>4. late' \subseteq Handlers
        BY <1>10 DEF Give, Tie, CompanyTypeOK, History, TooLate
    <2>5. \A c : There(c)' <=> There(c)
        BY <2>1 DEF There
    <2> QED
        BY <1>2, <2>1, <2>2, <2>3, <2>4, <2>5 DEF CompanyTypeOK
<1> QED
    BY <1>3, <1>4, <1>5, <1>6, <1>7, <1>8, <1>9, <1>10 DEF CompanyNext
-----------------------------------------------------------------------------
(* What was handed over, the hierarchy, and the executive                   *)

\* A deletion that goes on to a step has nothing left that it handed over
\* before, unless it was given that since.
LEMMA LateKept ==
    ASSUME CompanyTypeOK, RequestsTyped, GivenLate, CompanyNext
    PROVE  GivenLate'
<1>1. ASSUME \A r \in Handlers :
                 \/ request'[r].pc \notin DeletionSteps
                 \/ request'[r] = request[r],
             late \subseteq late',
             \A i \in Items : holder'[i] \in {holder[i], Nobody}
      PROVE  GivenLate'
    <2>1. ASSUME NEW i \in Items, NEW r \in Handlers, r \in TooLate(holder[i], i)'
          PROVE  r \in TooLate(holder[i], i)
        <3>1. request'[r].agent = holder'[i] /\ request'[r].pc \in DeletionSteps
            BY <2>1 DEF TooLate, DeletionSteps
        <3>2. request'[r] = request[r]
            BY <1>1, <3>1
        <3>3. holder'[i] = holder[i]
            BY <1>1, <3>1, <3>2 DEF RequestsTyped
        <3> QED
            BY <2>1, <3>2, <3>3 DEF TooLate
    <2>2. ASSUME NEW i \in Items PROVE (TooLate(holder[i], i) \subseteq late)'
        <3>1. TooLate(holder[i], i)' \subseteq Handlers
            BY DEF TooLate
        <3> QED
            BY <1>1, <2>1, <2>2, <3>1 DEF GivenLate
    <2> QED
        BY <2>2 DEF GivenLate
<1>2. ASSUME NEW r \in Handlers, CreateRead(r) PROVE GivenLate'
    <2>1. PICK q \in CompanyRequest : request' = [request EXCEPT ![r] = q] /\ q.pc = "create"
        BY <1>2, CreationBegun
    <2>2. "create" \notin DeletionSteps
        BY DEF DeletionSteps
    <2> QED
        BY <1>1, <1>2, <2>1, <2>2, CreationBegun DEF RequestsTyped
<1>3. ASSUME NEW r \in Handlers, DeleteRead(r) PROVE GivenLate'
    <2>1. PICK a, f \in Staff :
              request' = [request EXCEPT ![r] =
                    [pc |-> "children", agent |-> a, level |-> "L1", parent |-> Nobody,
                     fallback |-> f, alone |-> FALSE]]
        BY <1>3, DeletionBegun
    <2>2. /\ request'[r].pc = "children"
          /\ \A q \in Handlers : q # r => request'[q] = request[q]
        BY <2>1 DEF RequestsTyped
    <2>3. holder' = holder /\ late' = late \ {r}
        BY <1>3, DeletionBegun
    <2> QED
        BY <2>2, <2>3 DEF GivenLate, TooLate
<1>4. ASSUME NEW r \in Handlers,
             CreateWrite(r) \/ MoveChildren(r) \/ DeleteWrite(r)
      PROVE  GivenLate'
    <2>1. late' = late /\ \A i \in Items : holder'[i] \in {holder[i], Nobody}
        BY <1>4, RowCreated, ChildrenMoved, RowDeleted
    <2>2. CASE request' = [request EXCEPT ![r] = Idle]
        <3>1. "idle" \notin DeletionSteps
            BY DEF DeletionSteps
        <3> QED
            BY <1>1, <2>1, <2>2, <3>1, IdleRequest DEF RequestsTyped
    <2>3. CASE MoveChildren(r) /\ request' = [request EXCEPT ![r].pc = "projects"]
        <3>1. holder' = holder
            BY <2>3, ChildrenMoved
        <3>2. /\ request'[r].pc = "projects"
              /\ \A q \in Handlers : q # r => request'[q] = request[q]
            BY <2>3 DEF RequestsTyped, CompanyRequest
        <3> QED
            BY <2>1, <3>1, <3>2 DEF GivenLate, TooLate
    <2> QED
        BY <1>4, <2>2, <2>3, RowCreated, ChildrenMoved, RowDeleted
<1>5. ASSUME NEW r \in Handlers,
             MoveProjects(r) \/ MoveTasks(r) \/ MoveApprovals(r)
      PROVE  GivenLate'
    <2>1. PICK items, pc :
              /\ MoveItems(r, items, pc)
              /\ \/ request[r].pc = "projects" /\ items = {"project"} /\ pc = "tasks"
                 \/ request[r].pc = "tasks" /\ items = {"creator", "assignee"} /\ pc = "approvals"
                 \/ request[r].pc = "approvals" /\ items = {"approval"} /\ pc = "delete"
        BY <1>5, ItemSteps
    <2>2. pc \in DeletionSteps /\ request[r].pc \in DeletionSteps
        BY <2>1 DEF DeletionSteps
    <2>3. CASE /\ request' = [request EXCEPT ![r] = Idle]
               /\ holder' = holder /\ late' = late
        <3>1. "idle" \notin DeletionSteps
            BY DEF DeletionSteps
        <3> QED
            BY <1>1, <2>3, <3>1, IdleRequest DEF RequestsTyped
    <2>4. CASE /\ request' = [request EXCEPT ![r].pc = pc] /\ late \subseteq late'
               /\ \A i \in Items :
                       IF i \in items /\ holder[i] = request[r].agent
                       THEN /\ holder'[i] = request[r].fallback
                            /\ TooLate(request[r].fallback, i) \subseteq late'
                       ELSE holder'[i] = holder[i]
        <3>1. /\ request'[r].pc = pc /\ request'[r].agent = request[r].agent
              /\ \A q \in Handlers : q # r => request'[q] = request[q]
            BY <2>4 DEF RequestsTyped, CompanyRequest
        <3>2. request[r].fallback # request[r].agent
            BY <2>2 DEF RequestsTyped
        <3>3. ASSUME NEW i \in Items, NEW q \in Handlers,
                     request'[q].agent = holder'[i],
                     request'[q].pc \in CASE i = "project" -> {"tasks", "approvals", "delete"}
                                          [] i = "approval" -> {"delete"}
                                          [] OTHER -> {"approvals", "delete"}
              PROVE  q \in late'
            <4>1. CASE q # r /\ i \in items /\ holder[i] = request[r].agent
                <5>1. q \in TooLate(request[r].fallback, i)
                    BY <2>4, <3>1, <3>3, <4>1 DEF TooLate
                <5> QED
                    BY <2>4, <4>1, <5>1
            <4>2. CASE q # r /\ ~(i \in items /\ holder[i] = request[r].agent)
                <5>1. q \in TooLate(holder[i], i)
                    BY <2>4, <3>1, <3>3, <4>2 DEF TooLate
                <5> QED
                    BY <2>4, <5>1 DEF GivenLate
            <4>3. CASE q = r
                <5>1. holder[i] = request[r].agent /\ i \notin items
                    BY <2>4, <3>1, <3>2, <3>3, <4>3
                <5>2. r \in TooLate(holder[i], i)
                    BY <2>1, <3>1, <3>3, <4>3, <5>1 DEF TooLate, Items
                <5> QED
                    BY <2>4, <4>3, <5>2 DEF GivenLate
            <4> QED
                BY <4>1, <4>2, <4>3
        <3> QED
            BY <3>3 DEF GivenLate, TooLate
    <2> QED
        BY <2>1, <2>2, <2>3, <2>4, ItemsMoved
<1>6. ASSUME NEW a \in Staff,
             SetStatus(a) \/ SetParent(a) \/ Tie(a)
      PROVE  GivenLate'
    BY <1>6 DEF SetStatus, SetParent, Tie, History,
                GivenLate, TooLate
<1>7. ASSUME NEW a \in Staff, Give(a) PROVE GivenLate'
    <2>1. PICK i \in Items : /\ holder' = [holder EXCEPT ![i] = a]
                             /\ late' = late \cup TooLate(a, i)
        BY <1>7 DEF Give
    <2>2. request' = request
        BY <1>7 DEF Give
    <2>3. ASSUME NEW k \in Items PROVE (TooLate(holder[k], k) \subseteq late)'
        <3>1. CASE k = i
            BY <2>1, <2>2, <3>1 DEF TooLate, CompanyTypeOK
        <3>2. CASE k # i
            BY <2>1, <2>2, <3>2 DEF GivenLate, TooLate, CompanyTypeOK
        <3> QED
            BY <3>1, <3>2
    <2> QED
        BY <2>3 DEF GivenLate
<1> QED
    BY <1>2, <1>3, <1>4, <1>5, <1>6, <1>7 DEF CompanyNext

\* No agent comes to be its own superior.
LEMMA AcyclicKept ==
    ASSUME CompanyTypeOK, RequestsTyped, Acyclic, CompanyNext
    PROVE  Acyclic'
<1> SUFFICES ASSUME why' \cap {"patched", "headed"} = {}
             PROVE  Rootward(agents')
    BY DEF Acyclic
<1>1. ASSUME why \subseteq why' PROVE Rootward(agents)
    BY <1>1 DEF Acyclic
<1>2. ASSUME NEW r \in Handlers,
             \/ CreateRead(r) \/ DeleteRead(r)
             \/ MoveProjects(r) \/ MoveTasks(r) \/ MoveApprovals(r)
      PROVE  Rootward(agents')
    <2>1. why' = why
        BY <1>2, CreationBegun, DeletionBegun, ItemSteps
    <2>2. agents' = agents
        <3>1. CASE CreateRead(r) \/ DeleteRead(r)
            BY <3>1, CreationBegun, DeletionBegun
        <3>2. CASE MoveProjects(r) \/ MoveTasks(r) \/ MoveApprovals(r)
            <4>1. PICK items, pc : /\ MoveItems(r, items, pc)
                                   /\ pc \in DeletionSteps /\ request[r].pc \in DeletionSteps
                BY <3>2, ItemSteps DEF DeletionSteps
            <4> QED
                BY <4>1, ItemsMoved
        <3> QED
            BY <1>2, <3>1, <3>2
    <2> QED
        BY <1>1, <2>1, <2>2
<1>3. ASSUME NEW r \in Handlers, CreateWrite(r) PROVE Rootward(agents')
    <2>1. Rootward(agents)
        BY <1>1, <1>3, RowCreated
    <2>2. CASE agents' # agents
        <3> DEFINE q == request[r]
        <3>1. PICK new \in Staff :
                 /\ agents[new] = NoAgent
                 /\ agents' = [agents EXCEPT ![new] = NewAgent(q.level, q.parent)]
            BY <1>3, <2>2, RowCreated
        <3>2. /\ q.parent = Nobody \/ There(q.parent)
              /\ q.parent \in Staff \cup {Nobody}
            BY <1>3, <2>2, RowCreated
        <3>3. /\ agents[new].is # "there"
              /\ \A a \in Staff : agents[a].parent # new
            BY <3>1, SomebodyIs DEF CompanyTypeOK, There, NoAgent
        <3>4. /\ agents'[new].parent = q.parent
              /\ \A a \in Staff \ {new} : agents'[a].parent = agents[a].parent
            BY <3>1 DEF CompanyTypeOK, NewAgent
        <3>5. q.parent # new
            BY <3>2, <3>3, SomebodyIs DEF There
        <3> HIDE DEF q
        <3> QED
            BY <2>1, <3>2, <3>3, <3>4, <3>5, RootwardNew
    <2> QED
        BY <2>1, <2>2
<1>4. ASSUME NEW r \in Handlers, MoveChildren(r) PROVE Rootward(agents')
    <2> DEFINE A == request[r].agent
               f == request[r].fallback
    <2>1. A \in Staff /\ f \in Staff /\ f # A /\ Rootward(agents)
          /\ A \notin Superiors(f)
        BY <1>1, <1>4, ChildrenMoved, SomebodyIs DEF RequestsTyped, DeletionSteps
    <2>2. CASE agents' # agents
        <3>1. \A c \in Staff :
                 agents'[c].parent = IF agents[c].parent = A THEN f ELSE agents[c].parent
            BY <1>4, <2>2, ChildrenMoved DEF CompanyTypeOK, Rows
        <3>2. PICK S \in SUBSET Staff : A \notin S /\ Above(agents, S, f)
            BY <2>1 DEF Superiors, HasParent, Above
        <3> HIDE DEF A, f
        <3> QED
            BY <2>1, <3>1, <3>2, RootwardMoved, SomebodyIs
    <2> QED
        BY <2>1, <2>2
<1>5. ASSUME NEW r \in Handlers, DeleteWrite(r) PROVE Rootward(agents')
    <2>1. Rootward(agents)
        BY <1>1, <1>5, RowDeleted
    <2>2. \A c \in Staff : agents'[c].parent \in {agents[c].parent, Nobody}
        BY <1>5, RowDeleted DEF NoAgent, CompanyTypeOK, Rows
    <2> QED
        BY <2>1, <2>2, RootwardFewer
<1>6. ASSUME NEW a \in Staff, SetStatus(a) PROVE Rootward(agents')
    <2>1. Rootward(agents)
        BY <1>1, <1>6 DEF SetStatus
    <2>2. \A c \in Staff : agents'[c].parent \in {agents[c].parent, Nobody}
        BY <1>6 DEF SetStatus, CompanyTypeOK, Rows
    <2> QED
        BY <2>1, <2>2, RootwardFewer
<1>7. ASSUME NEW a \in Staff, SetParent(a) PROVE FALSE
    BY <1>7 DEF SetParent
<1>8. ASSUME NEW a \in Staff, Give(a) \/ Tie(a)
      PROVE  Rootward(agents')
    BY <1>1, <1>8 DEF Give, Tie, History
<1> QED
    BY <1>2, <1>3, <1>4, <1>5, <1>6, <1>7, <1>8 DEF CompanyNext
\* Only a creation, a change of status and the deletion of a row can make or
\* unmake an executive.
LEMMA ExecutivesSame ==
    ASSUME CompanyTypeOK, RequestsTyped, CompanyNext,
           \A r \in Handlers : ~CreateWrite(r) /\ ~DeleteWrite(r),
           \A a \in Staff : ~SetStatus(a)
    PROVE  ActiveExecutives' = ActiveExecutives
<1>1. ASSUME \A a \in Staff :
                 /\ agents'[a].is = agents[a].is /\ agents'[a].level = agents[a].level
                 /\ agents'[a].active = agents[a].active
      PROVE  ActiveExecutives' = ActiveExecutives
    BY <1>1 DEF ActiveExecutives, There
<1>2. ASSUME NEW r \in Handlers, CreateRead(r) \/ DeleteRead(r)
      PROVE  ActiveExecutives' = ActiveExecutives
    BY <1>1, <1>2, CreationBegun, DeletionBegun
<1>3. ASSUME NEW r \in Handlers,
             MoveProjects(r) \/ MoveTasks(r) \/ MoveApprovals(r)
      PROVE  ActiveExecutives' = ActiveExecutives
    <2>1. PICK items, pc : /\ MoveItems(r, items, pc)
                           /\ pc \in DeletionSteps /\ request[r].pc \in DeletionSteps
        BY <1>3, ItemSteps DEF DeletionSteps
    <2> QED
        BY <1>1, <2>1, ItemsMoved
<1>4. ASSUME NEW r \in Handlers, MoveChildren(r)
      PROVE  ActiveExecutives' = ActiveExecutives
    <2>1. \A a \in Staff :
                 /\ agents'[a].is = agents[a].is /\ agents'[a].level = agents[a].level
                 /\ agents'[a].active = agents[a].active
        BY <1>4, ChildrenMoved DEF CompanyTypeOK, Rows
    <2> QED
        BY <1>1, <2>1
<1>5. ASSUME NEW a \in Staff,
             SetParent(a) \/ Give(a) \/ Tie(a)
      PROVE  ActiveExecutives' = ActiveExecutives
    <2>1. \A c \in Staff :
                 /\ agents'[c].is = agents[c].is /\ agents'[c].level = agents[c].level
                 /\ agents'[c].active = agents[c].active
        BY <1>5 DEF SetParent, Give, Tie, CompanyTypeOK, Rows
    <2> QED
        BY <1>1, <2>1
<1> QED
    BY <1>2, <1>3, <1>4, <1>5 DEF CompanyNext

\* A creation adds one at the most.
LEMMA ExecutiveCreated ==
    ASSUME CompanyTypeOK, RequestsTyped,
           NEW r \in Handlers, CreateWrite(r)
    PROVE  \/ ActiveExecutives' = ActiveExecutives
           \/ /\ request[r].level = "L0"
              /\ ActiveExecutives # {} => "race" \in why'
              /\ \E new \in Staff :
                    ActiveExecutives' = ActiveExecutives \cup {new}
<1>1. CASE agents' = agents
    BY <1>1 DEF ActiveExecutives, There
<1>2. CASE agents' # agents
    <2> DEFINE q == request[r]
    <2>1. PICK new \in Staff :
             /\ agents[new] = NoAgent
             /\ agents' = [agents EXCEPT ![new] = NewAgent(q.level, q.parent)]
        BY <1>2, RowCreated
    <2>2. /\ \A a \in Staff \ {new} : agents'[a] = agents[a]
          /\ agents[new].is # "there" /\ agents'[new].is = "there"
          /\ agents'[new].level = q.level /\ agents'[new].active = TRUE
        BY <2>1 DEF CompanyTypeOK, NewAgent, NoAgent
    <2>3. q.level = "L0" => q.alone
        BY <1>2, RowCreated DEF RequestsTyped
    <2>4. q.level = "L0" /\ ActiveExecutives # {} => "race" \in why'
        BY <1>2, <2>3, RowCreated
    <2>5. q.level = "L0" => ActiveExecutives' = ActiveExecutives \cup {new}
        BY <2>2 DEF ActiveExecutives, There
    <2>6. q.level # "L0" => ActiveExecutives' = ActiveExecutives
        BY <2>2 DEF ActiveExecutives, There
    <2> QED
        BY <2>4, <2>5, <2>6
<1> QED
    BY <1>1, <1>2

\* The deletion of a row takes none away but the agent deleted.
LEMMA ExecutiveDeleted ==
    ASSUME CompanyTypeOK, RequestsTyped, NEW r \in Handlers, DeleteWrite(r)
    PROVE  ActiveExecutives' \in
               {ActiveExecutives, ActiveExecutives \ {request[r].agent}}
<1> DEFINE A == request[r].agent
<1>1. CASE agents' = agents
    BY <1>1 DEF ActiveExecutives, There
<1>2. CASE agents' # agents
    <2>1. A \in Staff
        BY RowDeleted
    <2>2. /\ agents'[A].is = "gone"
          /\ \A c \in Staff \ {A} :
                 /\ agents'[c].is = agents[c].is /\ agents'[c].level = agents[c].level
                 /\ agents'[c].active = agents[c].active
        BY <1>2, <2>1, RowDeleted DEF CompanyTypeOK, Rows, NoAgent
    <2> HIDE DEF A
    <2>3. ActiveExecutives' = ActiveExecutives \ {A}
        BY <2>1, <2>2 DEF ActiveExecutives, There
    <2> QED
        BY <2>3 DEF A
<1> QED
    BY <1>1, <1>2

\* A change of status of one agent.
LEMMA ExecutiveChanged ==
    ASSUME CompanyTypeOK, NEW a \in Staff, SetStatus(a)
    PROVE  \/ /\ why' = why
              /\ ActiveExecutives' = ActiveExecutives
           \/ /\ "archived" \in why'
              /\ ActiveExecutives' = ActiveExecutives \ {a}
           \/ /\ \/ "revived" \in why'
                 \/ "reactivated" \in why' /\ \A r \in Handlers : request[r].agent # a
              /\ ActiveExecutives' = ActiveExecutives \cup {a}
<1>1. /\ \A c \in Staff \ {a} : agents'[c] = agents[c]
      /\ agents'[a].is = "there" /\ agents[a].is = "there"
      /\ agents'[a].level = agents[a].level
      /\ agents'[a].active <=> ~agents[a].active
    BY ZenonT(60) DEF SetStatus, There, CompanyTypeOK, Rows
<1>2. why' = why \cup IF agents[a].level # "L0" THEN {}
                      ELSE IF agents[a].active THEN {"archived"}
                      ELSE IF \E r \in Handlers : request[r].agent = a THEN {"revived"}
                      ELSE {"reactivated"}
    BY DEF SetStatus
<1>3. CASE agents[a].level # "L0"
    BY <1>1, <1>2, <1>3 DEF ActiveExecutives, There
<1>4. CASE agents[a].level = "L0" /\ agents[a].active
    <2>1. ActiveExecutives' = ActiveExecutives \ {a}
        BY <1>1, <1>4 DEF ActiveExecutives, There
    <2> QED
        BY <1>2, <1>4, <2>1
<1>5. CASE agents[a].level = "L0" /\ ~agents[a].active
    <2>1. ActiveExecutives' = ActiveExecutives \cup {a}
        BY <1>1, <1>5 DEF ActiveExecutives, There
    <2> QED
        BY <1>2, <1>5, <2>1
<1> QED
    BY <1>3, <1>4, <1>5

\* What has happened is not forgotten.
LEMMA WhyGrows ==
    ASSUME CompanyTypeOK, RequestsTyped, CompanyNext
    PROVE  why \subseteq why'
<1>1. ASSUME NEW r \in Handlers,
             \/ CreateRead(r) \/ CreateWrite(r)
             \/ DeleteRead(r) \/ MoveChildren(r) \/ MoveProjects(r)
             \/ MoveTasks(r) \/ MoveApprovals(r) \/ DeleteWrite(r)
      PROVE  why \subseteq why'
    BY <1>1, CreationBegun, RowCreated, DeletionBegun, ChildrenMoved, ItemSteps, RowDeleted
<1>2. ASSUME NEW a \in Staff,
             \/ SetStatus(a) \/ SetParent(a) \/ Give(a) \/ Tie(a)
      PROVE  why \subseteq why'
    BY <1>2 DEF SetStatus, SetParent, Give, Tie, History
<1> QED
    BY <1>1, <1>2 DEF CompanyNext

\* There is still one executive, whatever number was created at once.
LEMMA ExecutiveAloneKept ==
    ASSUME CompanyTypeOK, RequestsTyped, ExecutiveAlone, CompanyNext
    PROVE  ExecutiveAlone'
<1> SUFFICES ASSUME why' \cap {"race", "reactivated", "revived"} = {}
             PROVE  \A a, b \in ActiveExecutives' : a = b
    BY DEF ExecutiveAlone
<1>1. \A a, b \in ActiveExecutives : a = b
    BY WhyGrows DEF ExecutiveAlone
<1>2. CASE \E r \in Handlers : CreateWrite(r)
    BY <1>1, <1>2, ExecutiveCreated
<1>3. CASE \E r \in Handlers : DeleteWrite(r)
    <2>1. ActiveExecutives' \subseteq ActiveExecutives
        BY <1>3, ExecutiveDeleted
    <2> QED
        BY <1>1, <2>1
<1>4. CASE \E a \in Staff : SetStatus(a)
    <2>1. ActiveExecutives' \subseteq ActiveExecutives
        BY <1>4, ExecutiveChanged
    <2> QED
        BY <1>1, <2>1
<1> QED
    BY <1>1, <1>2, <1>3, <1>4, ExecutivesSame

\* How a request changes.
LEMMA RequestCases ==
    ASSUME CompanyTypeOK, RequestsTyped, CompanyNext,
           NEW q \in Handlers
    PROVE  \/ request'[q] = request[q]
           \/ request'[q] = Idle
           \/ /\ request[q].pc \in DeletionSteps /\ request'[q].pc \in DeletionSteps
              /\ request'[q] = [request[q] EXCEPT !.pc = request'[q].pc]
           \/ CreateRead(q) \/ DeleteRead(q)
<1>1. ASSUME NEW r \in Handlers, request' = [request EXCEPT ![r] = Idle]
      PROVE  request'[q] = request[q] \/ request'[q] = Idle
    BY <1>1 DEF RequestsTyped
<1>2. ASSUME NEW r \in Handlers, NEW pc \in DeletionSteps, request[r].pc \in DeletionSteps,
             request' = [request EXCEPT ![r].pc = pc]
      PROVE  \/ request'[q] = request[q]
             \/ /\ request[q].pc \in DeletionSteps /\ request'[q].pc \in DeletionSteps
                /\ request'[q] = [request[q] EXCEPT !.pc = request'[q].pc]
    BY <1>2 DEF RequestsTyped, CompanyRequest
<1>3. ASSUME NEW r \in Handlers, NEW new, r # q, request' = [request EXCEPT ![r] = new]
      PROVE  request'[q] = request[q]
    BY <1>3 DEF RequestsTyped
<1>4. ASSUME NEW r \in Handlers, CreateRead(r) \/ DeleteRead(r)
      PROVE  r = q \/ request'[q] = request[q]
    BY <1>3, <1>4, CreationBegun, DeletionBegun
<1>5. ASSUME NEW r \in Handlers,
             MoveProjects(r) \/ MoveTasks(r) \/ MoveApprovals(r)
      PROVE  \/ request'[q] = request[q] \/ request'[q] = Idle
             \/ /\ request[q].pc \in DeletionSteps /\ request'[q].pc \in DeletionSteps
                /\ request'[q] = [request[q] EXCEPT !.pc = request'[q].pc]
    <2>1. PICK items, pc : /\ MoveItems(r, items, pc)
                           /\ pc \in DeletionSteps /\ request[r].pc \in DeletionSteps
        BY <1>5, ItemSteps DEF DeletionSteps
    <2> QED
        BY <1>1, <1>2, <2>1, ItemsMoved
<1>6. ASSUME NEW r \in Handlers, MoveChildren(r)
      PROVE  \/ request'[q] = request[q] \/ request'[q] = Idle
             \/ /\ request[q].pc \in DeletionSteps /\ request'[q].pc \in DeletionSteps
                /\ request'[q] = [request[q] EXCEPT !.pc = request'[q].pc]
    <2>1. "projects" \in DeletionSteps /\ "children" \in DeletionSteps
        BY DEF DeletionSteps
    <2> QED
        BY <1>1, <1>2, <1>6, <2>1, ChildrenMoved
<1>7. ASSUME NEW r \in Handlers, CreateWrite(r) \/ DeleteWrite(r)
      PROVE  request'[q] = request[q] \/ request'[q] = Idle
    BY <1>1, <1>7, RowCreated, RowDeleted
<1>8. ASSUME NEW a \in Staff,
             \/ SetStatus(a) \/ SetParent(a) \/ Give(a) \/ Tie(a)
      PROVE  request'[q] = request[q]
    BY <1>8, ChangesOfOne
<1> QED
    BY <1>4, <1>5, <1>6, <1>7, <1>8 DEF CompanyNext

\* The first executive stays.
LEMMA ExecutiveStaysKept ==
    ASSUME CompanyTypeOK, RequestsTyped, ExecutiveStays, CompanyNext
    PROVE  ExecutiveStays'
<1> DEFINE E == ActiveExecutives
<1> SUFFICES ASSUME why' \cap {"archived", "revived"} = {}
             PROVE  /\ E' # {}
                    /\ \A r \in Handlers :
                          /\ request'[r].agent # First(E)'
                          /\ request'[r].pc = "create" => request'[r].level = "L1"
    BY DEF ExecutiveStays
<1>1. /\ E # {} /\ E \subseteq Staff
      /\ \A r \in Handlers :
            /\ request[r].agent # First(E)
            /\ request[r].pc = "create" => request[r].level = "L1"
    BY WhyGrows DEF ExecutiveStays, ActiveExecutives
<1>2. First(E) \in E /\ First(E) \in Staff
    BY <1>1, FirstAgent
<1>3. ASSUME E' = E,
             \A r \in Handlers : \/ request'[r].agent = request[r].agent
                                 \/ request'[r].agent = Nobody
                                 \/ request'[r].agent # First(E),
             \A r \in Handlers : \/ request'[r].pc = request[r].pc /\ request'[r].level = request[r].level
                                 \/ request'[r].pc = "create" => request'[r].level = "L1"
      PROVE  /\ E' # {}
             /\ \A r \in Handlers :
                          /\ request'[r].agent # First(E)'
                          /\ request'[r].pc = "create" => request'[r].level = "L1"
    <2>1. First(E)' = First(E)
        BY <1>3 DEF First
    <2> QED
        BY <1>1, <1>2, <1>3, <2>1, SomebodyIs
<1>4. ASSUME NEW r \in Handlers
      PROVE  /\ \/ request'[r].agent = request[r].agent
                \/ request'[r].agent = Nobody
                \/ request'[r].agent # First(E)
             /\ \/ request'[r].pc = request[r].pc /\ request'[r].level = request[r].level
                \/ request'[r].pc = "create" => request'[r].level = "L1"
    <2>1. CASE request'[r] = request[r]
        BY <2>1
    <2>2. CASE request'[r] = Idle
        BY <2>2, IdleRequest
    <2>3. CASE /\ request[r].pc \in DeletionSteps /\ request'[r].pc \in DeletionSteps
               /\ request'[r] = [request[r] EXCEPT !.pc = request'[r].pc]
        <3>1. request'[r].pc # "create"
            BY <2>3 DEF DeletionSteps
        <3>2. request'[r].agent = request[r].agent
            BY <2>3 DEF RequestsTyped, CompanyRequest
        <3> QED
            BY <3>1, <3>2
    <2>4. CASE CreateRead(r)
        <3>1. PICK q \in CompanyRequest :
                 /\ request' = [request EXCEPT ![r] = q]
                 /\ q.agent = Nobody
                 /\ q.level = "L0" => ActiveExecutives = {}
            BY <2>4, CreationBegun
        <3>2. q.level = "L1"
            BY <1>1, <3>1 DEF CompanyRequest
        <3> QED
            BY <3>1, <3>2 DEF RequestsTyped
    <2>5. CASE DeleteRead(r)
        <3>1. PICK a, f \in Staff :
                 /\ a # First(E)
                 /\ request' = [request EXCEPT ![r] =
                        [pc |-> "children", agent |-> a, level |-> "L1",
                         parent |-> Nobody, fallback |-> f, alone |-> FALSE]]
            BY <2>5, DeletionBegun
        <3> QED
            BY <3>1 DEF RequestsTyped
    <2> QED
        BY <2>1, <2>2, <2>3, <2>4, <2>5, RequestCases
<1> HIDE DEF E
<1>5. CASE E' = E
    BY <1>3, <1>4, <1>5
<1>6. CASE \E r \in Handlers : CreateWrite(r)
    <2>1. PICK r \in Handlers : CreateWrite(r)
        BY <1>6
    <2>2. request[r].level # "L0"
        BY <1>1, <2>1, RowCreated
    <2> QED
        BY <1>5, <2>1, <2>2, ExecutiveCreated DEF E
<1>7. CASE \E r \in Handlers : DeleteWrite(r)
    <2>1. PICK r \in Handlers : DeleteWrite(r)
        BY <1>7
    <2>2. E' \subseteq E /\ First(E) \in E'
        BY <1>1, <1>2, <2>1, ExecutiveDeleted DEF E
    <2>3. First(E)' = First(E)
        <3>1. First(E') = First(E)
            BY <1>1, <2>2, FirstStays
        <3> QED
            BY <3>1 DEF First
    <2> QED
        BY <1>1, <1>2, <1>4, <2>2, <2>3, SomebodyIs
<1>8. CASE \E a \in Staff : SetStatus(a)
    <2>1. PICK a \in Staff : SetStatus(a)
        BY <1>8
    <2>2. request' = request
        BY <2>1, ChangesOfOne
    <2>3. CASE E' = E \cup {a} /\ \A r \in Handlers : request[r].agent # a
        <3>1. E' \subseteq Staff /\ E' # {}
            BY <1>1, <2>3
        <3>2. First(E') \in E'
            BY <3>1, FirstAgent
        <3>3. First(E') = a \/ First(E') = First(E)
            <4>1. First(E') \in E => First(E) = First(E')
                BY <2>3, <3>1, FirstStays
            <4> QED
                BY <2>3, <3>2, <4>1
        <3>4. First(E)' = First(E')
            BY DEF First
        <3> QED
            BY <1>1, <2>2, <2>3, <3>1, <3>3, <3>4
    <2> QED
        BY <1>5, <2>1, <2>3, ExecutiveChanged DEF E
<1> QED
    BY <1>5, <1>6, <1>7, <1>8, ExecutivesSame DEF E
-----------------------------------------------------------------------------
(* The invariant, and what follows                                          *)

LEMMA CompanyStarts == ASSUME CompanyInit PROVE CompanyInv
<1>1. PICK e \in {1, 2} :
          \E other \in {NewAgent("L1", e),
                        [NewAgent("L0", Nobody) EXCEPT !.active = FALSE]} :
             agents = [a \in Staff |->
                          CASE a = e     -> NewAgent("L0", Nobody)
                            [] a = 3 - e -> other
                            [] OTHER     -> NoAgent]
    BY DEF CompanyInit
<1>2. PICK h \in {1, 2, Nobody} : holder = [i \in Items |-> h]
    BY DEF CompanyInit
<1>3. /\ tied = {} /\ request = [r \in Handlers |-> Idle]
      /\ late = {} /\ why = {} /\ changes = 0 /\ deletes = 0
    BY DEF CompanyInit
<1>4. 1 \in Staff /\ 2 \in Staff /\ 3 - e \in {1, 2} /\ 3 - e # e
    BY CompanyAssumption DEF Staff
<1>5. /\ agents[e] = [is |-> "there", level |-> "L0", active |-> TRUE, parent |-> Nobody]
      /\ \/ agents[3 - e] =
               [is |-> "there", level |-> "L1", active |-> TRUE, parent |-> e]
         \/ agents[3 - e] =
               [is |-> "there", level |-> "L0", active |-> FALSE, parent |-> Nobody]
      /\ \A a \in Staff \ {1, 2} : agents[a] =
               [is |-> "none", level |-> "L1", active |-> FALSE, parent |-> Nobody]
      /\ agents = [a \in Staff |-> agents[a]]
    BY <1>1, <1>4, ZenonT(60) DEF NewAgent, NoAgent
<1>6. \A a \in Staff : a = e \/ a = 3 - e \/ a \notin {1, 2}
    BY <1>4
<1>7. ActiveExecutives = {e}
    BY <1>4, <1>5, <1>6 DEF ActiveExecutives, There
<1>8. CompanyTypeOK
    <2>1. agents \in [Staff -> Rows]
        <3>1. /\ [is |-> "there", level |-> "L0", active |-> TRUE, parent |-> Nobody] \in Rows
              /\ [is |-> "there", level |-> "L1", active |-> TRUE, parent |-> e] \in Rows
              /\ [is |-> "there", level |-> "L0", active |-> FALSE, parent |-> Nobody] \in Rows
              /\ [is |-> "none", level |-> "L1", active |-> FALSE, parent |-> Nobody] \in Rows
            BY <1>4 DEF Rows
        <3>2. \A a \in Staff : agents[a] \in Rows
            BY <1>5, <1>6, <3>1, Zenon
        <3> QED
            BY <1>5, <3>2
    <2>2. \A a \in Staff : agents[a].parent # Nobody =>
              There(a) /\ There(agents[a].parent)
        BY <1>4, <1>5, <1>6 DEF There
    <2>3. /\ holder \in [Items -> Staff \cup {Nobody}]
          /\ \A i \in Items : holder[i] # Nobody => There(holder[i])
        BY <1>2, <1>4, <1>5, <1>6 DEF There
    <2> QED
        BY <1>3, <2>1, <2>2, <2>3, CompanyAssumption DEF CompanyTypeOK
<1>9. RequestsTyped
    BY <1>3, IdleRequest DEF RequestsTyped, DeletionSteps
<1>10. ExecutiveStays
    <2>1. First({e}) \in {e}
        BY <1>4, FirstAgent
    <2>2. e # Nobody
        BY <1>4, SomebodyIs
    <2> QED
        BY <1>3, <1>7, <2>1, <2>2, IdleRequest DEF ExecutiveStays
<1>11. ExecutiveAlone
    BY <1>7 DEF ExecutiveAlone
<1>12. GivenLate
    BY <1>3, IdleRequest DEF GivenLate, TooLate
<1>13. Acyclic
    <2>1. ASSUME NEW a \in Staff
          PROVE  \E S \in SUBSET Staff : a \notin S /\ Above(agents, S, a)
        <3>1. CASE agents[a].parent = Nobody
            <4>1. Above(agents, {}, a)
                BY <3>1 DEF Above
            <4> QED
                BY <4>1
        <3>2. CASE agents[a].parent # Nobody
            <4>1. a = 3 - e /\ agents[a].parent = e
                BY <1>5, <1>6, <3>2
            <4>2. Above(agents, {e}, a)
                BY <1>5, <4>1 DEF Above
            <4> QED
                BY <1>4, <4>1, <4>2
        <3> QED
            BY <3>1, <3>2
    <2> QED
        BY <2>1 DEF Acyclic, Rootward
<1> QED
    BY <1>8, <1>9, <1>10, <1>11, <1>12, <1>13 DEF CompanyInv

LEMMA CompanyStep ==
    ASSUME CompanyInv, [CompanyNext]_companyVars
    PROVE  CompanyInv'
<1>1. CASE CompanyNext
    BY <1>1, NamesKept, RequestsKept, ExecutiveStaysKept, ExecutiveAloneKept, LateKept, AcyclicKept
       DEF CompanyInv
<1>2. CASE UNCHANGED companyVars
    <2>1. /\ UNCHANGED <<agents, holder, tied, request, late, why, changes, deletes>>
        BY <1>2 DEF companyVars
    <2> QED
        <3>1. ActiveExecutives' = ActiveExecutives
            BY <2>1 DEF ActiveExecutives, There
        <3>2. (CompanyTypeOK /\ RequestsTyped)'
            BY <2>1 DEF CompanyInv, CompanyTypeOK, RequestsTyped, There
        <3>3. (ExecutiveStays /\ ExecutiveAlone)'
            BY <2>1, <3>1 DEF CompanyInv, ExecutiveStays, ExecutiveAlone, First
        <3>4. (GivenLate /\ Acyclic)'
            BY <2>1 DEF CompanyInv, GivenLate, Acyclic, TooLate
        <3> QED
            BY <3>2, <3>3, <3>4 DEF CompanyInv
<1> QED
    BY <1>1, <1>2

\* The inductive invariant, for any numbers of agents, of requests at once, of
\* changes and of deletions.
THEOREM CompanyInvariant == CompanySpec => []CompanyInv
<1>1. CompanyInit => CompanyInv
    BY CompanyStarts
<1>2. CompanyInv /\ [CompanyNext]_companyVars => CompanyInv'
    BY CompanyStep
<1> QED
    BY <1>1, <1>2, PTL DEF CompanySpec

\* What every row of the agents names is there; however many deletions go on
\* at once, an executive stays and is alone, and paths to the top end, but for
\* the events that the properties name.
THEOREM HierarchyIsSound == CompanySpec => []HierarchySound
<1>1. ASSUME CompanyInv PROVE HierarchySound
    <2>1. CompanyTypeOK
        BY <1>1 DEF CompanyInv
    <2>2. ExecutiveRemains
        BY <1>1 DEF CompanyInv, ExecutiveStays, ExecutiveRemains
    <2>3. OneExecutive
        BY <1>1 DEF CompanyInv, ExecutiveAlone, OneExecutive
    <2>4. PathsEnd
        <3>1. ASSUME NEW a \in Staff, Rootward(agents) PROVE a \notin Superiors(a)
            <4>1. PICK S \in SUBSET Staff : a \notin S /\ Above(agents, S, a)
                BY <3>1 DEF Rootward
            <4> QED
                BY <4>1 DEF Above, Superiors, HasParent
        <3> QED
            BY <1>1, <3>1 DEF CompanyInv, Acyclic, PathsEnd
    <2> QED
        BY <2>1, <2>2, <2>3, <2>4 DEF HierarchySound
<1> QED
    BY <1>1, CompanyInvariant, PTL

\* A deletion that ends without deleting the agent either found something tied
\* to it, or given to it behind its back, or lost the one it hands over to.
THEOREM DeletionsComplete == CompanySpec => DeletionCompletes
<1>1. ASSUME CompanyInv, [CompanyNext]_companyVars, NEW r \in Handlers,
             request[r].pc \in {"children", "projects", "tasks", "approvals", "delete"},
             request'[r].pc = "idle", agents'[request[r].agent].is = "there"
      PROVE  \/ request[r].agent \in tied \/ r \in late
             \/ ~There(request[r].fallback)
    <2> USE <1>1 DEF CompanyInv
    <2> DEFINE A == request[r].agent
    <2>1. CompanyNext
        <3>1. UNCHANGED companyVars => request' = request
            BY DEF companyVars
        <3> QED
            BY <3>1
    <2>2. request[r].pc \in DeletionSteps /\ A \in Staff
        BY DEF DeletionSteps, RequestsTyped, CompanyRequest
    <2>3. ASSUME NEW q \in Handlers, NEW new, request' = [request EXCEPT ![q] = new] PROVE q = r
        BY <2>2, <2>3 DEF RequestsTyped, DeletionSteps
    <2>4. ASSUME NEW q \in Handlers, NEW pc \in DeletionSteps PROVE request' # [request EXCEPT ![q].pc = pc]
        BY <2>2, <2>4 DEF RequestsTyped, DeletionSteps, CompanyRequest
    <2>5. CASE \E q \in Handlers : CreateRead(q) \/ DeleteRead(q) \/ CreateWrite(q)
        BY <2>2, <2>3, <2>5, CreationBegun, DeletionBegun, RowCreated, CompanyStep DEF DeletionSteps
    <2>6. CASE \E q \in Handlers : MoveChildren(q)
        <3>1. "projects" \in DeletionSteps
            BY DEF DeletionSteps
        <3> QED
            BY <2>3, <2>4, <2>6, <3>1, ChildrenMoved
    <2>7. CASE \E q \in Handlers :
                  MoveProjects(q) \/ MoveTasks(q) \/ MoveApprovals(q)
        <3>1. PICK q, items, pc :
                  /\ q \in Handlers /\ MoveItems(q, items, pc)
                  /\ pc \in DeletionSteps /\ request[q].pc \in DeletionSteps
            BY <2>7, ItemSteps DEF DeletionSteps
        <3> QED
            BY <2>3, <2>4, <3>1, ItemsMoved
    <2>8. CASE \E q \in Handlers : DeleteWrite(q)
        <3>1. DeleteWrite(r)
            BY <2>3, <2>8, RowDeleted
        <3>2. request[r].pc = "delete"
            BY <3>1, RowDeleted
        <3>3. agents' = agents
            BY <2>2, <3>1, RowDeleted DEF NoAgent
        <3>4. There(A)
            BY <2>2, <3>3 DEF There
        <3>5. A \in tied \/ \E i \in Binding : holder[i] = A
            <4>1. agents[A] # [NoAgent EXCEPT !.is = "gone"]
                BY <3>3 DEF NoAgent
            <4> QED
                BY <2>2, <3>1, <3>3, <3>4, <4>1, RowDeleted
        <3>6. ASSUME NEW i \in Binding, holder[i] = A PROVE r \in late
            <4>1. i \in Items /\ r \in TooLate(holder[i], i)
                BY <3>2, <3>6 DEF Binding, TooLate
            <4> QED
                BY <4>1 DEF GivenLate
        <3> QED
            BY <3>5, <3>6
    <2>9. CASE \E a \in Staff :
             \/ SetStatus(a) \/ SetParent(a) \/ Give(a) \/ Tie(a)
        BY <2>9, ChangesOfOne
    <2> QED
        BY <2>1, <2>5, <2>6, <2>7, <2>8, <2>9 DEF CompanyNext
<1>2. CompanyInv /\ [CompanyNext]_companyVars =>
          [\A r \in Handlers :
              LET q == request[r] IN
              /\ q.pc \in {"children", "projects", "tasks", "approvals", "delete"}
              /\ request'[r].pc = "idle"
              /\ agents'[q.agent].is = "there"
              => q.agent \in tied \/ r \in late \/ ~There(q.fallback)]_companyVars
    BY <1>1
<1> QED
    BY <1>2, CompanyInvariant, PTL DEF CompanySpec, DeletionCompletes

\* No deletion leaves a task without an assignee but one that was assigned to
\* the agent when its tasks had been handed over.
THEOREM NoTaskIsOrphaned == CompanySpec => NoTaskOrphaned
<1>1. ASSUME CompanyInv, [CompanyNext]_companyVars,
             holder["assignee"] # Nobody, holder'["assignee"] = Nobody
      PROVE  \E r \in late : request[r].agent = holder["assignee"]
    <2> USE <1>1 DEF CompanyInv
    <2> DEFINE i == "assignee"
    <2>1. i \in Items
        BY DEF Items
    <2>2. CompanyNext
        <3>1. UNCHANGED companyVars => holder' = holder
            BY DEF companyVars
        <3> QED
            BY <3>1
    <2>3. CASE \E r \in Handlers : DeleteWrite(r)
        <3>1. PICK r \in Handlers : DeleteWrite(r)
            BY <2>3
        <3>2. request[r].pc = "delete" /\ holder[i] = request[r].agent
            BY <2>1, <3>1, RowDeleted
        <3>3. r \in TooLate(holder[i], i)
            BY <3>2 DEF TooLate
        <3> QED
            BY <2>1, <3>2, <3>3 DEF GivenLate
    <2>4. CASE \E r \in Handlers :
              \/ CreateRead(r) \/ CreateWrite(r) \/ DeleteRead(r)
              \/ MoveChildren(r)
        BY <2>4, CreationBegun, RowCreated, DeletionBegun, ChildrenMoved
    <2>5. CASE \E r \in Handlers :
                  MoveProjects(r) \/ MoveTasks(r) \/ MoveApprovals(r)
        <3>1. PICK r, items, pc :
                  /\ r \in Handlers /\ MoveItems(r, items, pc)
                  /\ pc \in DeletionSteps /\ request[r].pc \in DeletionSteps
            BY <2>5, ItemSteps DEF DeletionSteps
        <3>2. request[r].fallback # Nobody
            BY <3>1 DEF RequestsTyped
        <3> QED
            BY <2>1, <3>1, <3>2, ItemsMoved
    <2>6. CASE \E a \in Staff :
             \/ SetStatus(a) \/ SetParent(a) \/ Give(a) \/ Tie(a)
        <3>1. PICK a \in Staff :
                 \/ SetStatus(a) \/ SetParent(a) \/ Give(a) \/ Tie(a)
            BY <2>6
        <3>2. holder'[i] \in {holder[i], a}
            BY <2>1, <3>1 DEF SetStatus, SetParent, Give, Tie,
                              CompanyTypeOK
        <3> QED
            BY <3>2, SomebodyIs
    <2> QED
        BY <2>2, <2>3, <2>4, <2>5, <2>6 DEF CompanyNext
<1>2. CompanyInv /\ [CompanyNext]_companyVars =>
          [holder["assignee"] # Nobody /\ holder'["assignee"] = Nobody =>
              \E r \in late : request[r].agent = holder["assignee"]]_companyVars
    BY <1>1
<1> QED
    BY <1>2, CompanyInvariant, PTL DEF CompanySpec, NoTaskOrphaned
=============================================================================
