----------------------- MODULE HeartbeatRuntimeProofs -----------------------
(***************************************************************************)
(* Proofs about the heartbeat scheduler, for any agents, polls, jobs,      *)
(* intervals and bounds.                                                   *)
(*                                                                         *)
(* That two heartbeats of an agent are an interval apart cannot be seen    *)
(* from the row alone: it is read, changed and written back as a whole by  *)
(* the poll and by the job.  The invariant says that, as long as no run    *)
(* was forced, no task job ran and no lease was recovered beside its job,  *)
(* there is one poll at a time, one heartbeat job of an agent, and it      *)
(* holds the lease; so that the poll that marks an agent is the only       *)
(* writer of its row, and what any reader keeps has a cooldown that ends   *)
(* an interval after the last heartbeat at the earliest.                   *)
(*                                                                         *)
(* The second part is about the cron scheduler (CronRuntime).  Its         *)
(* invariant bounds what a poll and an edit keep of a row while others     *)
(* write it: the time a poll has listed lies after the last one run, and   *)
(* the next time an edit is about to write lies after any that is run      *)
(* meanwhile, unless the edit is explained.                                *)
(***************************************************************************)
EXTENDS HeartbeatRuntime, CronRuntime, TLAPS

(* The inductive invariant *)

\* A poll is at an agent between two accesses, not otherwise.
AtAgent == {"recover", "recoverWrite", "mark", "markWrite", "enqueue", "resetWrite"}

PollsNameAgents == \A p \in Polls : poll[p].pc \in AtAgent => poll[p].agent \in Agents

\* The guard of the scheduler works until a run is forced.
OnePoll ==
    others = 0 =>
        /\ \A p \in Polls : poll[p].pc # "idle" => pollInFlight
        /\ \A p, q \in Polls : poll[p].pc # "idle" /\ poll[q].pc # "idle" => p = q
        /\ \A p \in Polls : poll[p].pc \notin {"reset", "resetWrite"}
        /\ \A j \in JobIds : job[j].kind = "heartbeat"

\* Agents for which the cooldown is kept.
Regular == {a \in Agents : others = 0 /\ a \notin early}

\* The job of an agent is the only one, and its lease is held.
OneHeartbeat ==
    \A a \in Regular :
        /\ \A i, j \in Outstanding(a) : i = j
        /\ Outstanding(a) # {} => hb[a].inFlight

Marking == {"mark", "markWrite", "enqueue"}

\* An agent whose lease is released or that is marked has no job at work; one
\* that is marked has had its interval, and one that was marked a new cooldown.
MarkedAlone ==
    \A p \in Polls, a \in Regular :
        poll[p].agent = a =>
            /\ poll[p].pc \in Marking \cup {"recoverWrite"} => Outstanding(a) = {}
            /\ poll[p].pc \in Marking => since[a] >= Interval
            /\ poll[p].pc = "enqueue" => hb[a].inFlight /\ hb[a].cooldown = Interval

\* The cooldown in the row, and in what is kept of it, lasts for the interval.
Lasts(a, s) == since[a] + s.cooldown >= Interval

CooldownLasts ==
    \A a \in Regular :
        /\ Lasts(a, hb[a])
        /\ \A j \in Outstanding(a) :
              job[j].pc \in {"startWrite", "endWrite"} => Lasts(a, job[j].seen)
        /\ \A p \in Polls :
              poll[p].agent = a /\ poll[p].pc \in {"recover", "recoverWrite"} =>
                  Lasts(a, poll[p].seen)

IInv ==
    /\ TypeOK
    /\ PollsNameAgents
    /\ OnePoll
    /\ OneHeartbeat
    /\ MarkedAlone
    /\ CooldownLasts

-----------------------------------------------------------------------------
(* Types                                                                    *)

JobPcs == {"free", "queued", "startRead", "startWrite", "run", "endRead", "endWrite"}
JobType == [pc : JobPcs, kind : {"heartbeat", "task"},
            agent : Agents \cup {Nobody}, seen : StateType]

PollPcs == {"idle", "next", "recover", "recoverWrite", "mark", "markWrite", "enqueue",
            "reset", "resetWrite"}
PollType == [pc : PollPcs, todo : SUBSET Agents, agent : Agents \cup {Nobody},
             seen : StateType, listed : [Agents -> AgentStatus]]

LEMMA Numbers ==
    /\ Interval \in Nat /\ Interval >= 1 /\ RunLimit \in Nat
    /\ StaleAfter \in Nat /\ StaleAfter >= Interval /\ Never = StaleAfter + 1
    /\ Horizon \in Nat /\ Horizon >= Interval
BY HeartbeatAssumption DEF StaleAfter, Never, Horizon

LEMMA NoStateTyped ==
    NoState \in StateType /\ ~NoState.inFlight /\ NoState.cooldown = 0
BY Numbers DEF NoState, StateType

LEMMA FreeJobTyped ==
    /\ FreeJob \in JobType /\ FreeJob.pc = "free" /\ FreeJob.agent = Nobody
    /\ FreeJob.kind = "heartbeat" /\ FreeJob.seen = NoState
BY NoStateTyped DEF FreeJob, JobType, JobPcs

LEMMA PollsTyped ==
    /\ IdlePoll \in PollType /\ IdlePoll.pc = "idle" /\ IdlePoll.agent = Nobody
    /\ agentStatus \in [Agents -> AgentStatus] =>
          \A pc \in PollPcs :
              /\ [NewPoll EXCEPT !.pc = pc] \in PollType
              /\ [NewPoll EXCEPT !.pc = pc].pc = pc
              /\ [NewPoll EXCEPT !.pc = pc].agent = Nobody
    /\ agentStatus \in [Agents -> AgentStatus] =>
          NewPoll \in PollType /\ NewPoll.pc = "next" /\ NewPoll.agent = Nobody
BY NoStateTyped DEF IdlePoll, NewPoll, PollType, PollPcs, AgentStatus

LEMMA TypesOf ==
    ASSUME IInv
    PROVE  /\ agentStatus \in [Agents -> AgentStatus] /\ hb \in [Agents -> StateType]
           /\ job \in [JobIds -> JobType] /\ poll \in [Polls -> PollType]
           /\ since \in [Agents -> 0 .. Horizon]
           /\ \A j \in JobIds : job[j].pc = "free" <=> job[j].agent = Nobody
           /\ \A p \in Polls : poll[p].pc \in AtAgent => poll[p].agent \in Agents
           /\ others \in Nat
<1>1. others \in Nat
    BY HeartbeatAssumption DEF IInv, TypeOK
<1> QED
    BY <1>1 DEF IInv, TypeOK, JobType, JobPcs, PollType, PollPcs, PollsNameAgents

\* The states that are written, with the lease dated.
Dated(s) == s.inFlight => s.started # Never \/ s.scheduled # Never

LEMMA WrittenStates ==
    ASSUME NEW s \in StateType
    PROVE  /\ [s EXCEPT !.inFlight = FALSE] \in StateType
           /\ ~[s EXCEPT !.inFlight = FALSE].inFlight
           /\ [s EXCEPT !.inFlight = FALSE].cooldown = s.cooldown
           /\ [s EXCEPT !.inFlight = FALSE, !.cooldown = 0] \in StateType
           /\ ~[s EXCEPT !.inFlight = FALSE, !.cooldown = 0].inFlight
           /\ [s EXCEPT !.inFlight = TRUE, !.started = 0] \in StateType
           /\ [s EXCEPT !.inFlight = TRUE, !.started = 0].inFlight
           /\ [s EXCEPT !.inFlight = TRUE, !.started = 0].cooldown = s.cooldown
           /\ Dated([s EXCEPT !.inFlight = TRUE, !.started = 0])
           /\ Queued(s) \in StateType /\ Dated(Queued(s))
           /\ Queued(s).inFlight /\ Queued(s).cooldown = Interval
<1>1. 0 \in 0 .. Never /\ 0 # Never /\ 0 \in 0 .. Interval /\ Interval \in 0 .. Interval
    BY Numbers
<1>2. /\ [s EXCEPT !.inFlight = FALSE] \in StateType
      /\ [s EXCEPT !.inFlight = FALSE, !.cooldown = 0] \in StateType
      /\ [s EXCEPT !.inFlight = TRUE, !.started = 0] \in StateType
      /\ Queued(s) \in StateType
    BY <1>1 DEF StateType, Queued
<1>3. /\ Dated([s EXCEPT !.inFlight = TRUE, !.started = 0])
      /\ Dated(Queued(s))
    BY <1>1 DEF StateType, Queued, Dated
<1> QED
    BY <1>2, <1>3 DEF StateType, Queued

LEMMA OlderStates ==
    ASSUME NEW s \in StateType
    PROVE  /\ Older(s) \in StateType
           /\ Older(s).inFlight = s.inFlight
           /\ Older(s).cooldown = IF s.cooldown > 0 THEN s.cooldown - 1 ELSE 0
           /\ Dated(s) => Dated(Older(s))
<1>1. /\ s.started \in 0 .. Never /\ s.scheduled \in 0 .. Never /\ s.cooldown \in 0 .. Interval
      /\ s.inFlight \in BOOLEAN
    BY DEF StateType
<1>2. \A age \in 0 .. Never : /\ Grow(age, StaleAfter) \in 0 .. Never
                              /\ age # Never => Grow(age, StaleAfter) # Never
    BY Numbers DEF Grow
<1>3. (IF s.cooldown > 0 THEN s.cooldown - 1 ELSE 0) \in 0 .. Interval
    BY <1>1, Numbers
<1>4. Older(s) = [s EXCEPT !.started = Grow(s.started, StaleAfter),
                           !.scheduled = Grow(s.scheduled, StaleAfter),
                           !.cooldown = IF s.cooldown > 0 THEN s.cooldown - 1 ELSE 0]
    BY DEF Older
<1> QED
    BY <1>1, <1>2, <1>3, <1>4 DEF StateType, Dated

-----------------------------------------------------------------------------
(* What a step does to the polls and to the jobs                            *)

PollAlone(p) ==
    poll' \in [Polls -> PollType] /\ \A q \in Polls \ {p} : poll'[q] = poll[q]
PollBecomes(p, pc, agent) ==
    PollAlone(p) /\ poll'[p].pc = pc /\ poll'[p].agent = agent

LEMMA OnePollMoves ==
    ASSUME poll \in [Polls -> PollType], NEW p \in Polls, NEW q \in PollType,
           poll' = [poll EXCEPT ![p] = q]
    PROVE  PollAlone(p) /\ poll'[p] = q
BY DEF PollAlone

LEMMA Goes ==
    ASSUME poll \in [Polls -> PollType], NEW p \in Polls, NEW pc \in PollPcs, PollGoto(p, pc)
    PROVE  PollBecomes(p, pc, IF pc \in {"next", "reset"} THEN Nobody ELSE poll[p].agent)
<1> DEFINE agent == IF pc \in {"next", "reset"} THEN Nobody ELSE poll[p].agent
           q == [poll[p] EXCEPT !.pc = pc, !.seen = NoState, !.agent = agent]
<1>1. q \in PollType /\ q.pc = pc /\ q.agent = agent
    BY NoStateTyped DEF PollType
<1>2. poll' = [poll EXCEPT ![p] = q]
    BY DEF PollGoto, PollType
<1> HIDE DEF q
<1> QED
    BY <1>1, <1>2, OnePollMoves DEF PollBecomes

LEMMA PollSteps ==
    ASSUME IInv, NEW p \in Polls
    PROVE  /\ StartPoll(p) \/ ForcedPoll(p) => PollBecomes(p, "next", Nobody)
           /\ ForceRun(p) => PollBecomes(p, "reset", Nobody)
           /\ PollAgent(p) =>
                 \/ PollBecomes(p, "next", Nobody)
                 \/ \E a \in Agents : \/ /\ PollBecomes(p, "recover", a)
                                         /\ poll'[p].seen = hb[a]
                                      \/ /\ PollBecomes(p, "mark", a)
                                         /\ ~hb[a].inFlight /\ hb[a].cooldown = 0
           /\ Recover(p) => /\ PollBecomes(p, "recoverWrite", poll[p].agent)
                            /\ poll'[p].seen = poll[p].seen
           /\ RecoverWrite(p) => \/ PollBecomes(p, "next", Nobody)
                                 \/ /\ PollBecomes(p, "mark", poll[p].agent)
                                    /\ poll[p].seen.cooldown = 0
           /\ MarkQueuedRead(p) => PollBecomes(p, "markWrite", poll[p].agent)
           /\ MarkQueuedWrite(p) => PollBecomes(p, "enqueue", poll[p].agent)
           /\ EnqueueHeartbeat(p) => PollBecomes(p, "next", Nobody)
           /\ EndPoll(p) => PollBecomes(p, "idle", Nobody)
           /\ ResetRead(p) => \/ PollBecomes(p, "reset", Nobody)
                              \/ \E a \in Agents : PollBecomes(p, "resetWrite", a)
           /\ ResetWrite(p) => PollBecomes(p, "reset", Nobody)
<1>0. /\ poll \in [Polls -> PollType] /\ agentStatus \in [Agents -> AgentStatus]
      /\ hb \in [Agents -> StateType] /\ poll[p] \in PollType
    BY TypesOf
<1>1. ASSUME NEW q \in PollType, poll' = [poll EXCEPT ![p] = q]
      PROVE  PollBecomes(p, q.pc, q.agent) /\ poll'[p].seen = q.seen
    BY <1>0, <1>1, OnePollMoves DEF PollBecomes
<1>2. StartPoll(p) \/ ForcedPoll(p) => PollBecomes(p, "next", Nobody)
    BY <1>0, <1>1, PollsTyped DEF StartPoll, ForcedPoll
<1>3. ForceRun(p) => PollBecomes(p, "reset", Nobody)
    <2> DEFINE new == [NewPoll EXCEPT !.pc = "reset"]
    <2>1. new \in PollType /\ new.pc = "reset" /\ new.agent = Nobody
        BY <1>0, PollsTyped DEF PollPcs
    <2>2. ForceRun(p) => poll' = [poll EXCEPT ![p] = new]
        BY DEF ForceRun
    <2> HIDE DEF new
    <2> QED
        BY <1>1, <2>1, <2>2
<1>4. ASSUME PollAgent(p)
      PROVE  \/ PollBecomes(p, "next", Nobody)
             \/ \E a \in Agents : \/ PollBecomes(p, "recover", a) /\ poll'[p].seen = hb[a]
                                  \/ /\ PollBecomes(p, "mark", a)
                                     /\ ~hb[a].inFlight /\ hb[a].cooldown = 0
    <2> DEFINE New(a, pc) ==
            [poll[p] EXCEPT !.pc = pc, !.todo = @ \ {a},
                            !.agent = IF pc = "next" THEN Nobody ELSE a,
                            !.seen = IF pc = "recover" THEN hb[a] ELSE NoState]
    <2>1. \E a \in poll[p].todo, pc \in {"next", "recover", "mark"} :
              /\ poll' = [poll EXCEPT ![p] = New(a, pc)]
              /\ pc = "mark" => ~hb[a].inFlight /\ hb[a].cooldown = 0
        <3>1. PICK a \in poll[p].todo :
                  LET s == hb[a]
                      pc == IF poll[p].listed[a] = "terminated" THEN "next"
                            ELSE IF s.inFlight
                            THEN (IF IsStaleInFlight(s) THEN "recover" ELSE "next")
                            ELSE (IF Due(p, a, s) THEN "mark" ELSE "next")
                  IN poll' = [poll EXCEPT ![p].pc = pc, ![p].todo = @ \ {a},
                                 ![p].agent = IF pc = "next" THEN Nobody ELSE a,
                                 ![p].seen = IF pc = "recover" THEN s ELSE NoState]
            BY <1>4 DEF PollAgent
        <3> DEFINE pc == IF poll[p].listed[a] = "terminated" THEN "next"
                         ELSE IF hb[a].inFlight
                         THEN (IF IsStaleInFlight(hb[a]) THEN "recover" ELSE "next")
                         ELSE (IF Due(p, a, hb[a]) THEN "mark" ELSE "next")
        <3>2. /\ pc \in {"next", "recover", "mark"}
              /\ pc = "mark" => ~hb[a].inFlight /\ hb[a].cooldown = 0
            BY DEF Due
        <3>3. poll' = [poll EXCEPT ![p].pc = pc, ![p].todo = @ \ {a},
                          ![p].agent = IF pc = "next" THEN Nobody ELSE a,
                          ![p].seen = IF pc = "recover" THEN hb[a] ELSE NoState]
            BY <3>1
        <3> HIDE DEF pc
        <3>4. poll' = [poll EXCEPT ![p] = New(a, pc)]
            BY <1>0, <3>3 DEF PollType
        <3> QED
            BY <3>2, <3>4
    <2>2. \A a \in Agents, pc \in {"next", "recover", "mark"} :
              /\ New(a, pc) \in PollType /\ New(a, pc).pc = pc
              /\ New(a, pc).agent = IF pc = "next" THEN Nobody ELSE a
              /\ pc = "recover" => New(a, pc).seen = hb[a]
        BY <1>0, NoStateTyped, ZenonT(60) DEF PollType, PollPcs
    <2> HIDE DEF New
    <2>3. poll[p].todo \subseteq Agents
        BY <1>0 DEF PollType
    <2>4. PICK a \in Agents, pc \in {"next", "recover", "mark"} :
              /\ poll' = [poll EXCEPT ![p] = New(a, pc)]
              /\ pc = "mark" => ~hb[a].inFlight /\ hb[a].cooldown = 0
        BY <2>1, <2>3
    <2>5. /\ PollBecomes(p, pc, IF pc = "next" THEN Nobody ELSE a)
          /\ pc = "recover" => poll'[p].seen = hb[a]
        <3> DEFINE new == New(a, pc)
        <3>1. /\ new \in PollType /\ new.pc = pc
              /\ new.agent = IF pc = "next" THEN Nobody ELSE a
              /\ pc = "recover" => new.seen = hb[a]
              /\ poll' = [poll EXCEPT ![p] = new]
            BY <2>2, <2>4
        <3> HIDE DEF new
        <3>2. PollBecomes(p, new.pc, new.agent) /\ poll'[p].seen = new.seen
            BY <1>1, <3>1
        <3> QED
            BY <3>1, <3>2
    <2> QED
        BY <2>4, <2>5
<1>5. Recover(p) => PollBecomes(p, "recoverWrite", poll[p].agent) /\ poll'[p].seen = poll[p].seen
    BY <1>0 DEF Recover, PollBecomes, PollAlone, PollType, PollPcs
<1>6. RecoverWrite(p) => \/ PollBecomes(p, "next", Nobody)
                         \/ PollBecomes(p, "mark", poll[p].agent) /\ poll[p].seen.cooldown = 0
    BY <1>0, Goes DEF RecoverWrite, Due, PollPcs
<1>7. ASSUME MarkQueuedRead(p) PROVE PollBecomes(p, "markWrite", poll[p].agent)
    <2> DEFINE new == [poll[p] EXCEPT !.pc = "markWrite", !.seen = hb[poll[p].agent]]
    <2>1. hb[poll[p].agent] \in StateType
        BY <1>0, <1>7, TypesOf DEF MarkQueuedRead, PollAt, AtAgent
    <2>2. new \in PollType /\ new.pc = "markWrite" /\ new.agent = poll[p].agent
        BY <1>0, <2>1 DEF PollType, PollPcs
    <2>3. poll' = [poll EXCEPT ![p] = new]
        BY <1>0, <1>7 DEF MarkQueuedRead, PollType
    <2> HIDE DEF new
    <2> QED
        BY <1>1, <2>2, <2>3
<1>8. /\ MarkQueuedWrite(p) => PollBecomes(p, "enqueue", poll[p].agent)
      /\ EnqueueHeartbeat(p) => PollBecomes(p, "next", Nobody)
      /\ ResetWrite(p) => PollBecomes(p, "reset", Nobody)
    BY <1>0, Goes DEF MarkQueuedWrite, EnqueueHeartbeat, ResetWrite, PollPcs
<1>9. EndPoll(p) => PollBecomes(p, "idle", Nobody)
    BY <1>0, <1>1, PollsTyped DEF EndPoll
<1>10. ASSUME ResetRead(p)
       PROVE  \/ PollBecomes(p, "reset", Nobody)
              \/ \E a \in Agents : PollBecomes(p, "resetWrite", a)
    <2>1. PICK a \in poll[p].todo :
              poll' = [poll EXCEPT ![p].todo = @ \ {a},
                  ![p].pc = IF poll[p].listed[a] = "terminated" THEN "reset" ELSE "resetWrite",
                  ![p].agent = IF poll[p].listed[a] = "terminated" THEN Nobody ELSE a,
                  ![p].seen = IF poll[p].listed[a] = "terminated" THEN NoState ELSE hb[a]]
        BY <1>10 DEF ResetRead
    <2> DEFINE gone == poll[p].listed[a] = "terminated"
               pc == IF gone THEN "reset" ELSE "resetWrite"
               agent == IF gone THEN Nobody ELSE a
               seen == IF gone THEN NoState ELSE hb[a]
               new == [poll[p] EXCEPT !.todo = @ \ {a}, !.pc = pc, !.agent = agent, !.seen = seen]
    <2>2. a \in Agents
        BY <1>0 DEF PollType
    <2>3. /\ pc \in PollPcs /\ agent \in Agents \cup {Nobody} /\ seen \in StateType
          /\ \/ pc = "reset" /\ agent = Nobody
             \/ pc = "resetWrite" /\ agent = a
        BY <1>0, <2>2, NoStateTyped DEF PollPcs
    <2>4. poll' = [poll EXCEPT ![p].todo = @ \ {a}, ![p].pc = pc, ![p].agent = agent,
                               ![p].seen = seen]
        BY <2>1
    <2> HIDE DEF gone, pc, agent, seen
    <2>5. new \in PollType /\ new.pc = pc /\ new.agent = agent
        BY <1>0, <2>3 DEF PollType
    <2>6. poll' = [poll EXCEPT ![p] = new]
        BY <1>0, <2>4 DEF PollType
    <2> HIDE DEF new
    <2> QED
        BY <1>1, <2>2, <2>3, <2>5, <2>6
<1> QED
    BY <1>2, <1>3, <1>4, <1>5, <1>6, <1>7, <1>8, <1>9, <1>10

JobAlone(j) ==
    job' \in [JobIds -> JobType] /\ \A i \in JobIds \ {j} : job'[i] = job[i]

\* The job goes on, for the same agent.
JobGoes(j, pc) ==
    /\ JobAlone(j) /\ job'[j].pc = pc
    /\ job'[j].agent = job[j].agent /\ job'[j].kind = job[j].kind

Added(j, a, kind) ==
    /\ JobAlone(j) /\ job[j].pc = "free"
    /\ job'[j].pc = "queued" /\ job'[j].agent = a /\ job'[j].kind = kind

LEMMA JobSteps ==
    ASSUME IInv, NEW j \in JobIds
    PROVE  /\ StartJob(j) => JobGoes(j, "startRead")
           /\ ReadState(j) =>
                 \/ job[j].pc = "startRead" /\ JobGoes(j, "startWrite") /\ job'[j].seen = hb[job[j].agent]
                 \/ job[j].pc = "endRead" /\ JobGoes(j, "endWrite") /\ job'[j].seen = hb[job[j].agent]
           /\ StartWrite(j) => JobGoes(j, "run")
           /\ EndRun(j) => JobGoes(j, "endRead")
           /\ EndWrite(j) => JobAlone(j) /\ job'[j] = FreeJob
<1>0. job \in [JobIds -> JobType] /\ job[j] \in JobType /\ hb \in [Agents -> StateType]
    BY TypesOf
<1>1. ASSUME NEW n \in JobType, job' = [job EXCEPT ![j] = n]
      PROVE  JobAlone(j) /\ job'[j] = n
    BY <1>0, <1>1 DEF JobAlone
<1>2. StartJob(j) => JobGoes(j, "startRead")
    BY <1>0 DEF StartJob, JobGoto, JobGoes, JobAlone, JobType, JobPcs
<1>3. ASSUME ReadState(j)
      PROVE  \/ /\ job[j].pc = "startRead" /\ JobGoes(j, "startWrite")
                /\ job'[j].seen = hb[job[j].agent]
             \/ /\ job[j].pc = "endRead" /\ JobGoes(j, "endWrite")
                /\ job'[j].seen = hb[job[j].agent]
    <2> DEFINE pc == IF job[j].pc = "startRead" THEN "startWrite" ELSE "endWrite"
               seen == hb[job[j].agent]
               n == [job[j] EXCEPT !.pc = pc, !.seen = seen]
    <2>1. job[j].agent \in Agents
        BY <1>0, <1>3, TypesOf DEF ReadState, JobType
    <2>2. seen \in StateType /\ pc \in JobPcs
        BY <1>0, <2>1 DEF JobPcs
    <2>3. job' = [job EXCEPT ![j].pc = pc, ![j].seen = seen]
        BY <1>0, <1>3 DEF ReadState, JobType
    <2>4. \/ job[j].pc = "startRead" /\ pc = "startWrite"
          \/ job[j].pc = "endRead" /\ pc = "endWrite"
        BY <1>3 DEF ReadState
    <2> HIDE DEF pc, seen
    <2>5. /\ n \in JobType /\ n.pc = pc /\ n.seen = seen
          /\ n.agent = job[j].agent /\ n.kind = job[j].kind
        BY <1>0, <2>2 DEF JobType
    <2>6. job' = [job EXCEPT ![j] = n]
        BY <1>0, <2>3 DEF JobType
    <2> HIDE DEF n
    <2>7. JobAlone(j) /\ job'[j] = n
        BY <1>1, <2>5, <2>6
    <2>8. job'[j].seen = hb[job[j].agent]
        BY <2>5, <2>7 DEF seen
    <2> QED
        BY <2>4, <2>5, <2>7, <2>8 DEF JobGoes
<1>4. StartWrite(j) => JobGoes(j, "run")
    <2> DEFINE n == [job[j] EXCEPT !.pc = "run", !.seen = NoState]
    <2>1. /\ n \in JobType /\ n.pc = "run"
          /\ n.agent = job[j].agent /\ n.kind = job[j].kind
        BY <1>0, NoStateTyped DEF JobType, JobPcs
    <2>2. StartWrite(j) => job' = [job EXCEPT ![j] = n]
        BY <1>0 DEF StartWrite, JobType
    <2> HIDE DEF n
    <2> QED
        BY <1>1, <2>1, <2>2 DEF JobGoes
<1>5. EndRun(j) => JobGoes(j, "endRead")
    BY <1>0 DEF EndRun, JobGoto, JobGoes, JobAlone, JobType, JobPcs
<1>6. EndWrite(j) => JobAlone(j) /\ job'[j] = FreeJob
    BY <1>1, FreeJobTyped DEF EndWrite
<1> QED
    BY <1>2, <1>3, <1>4, <1>5, <1>6

LEMMA JobsAdded ==
    ASSUME IInv
    PROVE  /\ \A p \in Polls : EnqueueHeartbeat(p) =>
                 /\ poll[p].agent \in Agents
                 /\ \E j \in JobIds : Added(j, poll[p].agent, "heartbeat")
           /\ \A a \in Agents : EnqueueTask(a) => \E j \in JobIds : Added(j, a, "task")
<1>0. job \in [JobIds -> JobType]
    BY TypesOf
<1>1. ASSUME NEW j \in JobIds, NEW a \in Agents, NEW kind \in {"heartbeat", "task"}, NEW n,
             n = [FreeJob EXCEPT !.pc = "queued", !.agent = a, !.kind = kind],
             job[j].pc = "free", job' = [job EXCEPT ![j] = n]
      PROVE  Added(j, a, kind)
    <2>1. n \in JobType /\ n.pc = "queued" /\ n.agent = a /\ n.kind = kind
        BY <1>1, FreeJobTyped DEF JobType, JobPcs
    <2> QED
        BY <1>0, <1>1, <2>1 DEF Added, JobAlone
<1>2. ASSUME NEW p \in Polls, EnqueueHeartbeat(p)
      PROVE  poll[p].agent \in Agents /\ \E j \in JobIds : Added(j, poll[p].agent, "heartbeat")
    <2>1. poll[p].agent \in Agents
        BY <1>2, TypesOf DEF EnqueueHeartbeat, PollAt, AtAgent
    <2>2. PICK j \in JobIds :
              /\ job[j].pc = "free"
              /\ job' = [job EXCEPT ![j] = [FreeJob EXCEPT !.pc = "queued", !.agent = poll[p].agent]]
        BY <1>2 DEF EnqueueHeartbeat
    <2>3. [FreeJob EXCEPT !.pc = "queued", !.agent = poll[p].agent]
              = [FreeJob EXCEPT !.pc = "queued", !.agent = poll[p].agent, !.kind = "heartbeat"]
        BY FreeJobTyped DEF JobType
    <2> QED
        BY <1>1, <2>1, <2>2, <2>3
<1>3. ASSUME NEW a \in Agents, EnqueueTask(a)
      PROVE  \E j \in JobIds : Added(j, a, "task")
    <2>1. PICK j \in JobIds :
              /\ job[j].pc = "free"
              /\ job' = [job EXCEPT ![j] = [FreeJob EXCEPT !.pc = "queued", !.agent = a,
                                                           !.kind = "task"]]
        BY <1>3 DEF EnqueueTask
    <2> QED
        BY <1>1, <2>1
<1> QED
    BY <1>2, <1>3

\* The row of one agent is written, with a sound state.
Writes(a, s) ==
    /\ a \in Agents /\ s \in StateType /\ Dated(s)
    /\ hb' = [hb EXCEPT ![a] = s]

LEMMA RowsWritten ==
    ASSUME IInv
    PROVE  /\ \A p \in Polls : RecoverWrite(p) \/ ResetWrite(p) =>
                 \E s : Writes(poll[p].agent, s)
           /\ \A p \in Polls : RecoverWrite(p) => \E s :
                 Writes(poll[p].agent, s) /\ s.cooldown = poll[p].seen.cooldown
           /\ \A p \in Polls : MarkQueuedWrite(p) => \E s :
                 Writes(poll[p].agent, s) /\ s.inFlight /\ s.cooldown = Interval
           /\ \A j \in JobIds : StartWrite(j) => \E s :
                 Writes(job[j].agent, s) /\ s.inFlight /\ s.cooldown = job[j].seen.cooldown
           /\ \A j \in JobIds : EndWrite(j) => \E s :
                 Writes(job[j].agent, s) /\ s.cooldown = job[j].seen.cooldown
<1>1. ASSUME NEW p \in Polls, RecoverWrite(p) \/ ResetWrite(p) \/ MarkQueuedWrite(p)
      PROVE  poll[p].agent \in Agents /\ poll[p].seen \in StateType
    BY <1>1, TypesOf
       DEF RecoverWrite, ResetWrite, MarkQueuedWrite, PollAt, AtAgent, PollType
<1>2. ASSUME NEW j \in JobIds, StartWrite(j) \/ EndWrite(j)
      PROVE  job[j].agent \in Agents /\ job[j].seen \in StateType
    BY <1>2, TypesOf DEF StartWrite, EndWrite, JobAt, JobType
<1> USE DEF Writes
<1>3. \A p \in Polls : RecoverWrite(p) => \E s :
          Writes(poll[p].agent, s) /\ s.cooldown = poll[p].seen.cooldown
    BY <1>1, WrittenStates DEF RecoverWrite, Dated
<1>4. \A p \in Polls : ResetWrite(p) => \E s : Writes(poll[p].agent, s)
    BY <1>1, WrittenStates DEF ResetWrite, Dated
<1>5. \A p \in Polls : MarkQueuedWrite(p) => \E s :
          Writes(poll[p].agent, s) /\ s.inFlight /\ s.cooldown = Interval
    BY <1>1, WrittenStates DEF MarkQueuedWrite
<1>6. \A j \in JobIds : StartWrite(j) => \E s :
          Writes(job[j].agent, s) /\ s.inFlight /\ s.cooldown = job[j].seen.cooldown
    BY <1>2, WrittenStates DEF StartWrite
<1>7. \A j \in JobIds : EndWrite(j) => \E s :
          Writes(job[j].agent, s) /\ s.cooldown = job[j].seen.cooldown
    BY <1>2, WrittenStates DEF EndWrite, Dated
<1> QED
    BY <1>3, <1>4, <1>5, <1>6, <1>7

-----------------------------------------------------------------------------
(* Types are kept                                                           *)

LEMMA PollsKept ==
    ASSUME IInv, Next
    PROVE  /\ poll' \in [Polls -> PollType] /\ PollsNameAgents'
           /\ pollInFlight' \in BOOLEAN
<1> DEFINE Named(x) == x.pc \in AtAgent => x.agent \in Agents
<1>0. poll \in [Polls -> PollType] /\ \A q \in Polls : Named(poll[q])
    BY TypesOf
<1> DEFINE Goal == poll' \in [Polls -> PollType] /\ \A q \in Polls : Named(poll'[q])
<1>1. ASSUME NEW p \in Polls, NEW pc, NEW agent, PollBecomes(p, pc, agent),
             pc \in AtAgent => agent \in Agents
      PROVE  Goal
    BY <1>0, <1>1 DEF PollBecomes, PollAlone
<1>2. ASSUME NEW p \in Polls, StartPoll(p) \/ PollStep(p) \/ ForceRun(p) \/ ForceStep(p) PROVE Goal
    <2>1. CASE StartPoll(p) \/ ForceRun(p) \/ ForcedPoll(p) \/ ResetWrite(p) \/ EndPoll(p) \/ EnqueueHeartbeat(p)
        BY <1>1, <2>1, PollSteps DEF AtAgent
    <2>2. CASE PollAgent(p) \/ ResetRead(p)
        BY <1>1, <2>2, PollSteps DEF AtAgent
    <2>3. CASE Recover(p) \/ RecoverWrite(p) \/ MarkQueuedRead(p) \/ MarkQueuedWrite(p)
        <3>1. poll[p].agent \in Agents
            BY <2>3, TypesOf
               DEF Recover, RecoverWrite, MarkQueuedRead, MarkQueuedWrite, PollAt, AtAgent
        <3> QED
            BY <1>1, <2>3, <3>1, PollSteps DEF AtAgent
    <2> QED
        BY <1>2, <2>1, <2>2, <2>3 DEF PollStep, ForceStep
<1>3. ASSUME Crash PROVE Goal
    BY <1>3, PollsTyped DEF Crash, AtAgent
<1>4. ASSUME UNCHANGED poll PROVE Goal
    BY <1>0, <1>4
<1>5. Goal
    BY <1>2, <1>3, <1>4
       DEF Next, JobStep, StartJob, ReadState, StartWrite, EndRun, EndWrite, EnqueueTask,
           Pause, Resume, Tick
<1>6. pollInFlight' \in BOOLEAN
    <2>1. pollInFlight \in BOOLEAN
        BY DEF IInv, TypeOK
    <2>2. pollInFlight' = TRUE \/ pollInFlight' = FALSE \/ pollInFlight' = pollInFlight
        BY DEF Next, StartPoll, PollStep, PollAgent, Recover, RecoverWrite, MarkQueuedRead,
               MarkQueuedWrite, EnqueueHeartbeat, EndPoll, ForceRun, ForceStep, ResetRead,
               ResetWrite, ForcedPoll, JobStep, StartJob, ReadState, StartWrite, EndRun,
               EndWrite, EnqueueTask, Pause, Resume, Tick, Crash
    <2> QED
        BY <2>1, <2>2
<1> QED
    BY <1>5, <1>6 DEF PollsNameAgents

\* What goes on in the jobs in a step.
LEMMA JobCases ==
    ASSUME IInv, Next
    PROVE  \/ UNCHANGED job
           \/ Crash /\ job' = [j \in JobIds |-> FreeJob]
           \/ \E j \in JobIds, a \in Agents :
                 \/ Added(j, a, "heartbeat") /\ \E p \in Polls : EnqueueHeartbeat(p) /\ poll[p].agent = a
                 \/ Added(j, a, "task") /\ EnqueueTask(a)
           \/ \E j \in JobIds :
                 \/ StartJob(j) \/ ReadState(j) \/ StartWrite(j) \/ EndRun(j)
                 \/ EndWrite(j)
<1>1. CASE \E p \in Polls : EnqueueHeartbeat(p)
    BY <1>1, JobsAdded
<1>2. CASE \E a \in Agents : EnqueueTask(a)
    BY <1>2, JobsAdded
<1>3. CASE ~ \E p \in Polls : EnqueueHeartbeat(p)
    BY <1>2, <1>3
       DEF Next, StartPoll, PollStep, PollAgent, Recover, RecoverWrite, MarkQueuedRead,
           MarkQueuedWrite, EndPoll, ForceRun, ForceStep, ResetRead, ResetWrite,
           ForcedPoll, JobStep, Pause, Resume, Tick, Crash
<1> QED
    BY <1>1, <1>3

LEMMA JobsKept ==
    ASSUME IInv, Next
    PROVE  /\ job' \in [JobIds -> JobType]
           /\ \A j \in JobIds : job'[j].pc = "free" <=> job'[j].agent = Nobody
<1> DEFINE Sound(x) == x.pc = "free" <=> x.agent = Nobody
           Goal == job' \in [JobIds -> JobType] /\ \A j \in JobIds : Sound(job'[j])
<1>0. job \in [JobIds -> JobType] /\ \A j \in JobIds : Sound(job[j])
    BY TypesOf
<1>1. ASSUME NEW j \in JobIds, JobAlone(j), Sound(job'[j]) PROVE Goal
    BY <1>0, <1>1 DEF JobAlone
<1>2. ASSUME NEW j \in JobIds, NEW a \in Agents,
             Added(j, a, "heartbeat") \/ Added(j, a, "task")
      PROVE  Goal
    <2>1. Sound(job'[j]) /\ JobAlone(j)
        BY <1>2, HeartbeatAssumption DEF Added
    <2> QED
        BY <1>1, <2>1
<1>3. ASSUME NEW j \in JobIds, StartJob(j) \/ ReadState(j) \/ StartWrite(j) \/ EndRun(j)
      PROVE  Goal
    <2>1. \E pc \in JobPcs \ {"free"} : JobGoes(j, pc)
        BY <1>3, JobSteps DEF JobPcs
    <2>2. job[j].pc # "free"
        BY <1>3 DEF StartJob, ReadState, StartWrite, EndRun, JobAt
    <2>3. JobAlone(j) /\ Sound(job'[j])
        BY <1>0, <2>1, <2>2 DEF JobGoes
    <2> QED
        BY <1>1, <2>3
<1>4. ASSUME NEW j \in JobIds, EndWrite(j) PROVE Goal
    <2>1. JobAlone(j) /\ Sound(job'[j])
        BY <1>4, JobSteps, FreeJobTyped
    <2> QED
        BY <1>1, <2>1
<1>5. ASSUME job' = [j \in JobIds |-> FreeJob] PROVE Goal
    BY <1>5, FreeJobTyped
<1>6. ASSUME UNCHANGED job PROVE Goal
    BY <1>0, <1>6
<1> QED
    BY <1>2, <1>3, <1>4, <1>5, <1>6, JobCases

\* What goes on in the rows in a step.
LEMMA RowCases ==
    ASSUME IInv, Next
    PROVE  \/ UNCHANGED hb
           \/ Tick /\ hb' = [a \in Agents |-> Older(hb[a])]
           \/ \E p \in Polls : RecoverWrite(p) \/ ResetWrite(p) \/ MarkQueuedWrite(p)
           \/ \E j \in JobIds : StartWrite(j) \/ EndWrite(j)
BY DEF Next, StartPoll, PollStep, PollAgent, Recover, MarkQueuedRead, EnqueueHeartbeat,
       EndPoll, ForceRun, ForceStep, ResetRead, ForcedPoll, JobStep, StartJob, ReadState,
       EndRun, EnqueueTask, Pause, Resume, Tick, Crash

LEMMA RowsKept ==
    ASSUME IInv, Next
    PROVE  hb' \in [Agents -> StateType] /\ \A a \in Agents : Dated(hb'[a])
<1>0. hb \in [Agents -> StateType] /\ \A a \in Agents : Dated(hb[a])
    BY DEF IInv, TypeOK, Dated
<1>1. ASSUME NEW a, NEW s, Writes(a, s)
      PROVE  hb' \in [Agents -> StateType] /\ \A b \in Agents : Dated(hb'[b])
    BY <1>0, <1>1 DEF Writes
<1>2. ASSUME hb' = [a \in Agents |-> Older(hb[a])]
      PROVE  hb' \in [Agents -> StateType] /\ \A b \in Agents : Dated(hb'[b])
    BY <1>0, <1>2, OlderStates
<1> QED
    BY <1>0, <1>1, <1>2, RowCases, RowsWritten

LEMMA RestKept ==
    ASSUME IInv, Next
    PROVE  /\ agentStatus' \in [Agents -> AgentStatus]
           /\ since' \in [Agents -> 0 .. Horizon]
           /\ early \subseteq early' /\ early' \subseteq Agents
           /\ others' \in 0 .. MaxOthers /\ crashes' \in 0 .. MaxCrashes
           /\ others' = others \/ others' = others + 1
<1>0. /\ agentStatus \in [Agents -> AgentStatus] /\ since \in [Agents -> 0 .. Horizon]
      /\ early \subseteq Agents /\ others \in 0 .. MaxOthers /\ crashes \in 0 .. MaxCrashes
    BY DEF IInv, TypeOK
<1>1. agentStatus' \in [Agents -> AgentStatus]
    BY <1>0
       DEF Next, StartPoll, PollStep, PollAgent, Recover, RecoverWrite, MarkQueuedRead,
           MarkQueuedWrite, EnqueueHeartbeat, EndPoll, ForceRun, ForceStep, ResetRead,
           ResetWrite, ForcedPoll, JobStep, StartJob, ReadState, StartWrite, EndRun,
           EndWrite, EnqueueTask, Pause, Resume, Tick, Crash, AgentStatus
<1>2. since' \in [Agents -> 0 .. Horizon]
    <2>1. \A age \in 0 .. Horizon : Grow(age, Horizon) \in 0 .. Horizon
        BY Numbers DEF Grow
    <2>2. CASE Tick
        BY <1>0, <2>1, <2>2 DEF Tick
    <2>3. ASSUME NEW p \in Polls, EnqueueHeartbeat(p) PROVE since' \in [Agents -> 0 .. Horizon]
        <3>1. 0 \in 0 .. Horizon
            BY Numbers
        <3> QED
            BY <1>0, <2>3, <3>1 DEF EnqueueHeartbeat
    <2>4. CASE UNCHANGED since
        BY <1>0, <2>4
    <2> QED
        BY <2>2, <2>3, <2>4
           DEF Next, StartPoll, PollStep, PollAgent, Recover, RecoverWrite, MarkQueuedRead,
               MarkQueuedWrite, EndPoll, ForceRun, ForceStep, ResetRead,
               ResetWrite, ForcedPoll, JobStep, StartJob, ReadState, StartWrite, EndRun,
               EndWrite, EnqueueTask, Pause, Resume, Crash
<1>3. early \subseteq early' /\ early' \subseteq Agents
    <2>1. ASSUME NEW p \in Polls, Recover(p) PROVE early \subseteq early' /\ early' \subseteq Agents
        <3>1. poll[p].agent \in Agents
            BY <2>1, TypesOf DEF Recover, PollAt, AtAgent
        <3> QED
            BY <1>0, <2>1, <3>1 DEF Recover
    <2>2. CASE UNCHANGED early
        BY <1>0, <2>2
    <2> QED
        BY <2>1, <2>2
           DEF Next, StartPoll, PollStep, PollAgent, RecoverWrite, MarkQueuedRead,
               MarkQueuedWrite, EnqueueHeartbeat, EndPoll, ForceRun, ForceStep, ResetRead,
               ResetWrite, ForcedPoll, JobStep, StartJob, ReadState, StartWrite, EndRun,
               EndWrite, EnqueueTask, Pause, Resume, Tick, Crash
<1>4. /\ others' = others \/ (others < MaxOthers /\ others' = others + 1)
      /\ crashes' = crashes \/ (crashes < MaxCrashes /\ crashes' = crashes + 1)
    BY DEF Next, StartPoll, PollStep, PollAgent, Recover, RecoverWrite, MarkQueuedRead,
           MarkQueuedWrite, EnqueueHeartbeat, EndPoll, ForceRun, ForceStep, ResetRead,
           ResetWrite, ForcedPoll, JobStep, StartJob, ReadState, StartWrite, EndRun,
           EndWrite, EnqueueTask, Pause, Resume, Tick, Crash, Counters
<1>5. others' \in 0 .. MaxOthers /\ crashes' \in 0 .. MaxCrashes
    BY <1>0, <1>4, HeartbeatAssumption
<1> QED
    BY <1>1, <1>2, <1>3, <1>4, <1>5

LEMMA TypeOKKept == ASSUME IInv, Next PROVE TypeOK'
BY PollsKept, JobsKept, RowsKept, RestKept
   DEF TypeOK, JobType, JobPcs, PollType, PollPcs, Dated

-----------------------------------------------------------------------------
(* One poll, one heartbeat                                                  *)

\* As long as no run was forced and no task job ran.
LEMMA Undisturbed ==
    ASSUME IInv, Next, others' = 0
    PROVE  /\ others = 0
           /\ \A p \in Polls : ~ForceRun(p) /\ ~ForceStep(p)
           /\ \A a \in Agents : ~EnqueueTask(a)
<1>1. others = 0
    BY RestKept, TypesOf
<1>2. \A p \in Polls : ~ForceRun(p)
    BY <1>1 DEF ForceRun
<1>3. \A p \in Polls : ~ForceStep(p)
    BY <1>1 DEF IInv, OnePoll, ForceStep, ResetRead, ResetWrite, ForcedPoll, PollAt
<1>4. \A a \in Agents : ~EnqueueTask(a)
    BY <1>1 DEF EnqueueTask
<1> QED
    BY <1>1, <1>2, <1>3, <1>4

\* What goes on in the polls, then.
LEMMA PollCases ==
    ASSUME IInv, Next, others' = 0
    PROVE  \/ UNCHANGED <<poll, pollInFlight>>
           \/ Crash
           \/ \E p \in Polls : StartPoll(p) \/ PollStep(p)
BY Undisturbed
   DEF Next, JobStep, StartJob, ReadState, StartWrite, EndRun, EndWrite, Pause, Resume, Tick

LEMMA OnePollKept == ASSUME IInv, Next PROVE OnePoll'
<1> SUFFICES ASSUME others' = 0
             PROVE  /\ \A p \in Polls : poll'[p].pc # "idle" => pollInFlight'
                    /\ \A p, q \in Polls : poll'[p].pc # "idle" /\ poll'[q].pc # "idle" => p = q
                    /\ \A p \in Polls : poll'[p].pc \notin {"reset", "resetWrite"}
                    /\ \A j \in JobIds : job'[j].kind = "heartbeat"
    BY DEF OnePoll
<1>0. /\ \A p \in Polls : poll[p].pc # "idle" => pollInFlight
      /\ \A p, q \in Polls : poll[p].pc # "idle" /\ poll[q].pc # "idle" => p = q
      /\ \A p \in Polls : poll[p].pc \notin {"reset", "resetWrite"}
      /\ \A j \in JobIds : job[j].kind = "heartbeat"
    BY Undisturbed DEF IInv, OnePoll
<1> DEFINE Goal == /\ \A p \in Polls : poll'[p].pc # "idle" => pollInFlight'
                   /\ \A p, q \in Polls : poll'[p].pc # "idle" /\ poll'[q].pc # "idle" => p = q
                   /\ \A p \in Polls : poll'[p].pc \notin {"reset", "resetWrite"}
<1>1. ASSUME NEW p \in Polls, StartPoll(p) PROVE Goal
    <2>1. PollBecomes(p, "next", Nobody) /\ pollInFlight' /\ \A q \in Polls : poll[q].pc = "idle"
        BY <1>0, <1>1, PollSteps DEF StartPoll
    <2> QED
        BY <1>0, <2>1 DEF PollBecomes, PollAlone
<1>2. ASSUME NEW p \in Polls, EndPoll(p) PROVE Goal
    <2>1. PollBecomes(p, "idle", Nobody) /\ \A q \in Polls \ {p} : poll[q].pc = "idle"
        BY <1>0, <1>2, PollSteps DEF EndPoll, PollAt
    <2> QED
        BY <1>0, <2>1 DEF PollBecomes, PollAlone
<1>3. ASSUME NEW p \in Polls, PollStep(p), ~EndPoll(p) PROVE Goal
    <2>1. /\ PollAlone(p) /\ poll'[p].pc \notin {"reset", "resetWrite"}
          /\ poll[p].pc # "idle" /\ pollInFlight' = pollInFlight
        <3>1. PollAlone(p) /\ poll'[p].pc \notin {"reset", "resetWrite"}
            BY <1>3, PollSteps DEF PollStep, PollBecomes
        <3>2. poll[p].pc # "idle" /\ pollInFlight' = pollInFlight
            BY <1>3 DEF PollStep, PollAgent, Recover, RecoverWrite, MarkQueuedRead,
                        MarkQueuedWrite, EnqueueHeartbeat, PollAt
        <3> QED
            BY <3>1, <3>2
    <2> QED
        BY <1>0, <2>1 DEF PollAlone
<1>4. ASSUME Crash PROVE Goal
    BY <1>4, PollsTyped DEF Crash
<1>5. ASSUME UNCHANGED <<poll, pollInFlight>> PROVE Goal
    BY <1>0, <1>5
<1>6. Goal
    BY <1>1, <1>2, <1>3, <1>4, <1>5, PollCases
<1>7. \A j \in JobIds : job'[j].kind = "heartbeat"
    <2>1. ASSUME NEW j \in JobIds, NEW a \in Agents, Added(j, a, "heartbeat")
          PROVE  \A i \in JobIds : job'[i].kind = "heartbeat"
        BY <1>0, <2>1 DEF Added, JobAlone
    <2>2. ASSUME NEW j \in JobIds, NEW pc, JobGoes(j, pc)
          PROVE  \A i \in JobIds : job'[i].kind = "heartbeat"
        BY <1>0, <2>2 DEF JobGoes, JobAlone
    <2>3. ASSUME NEW j \in JobIds, EndWrite(j)
          PROVE  \A i \in JobIds : job'[i].kind = "heartbeat"
        BY <1>0, <2>3, JobSteps, FreeJobTyped DEF JobAlone
    <2> QED
        BY <1>0, <2>1, <2>2, <2>3, JobCases, JobSteps, FreeJobTyped, Undisturbed
<1> QED
    BY <1>6, <1>7

-----------------------------------------------------------------------------
(* A regular agent                                                          *)

LEMMA StaysRegular ==
    ASSUME IInv, Next, NEW a \in Regular'
    PROVE  a \in Regular /\ a \in Agents /\ others' = 0 /\ others = 0 /\ a \notin early'
BY RestKept, Undisturbed DEF Regular

\* Its jobs, when all jobs are heartbeats: those that are for it.
LEMMA OutstandingIs ==
    ASSUME IInv, NEW a \in Regular, NEW j \in JobIds
    PROVE  j \in Outstanding(a) <=> job[j].agent = a
<1>1. /\ job[j].pc = "free" <=> job[j].agent = Nobody
      /\ job[j].kind = "heartbeat" /\ a # Nobody
    BY TypesOf, HeartbeatAssumption DEF IInv, OnePoll, Regular
<1> QED
    BY <1>1 DEF Outstanding

LEMMA OutstandingIsLater ==
    ASSUME IInv, Next, NEW a \in Regular', NEW j \in JobIds
    PROVE  j \in Outstanding(a)' <=> job'[j].agent = a
<1>1. /\ job'[j].pc = "free" <=> job'[j].agent = Nobody
      /\ job'[j].kind = "heartbeat" /\ a # Nobody
    BY JobsKept, OnePollKept, StaysRegular, HeartbeatAssumption DEF OnePoll
<1> QED
    BY <1>1 DEF Outstanding

\* Its jobs in a step: one is added by the poll that marked it, or one ends.
LEMMA OutstandingSteps ==
    ASSUME IInv, Next, NEW a \in Regular'
    PROVE  \/ /\ Outstanding(a)' \subseteq Outstanding(a)
              /\ \A j \in Outstanding(a)' : ~EndWrite(j)
           \/ \E p \in Polls, j \in JobIds :
                 /\ EnqueueHeartbeat(p) /\ poll[p].agent = a
                 /\ Added(j, a, "heartbeat")
                 /\ Outstanding(a) = {} /\ Outstanding(a)' = {j}
<1>0. a \in Regular /\ a \in Agents /\ others' = 0
    BY StaysRegular
<1>1. \A j \in JobIds : /\ j \in Outstanding(a) <=> job[j].agent = a
                        /\ j \in Outstanding(a)' <=> job'[j].agent = a
    BY <1>0, OutstandingIs, OutstandingIsLater
<1>2. Outstanding(a) \subseteq JobIds /\ Outstanding(a)' \subseteq JobIds
    BY DEF Outstanding
<1>3. \A j \in JobIds : EndWrite(j) => j \notin Outstanding(a)'
    <2>1. a # Nobody
        BY <1>0, HeartbeatAssumption
    <2> QED
        BY <1>1, <2>1, JobSteps, FreeJobTyped
<1> DEFINE Goal ==
    \/ Outstanding(a)' \subseteq Outstanding(a)
    \/ \E p \in Polls, j \in JobIds :
          /\ EnqueueHeartbeat(p) /\ poll[p].agent = a
          /\ Added(j, a, "heartbeat")
          /\ Outstanding(a) = {} /\ Outstanding(a)' = {j}
<1>4. ASSUME NEW p \in Polls, EnqueueHeartbeat(p), NEW j \in JobIds,
             Added(j, poll[p].agent, "heartbeat")
      PROVE  Goal
    <2>1. CASE poll[p].agent = a
        <3>1. Outstanding(a) = {}
            BY <1>0, <1>4, <2>1 DEF IInv, MarkedAlone, Marking, EnqueueHeartbeat, PollAt
        <3>2. Outstanding(a)' = {j}
            BY <1>1, <1>2, <1>4, <2>1, <3>1 DEF Added, JobAlone
        <3> QED
            BY <1>4, <2>1, <3>1, <3>2
    <2>2. CASE poll[p].agent # a
        BY <1>1, <1>2, <1>4, <2>2 DEF Added, JobAlone
    <2> QED
        BY <2>1, <2>2
<1>5. ASSUME NEW j \in JobIds, NEW pc, JobGoes(j, pc) PROVE Goal
    BY <1>1, <1>2, <1>5 DEF JobGoes, JobAlone
<1>6. ASSUME NEW j \in JobIds, EndWrite(j) PROVE Goal
    <2>1. JobAlone(j)
        BY <1>6, JobSteps
    <2> QED
        BY <1>1, <1>2, <1>3, <1>6, <2>1 DEF JobAlone
<1>7. ASSUME job' = [j \in JobIds |-> FreeJob] PROVE Goal
    <2>1. a # Nobody
        BY <1>0, HeartbeatAssumption
    <2> QED
        BY <1>1, <1>2, <1>7, <2>1, FreeJobTyped
<1>8. UNCHANGED job => Goal
    BY <1>1, <1>2
<1>9. Goal
    BY <1>4, <1>5, <1>6, <1>7, <1>8, JobCases, JobSteps, <1>0, Undisturbed
<1> QED
    BY <1>2, <1>3, <1>9

\* Its row in a step: of those that may release its lease the poll finds no
\* job, and the job is gone.
LEMMA RowSteps ==
    ASSUME IInv, Next, NEW a \in Regular'
    PROVE  \/ hb'[a] = hb[a]
           \/ Tick /\ hb'[a] = Older(hb[a])
           \/ \E p \in Polls : /\ RecoverWrite(p) /\ poll[p].agent = a /\ Outstanding(a) = {}
                               /\ hb'[a].cooldown = poll[p].seen.cooldown
           \/ \E p \in Polls : /\ MarkQueuedWrite(p) /\ poll[p].agent = a
                               /\ hb'[a].inFlight /\ hb'[a].cooldown = Interval
           \/ \E j \in Outstanding(a) :
                 /\ StartWrite(j) /\ hb'[a].inFlight /\ job[j].pc = "startWrite"
                 /\ hb'[a].cooldown = job[j].seen.cooldown
           \/ \E j \in Outstanding(a) :
                 /\ EndWrite(j) /\ job[j].pc = "endWrite"
                 /\ hb'[a].cooldown = job[j].seen.cooldown
<1>0. a \in Regular /\ a \in Agents /\ others' = 0 /\ hb \in [Agents -> StateType]
    BY StaysRegular, TypesOf
<1>1. ASSUME NEW b, NEW s, Writes(b, s) PROVE hb'[a] = IF b = a THEN s ELSE hb[a]
    BY <1>0, <1>1 DEF Writes
<1>2. \A p \in Polls : RecoverWrite(p) /\ poll[p].agent = a => Outstanding(a) = {}
    BY <1>0 DEF IInv, MarkedAlone, RecoverWrite, PollAt
<1>3. \A p \in Polls : ~ResetWrite(p)
    BY <1>0, Undisturbed DEF ForceStep
<1>4. \A j \in JobIds : job[j].agent = a => j \in Outstanding(a)
    BY <1>0, OutstandingIs
<1>5. CASE \E p \in Polls : RecoverWrite(p)
    BY <1>1, <1>2, <1>5, RowsWritten
<1>6. CASE \E p \in Polls : MarkQueuedWrite(p)
    BY <1>1, <1>6, RowsWritten
<1>7. ASSUME NEW j \in JobIds, StartWrite(j)
      PROVE  \/ hb'[a] = hb[a]
             \/ /\ j \in Outstanding(a) /\ hb'[a].inFlight /\ job[j].pc = "startWrite"
                /\ hb'[a].cooldown = job[j].seen.cooldown
    <2>1. job[j].pc = "startWrite"
        BY <1>7 DEF StartWrite, JobAt
    <2>2. PICK s : Writes(job[j].agent, s) /\ s.inFlight /\ s.cooldown = job[j].seen.cooldown
        BY <1>7, RowsWritten
    <2>3. hb'[a] = IF job[j].agent = a THEN s ELSE hb[a]
        BY <1>1, <2>2
    <2> QED
        BY <1>4, <2>1, <2>2, <2>3
<1>8. ASSUME NEW j \in JobIds, EndWrite(j)
      PROVE  \/ hb'[a] = hb[a]
             \/ /\ j \in Outstanding(a) /\ job[j].pc = "endWrite"
                /\ hb'[a].cooldown = job[j].seen.cooldown
    <2>1. job[j].pc = "endWrite"
        BY <1>8 DEF EndWrite, JobAt
    <2>2. PICK s : Writes(job[j].agent, s) /\ s.cooldown = job[j].seen.cooldown
        BY <1>8, RowsWritten
    <2>3. hb'[a] = IF job[j].agent = a THEN s ELSE hb[a]
        BY <1>1, <2>2
    <2> QED
        BY <1>4, <2>1, <2>2, <2>3
<1> QED
    BY <1>0, <1>3, <1>5, <1>6, <1>7, <1>8, RowCases

\* When a heartbeat is enqueued, and when time passes.
LEMMA SinceSteps ==
    ASSUME IInv, Next, NEW a \in Regular'
    PROVE  \/ since'[a] = since[a]
           \/ Tick /\ since'[a] = Grow(since[a], Horizon)
           \/ \E p \in Polls : EnqueueHeartbeat(p) /\ poll[p].agent = a /\ since'[a] = 0
<1>0. a \in Agents /\ since \in [Agents -> 0 .. Horizon]
    BY StaysRegular, TypesOf
<1>1. CASE Tick
    BY <1>0, <1>1 DEF Tick
<1>2. CASE \E p \in Polls : EnqueueHeartbeat(p)
    BY <1>0, <1>2 DEF EnqueueHeartbeat
<1> QED
    BY <1>1, <1>2
       DEF Next, StartPoll, PollStep, PollAgent, Recover, RecoverWrite, MarkQueuedRead,
           MarkQueuedWrite, EndPoll, ForceRun, ForceStep, ResetRead,
           ResetWrite, ForcedPoll, JobStep, StartJob, ReadState, StartWrite, EndRun,
           EndWrite, EnqueueTask, Pause, Resume, Crash

\* An agent a poll is at.
LEMMA AtWork ==
    ASSUME IInv, NEW a \in Regular, NEW p \in Polls, poll[p].pc # "idle"
    PROVE  /\ ~Tick
           /\ \A q \in Polls : ~StartPoll(q)
           /\ \A q \in Polls : PollStep(q) => q = p
<1>1. others = 0
    BY DEF Regular
<1>2. \A q \in Polls : PollStep(q) => poll[q].pc # "idle"
    BY DEF PollStep, PollAgent, Recover, RecoverWrite, MarkQueuedRead, MarkQueuedWrite,
           EnqueueHeartbeat, EndPoll, PollAt
<1> QED
    BY <1>1, <1>2 DEF IInv, OnePoll, Tick, StartPoll, PollAt

LEMMA OneHeartbeatKept == ASSUME IInv, Next PROVE OneHeartbeat'
<1> SUFFICES ASSUME NEW a \in Regular'
             PROVE  /\ \A i, j \in Outstanding(a)' : i = j
                    /\ Outstanding(a)' # {} => hb'[a].inFlight
    BY DEF OneHeartbeat
<1>0. /\ a \in Regular /\ hb[a] \in StateType
      /\ \A i, j \in Outstanding(a) : i = j
      /\ Outstanding(a) # {} => hb[a].inFlight
    BY StaysRegular, TypesOf DEF IInv, OneHeartbeat
<1>1. CASE \E p \in Polls, j \in JobIds :
              /\ EnqueueHeartbeat(p) /\ poll[p].agent = a
              /\ Outstanding(a)' = {j}
    <2>1. PICK p \in Polls, j \in JobIds :
              EnqueueHeartbeat(p) /\ poll[p].agent = a /\ Outstanding(a)' = {j}
        BY <1>1
    <2>2. hb[a].inFlight /\ hb' = hb
        BY <1>0, <2>1 DEF IInv, MarkedAlone, Marking, EnqueueHeartbeat, PollAt
    <2> QED
        BY <2>1, <2>2
<1>2. CASE /\ Outstanding(a)' \subseteq Outstanding(a)
           /\ \A j \in Outstanding(a)' : ~EndWrite(j)
    <2>1. \A i, j \in Outstanding(a)' : i = j
        BY <1>0, <1>2
    <2>2. ASSUME Outstanding(a)' # {} PROVE hb'[a].inFlight
        <3>1. hb[a].inFlight /\ Outstanding(a) # {}
            BY <1>0, <1>2, <2>2
        <3>2. \A j \in Outstanding(a) : ~EndWrite(j)
            BY <1>0, <1>2, <2>2
        <3>3. Tick => Older(hb[a]).inFlight
            BY <1>0, <3>1, OlderStates
        <3> QED
            BY <3>1, <3>2, <3>3, RowSteps
    <2> QED
        BY <2>1, <2>2
<1> QED
    BY <1>1, <1>2, OutstandingSteps

\* How a poll comes to the agent, and goes on with it: what it kept, and what
\* it found in the row.
LEMMA PollOf ==
    ASSUME IInv, Next, NEW a \in Regular', NEW p \in Polls, poll'[p].agent = a
    PROVE  \/ /\ poll'[p] = poll[p]
              /\ poll[p].pc # "idle" => ~Tick /\ \A q \in Polls : ~PollStep(q)
           \/ PollAgent(p) /\ poll'[p].pc = "recover" /\ poll'[p].seen = hb[a]
           \/ /\ PollAgent(p) /\ poll'[p].pc = "mark"
              /\ ~hb[a].inFlight /\ hb[a].cooldown = 0
           \/ /\ Recover(p) /\ poll[p].agent = a
              /\ poll'[p].pc = "recoverWrite" /\ poll'[p].seen = poll[p].seen
           \/ /\ RecoverWrite(p) /\ poll[p].agent = a
              /\ poll'[p].pc = "mark" /\ poll[p].seen.cooldown = 0
           \/ MarkQueuedRead(p) /\ poll[p].agent = a /\ poll'[p].pc = "markWrite"
           \/ MarkQueuedWrite(p) /\ poll[p].agent = a /\ poll'[p].pc = "enqueue"
<1>0. a \in Regular /\ a # Nobody /\ others' = 0
    BY StaysRegular, HeartbeatAssumption
<1>1. poll[p].pc # "idle" => ~Tick /\ \A q \in Polls : PollStep(q) => q = p
    BY <1>0, AtWork
<1> DEFINE Moved ==
    \/ PollAgent(p) /\ poll'[p].pc = "recover" /\ poll'[p].seen = hb[a]
    \/ /\ PollAgent(p) /\ poll'[p].pc = "mark"
       /\ ~hb[a].inFlight /\ hb[a].cooldown = 0
    \/ /\ Recover(p) /\ poll[p].agent = a
       /\ poll'[p].pc = "recoverWrite" /\ poll'[p].seen = poll[p].seen
    \/ /\ RecoverWrite(p) /\ poll[p].agent = a
       /\ poll'[p].pc = "mark" /\ poll[p].seen.cooldown = 0
    \/ MarkQueuedRead(p) /\ poll[p].agent = a /\ poll'[p].pc = "markWrite"
    \/ MarkQueuedWrite(p) /\ poll[p].agent = a /\ poll'[p].pc = "enqueue"
<1>2. PollAgent(p) => Moved
    BY <1>0, PollSteps DEF PollBecomes
<1>3. Recover(p) \/ RecoverWrite(p) \/ MarkQueuedRead(p) \/ MarkQueuedWrite(p) => Moved
    BY <1>0, PollSteps DEF PollBecomes
<1>4. ~(StartPoll(p) \/ EnqueueHeartbeat(p) \/ EndPoll(p))
    BY <1>0, PollSteps DEF PollBecomes
<1> HIDE DEF Moved
<1>5. PollStep(p) => Moved
    BY <1>2, <1>3, <1>4 DEF PollStep
<1>6. ~Crash
    BY <1>0, PollsTyped DEF Crash
<1>7. ASSUME NEW q \in Polls, q # p, StartPoll(q) \/ PollStep(q) PROVE poll'[p] = poll[p]
    BY <1>7, PollSteps DEF PollStep, PollBecomes, PollAlone
<1>8. Moved \/ poll'[p] = poll[p]
    BY <1>0, <1>4, <1>5, <1>6, <1>7, PollCases
<1>9. CASE \E q \in Polls : PollStep(q)
    BY <1>1, <1>5, <1>8, <1>9 DEF Moved
<1>10. CASE \A q \in Polls : ~PollStep(q)
    BY <1>1, <1>8, <1>10 DEF Moved
<1> QED
    BY <1>9, <1>10

\* While no poll step and no tick happens, and no job of the agent is at work.
LEMMA Quiet ==
    ASSUME IInv, Next, NEW a \in Regular', ~Tick, \A q \in Polls : ~PollStep(q)
    PROVE  /\ since'[a] = since[a] /\ Outstanding(a)' \subseteq Outstanding(a)
           /\ Outstanding(a) = {} => hb'[a] = hb[a]
<1>1. \A q \in Polls : ~EnqueueHeartbeat(q) /\ ~RecoverWrite(q) /\ ~MarkQueuedWrite(q)
    BY DEF PollStep
<1>2. since'[a] = since[a]
    BY <1>1, SinceSteps
<1>3. Outstanding(a)' \subseteq Outstanding(a)
    BY <1>1, OutstandingSteps
<1>4. Outstanding(a) = {} => hb'[a] = hb[a]
    BY <1>1, RowSteps
<1> QED
    BY <1>2, <1>3, <1>4

LEMMA MarkedAloneKept == ASSUME IInv, Next PROVE MarkedAlone'
<1> SUFFICES ASSUME NEW p \in Polls, NEW a \in Regular', poll'[p].agent = a
             PROVE  /\ poll'[p].pc \in Marking \cup {"recoverWrite"} => Outstanding(a)' = {}
                    /\ poll'[p].pc \in Marking => since'[a] >= Interval
                    /\ poll'[p].pc = "enqueue" =>
                          hb'[a].inFlight /\ hb'[a].cooldown = Interval
    BY DEF MarkedAlone
<1>0. /\ a \in Regular /\ a \in Agents /\ a \notin early'
      /\ Outstanding(a) # {} => hb[a].inFlight
      /\ Lasts(a, hb[a])
      /\ poll[p].agent = a =>
            /\ poll[p].pc \in Marking \cup {"recoverWrite"} => Outstanding(a) = {}
            /\ poll[p].pc \in Marking => since[a] >= Interval
            /\ poll[p].pc = "enqueue" => hb[a].inFlight /\ hb[a].cooldown = Interval
            /\ poll[p].pc = "recoverWrite" => Lasts(a, poll[p].seen)
    BY StaysRegular DEF IInv, OneHeartbeat, MarkedAlone, CooldownLasts
<1>1. since \in [Agents -> 0 .. Horizon] /\ Interval \in Nat /\ Horizon \in Nat
    BY TypesOf, Numbers
<1> DEFINE Same == job' = job /\ since' = since
           Goal == /\ poll'[p].pc \in Marking \cup {"recoverWrite"} => Outstanding(a)' = {}
                   /\ poll'[p].pc \in Marking => since'[a] >= Interval
                   /\ poll'[p].pc = "enqueue" => hb'[a].inFlight /\ hb'[a].cooldown = Interval
<1>2. Same => Outstanding(a)' = Outstanding(a)
    BY DEF Outstanding
<1>3. ASSUME poll'[p] = poll[p],
             poll[p].pc # "idle" => ~Tick /\ \A q \in Polls : ~PollStep(q)
      PROVE  Goal
    <2>1. poll[p].pc \in Marking \cup {"recoverWrite"} => poll[p].pc # "idle"
        BY DEF Marking
    <2>2. poll[p].pc \in Marking \cup {"recoverWrite"} =>
              /\ since'[a] = since[a] /\ Outstanding(a)' \subseteq Outstanding(a)
              /\ Outstanding(a) = {} => hb'[a] = hb[a]
        BY <1>3, <2>1, Quiet
    <2>3. "enqueue" \in Marking
        BY DEF Marking
    <2> QED
        BY <1>0, <1>3, <2>2, <2>3
<1>4. ASSUME PollAgent(p), poll'[p].pc = "recover" PROVE Goal
    BY <1>4 DEF Marking
<1>5. ASSUME PollAgent(p), poll'[p].pc = "mark", ~hb[a].inFlight, hb[a].cooldown = 0 PROVE Goal
    <2>1. Outstanding(a) = {} /\ since[a] >= Interval
        BY <1>0, <1>1, <1>5 DEF Lasts
    <2>2. Same
        BY <1>5 DEF PollAgent
    <2> QED
        BY <1>2, <1>5, <2>1, <2>2
<1>6. ASSUME Recover(p), poll[p].agent = a, poll'[p].pc = "recoverWrite" PROVE Goal
    <2>1. Outstanding(a) = {}
        BY <1>0, <1>6 DEF Recover
    <2>2. Same
        BY <1>6 DEF Recover
    <2> QED
        BY <1>2, <1>6, <2>1, <2>2 DEF Marking
<1>7. ASSUME RecoverWrite(p), poll[p].agent = a, poll'[p].pc = "mark", poll[p].seen.cooldown = 0
      PROVE  Goal
    <2>1. poll[p].pc = "recoverWrite"
        BY <1>7 DEF RecoverWrite, PollAt
    <2>2. Outstanding(a) = {} /\ since[a] >= Interval
        BY <1>0, <1>1, <1>7, <2>1 DEF Lasts
    <2>3. Same
        BY <1>7 DEF RecoverWrite
    <2> QED
        BY <1>2, <1>7, <2>2, <2>3
<1>8. ASSUME MarkQueuedRead(p), poll[p].agent = a, poll'[p].pc = "markWrite" PROVE Goal
    <2>1. poll[p].pc \in Marking
        BY <1>8 DEF MarkQueuedRead, PollAt, Marking
    <2>2. Same
        BY <1>8 DEF MarkQueuedRead
    <2> QED
        BY <1>0, <1>2, <1>8, <2>1, <2>2
<1>9. ASSUME MarkQueuedWrite(p), poll[p].agent = a, poll'[p].pc = "enqueue" PROVE Goal
    <2>1. poll[p].pc \in Marking
        BY <1>9 DEF MarkQueuedWrite, PollAt, Marking
    <2>2. Same
        BY <1>9 DEF MarkQueuedWrite
    <2>3. PICK s : Writes(a, s) /\ s.inFlight /\ s.cooldown = Interval
        BY <1>9, RowsWritten
    <2>4. hb'[a] = s
        BY <1>0, <2>3, TypesOf DEF Writes
    <2> QED
        BY <1>0, <1>2, <1>9, <2>1, <2>2, <2>3, <2>4
<1> HIDE DEF Same
<1>10. Goal
    BY <1>3, <1>4, <1>5, <1>6, <1>7, <1>8, <1>9, PollOf
<1> QED
    BY <1>10

\* How a job of the agent comes to hold a state: it has read the row.
LEMMA JobOf ==
    ASSUME IInv, Next, NEW a \in Regular', NEW j \in Outstanding(a)',
           job'[j].pc \in {"startWrite", "endWrite"}
    PROVE  /\ j \in Outstanding(a) /\ since'[a] = since[a]
           /\ \/ job'[j] = job[j]
              \/ ReadState(j) /\ job'[j].seen = hb[a]
<1>0. /\ a \in Regular /\ a \in Agents /\ a # Nobody /\ others' = 0
      /\ j \in JobIds /\ job'[j].agent = a /\ job'[j].pc # "free"
    BY StaysRegular, HeartbeatAssumption DEF Outstanding
<1>1. ~ \E p \in Polls : EnqueueHeartbeat(p) /\ poll[p].agent = a
    <2>1. ASSUME NEW p \in Polls, EnqueueHeartbeat(p), poll[p].agent = a PROVE FALSE
        <3>1. Outstanding(a) = {}
            BY <1>0, <2>1 DEF IInv, MarkedAlone, Marking, EnqueueHeartbeat, PollAt
        <3>2. PICK i \in JobIds : Added(i, a, "heartbeat") /\ Outstanding(a)' = {i}
            BY <3>1, OutstandingSteps
        <3> QED
            BY <3>2 DEF Added
    <2> QED
        BY <2>1
<1>2. j \in Outstanding(a)
    BY <1>1, OutstandingSteps
<1>3. job[j].agent = a
    BY <1>2 DEF Outstanding
<1>4. ~Tick
    BY <1>0 DEF Tick
<1>5. since'[a] = since[a]
    BY <1>1, <1>4, SinceSteps
<1>6. ASSUME NEW i \in JobIds, i # j,
             \/ StartJob(i) \/ ReadState(i) \/ StartWrite(i) \/ EndRun(i) \/ EndWrite(i)
             \/ Added(i, a, "heartbeat")
             \/ \E b \in Agents : Added(i, b, "heartbeat")
      PROVE  job'[j] = job[j]
    BY <1>0, <1>6, JobSteps DEF JobGoes, JobAlone, Added
<1>7. ~(StartJob(j) \/ StartWrite(j) \/ EndRun(j) \/ EndWrite(j))
    BY <1>0, JobSteps, FreeJobTyped DEF JobGoes
<1>8. ReadState(j) => job'[j].seen = hb[a]
    BY <1>0, <1>3, JobSteps
<1>9. \A b \in Agents : ~Added(j, b, "heartbeat")
    BY DEF Added
<1>10. job' # [i \in JobIds |-> FreeJob]
    BY <1>0, FreeJobTyped
<1>11. job'[j] = job[j] \/ (ReadState(j) /\ job'[j].seen = hb[a])
    BY <1>0, <1>6, <1>7, <1>8, <1>9, <1>10, JobCases, Undisturbed
<1> QED
    BY <1>2, <1>5, <1>11

LEMMA CooldownLastsKept == ASSUME IInv, Next PROVE CooldownLasts'
<1> SUFFICES ASSUME NEW a \in Regular'
             PROVE  /\ since'[a] + hb'[a].cooldown >= Interval
                    /\ \A j \in Outstanding(a)' :
                          job'[j].pc \in {"startWrite", "endWrite"} =>
                              since'[a] + job'[j].seen.cooldown >= Interval
                    /\ \A p \in Polls :
                          /\ poll'[p].agent = a
                          /\ poll'[p].pc \in {"recover", "recoverWrite"}
                          => since'[a] + poll'[p].seen.cooldown >= Interval
    BY DEF CooldownLasts, Lasts
<1>0. /\ a \in Regular /\ a \in Agents /\ hb[a] \in StateType
      /\ since[a] + hb[a].cooldown >= Interval
      /\ \A j \in Outstanding(a) : job[j].pc \in {"startWrite", "endWrite"} =>
            since[a] + job[j].seen.cooldown >= Interval
      /\ \A p \in Polls :
            poll[p].agent = a /\ poll[p].pc \in {"recover", "recoverWrite"} =>
                since[a] + poll[p].seen.cooldown >= Interval
    BY StaysRegular, TypesOf DEF IInv, CooldownLasts, Lasts
<1>1. /\ since[a] \in 0 .. Horizon /\ Interval \in Nat /\ Horizon \in Nat /\ Horizon >= Interval
      /\ hb[a].cooldown \in 0 .. Interval
    BY <1>0, TypesOf, Numbers DEF StateType
<1>2. since'[a] + hb'[a].cooldown >= Interval
    <2>1. CASE \E p \in Polls : EnqueueHeartbeat(p) /\ poll[p].agent = a /\ since'[a] = 0
        <3>1. hb[a].cooldown = Interval /\ hb' = hb
            BY <1>0, <2>1 DEF IInv, MarkedAlone, EnqueueHeartbeat, PollAt
        <3> QED
            BY <1>1, <2>1, <3>1
    <2>2. CASE Tick
        <3>1. since'[a] = Grow(since[a], Horizon) /\ hb'[a] = Older(hb[a])
            BY <1>0, <2>2, TypesOf DEF Tick
        <3>2. hb'[a].cooldown = IF hb[a].cooldown > 0 THEN hb[a].cooldown - 1 ELSE 0
            BY <1>0, <3>1, OlderStates
        <3>3. since'[a] = IF since[a] < Horizon THEN since[a] + 1 ELSE since[a]
            BY <3>1 DEF Grow
        <3> QED
            BY <1>0, <1>1, <3>2, <3>3
    <2>3. CASE since'[a] = since[a] /\ ~Tick
        <3>1. \A p \in Polls : RecoverWrite(p) => poll[p].pc = "recoverWrite"
            BY DEF RecoverWrite, PollAt
        <3> QED
            BY <1>0, <1>1, <2>3, <3>1, RowSteps
    <2> QED
        BY <2>1, <2>2, <2>3, SinceSteps
<1>3. ASSUME NEW j \in Outstanding(a)', job'[j].pc \in {"startWrite", "endWrite"}
      PROVE  since'[a] + job'[j].seen.cooldown >= Interval
    BY <1>0, <1>3, JobOf
<1>4. ASSUME NEW p \in Polls, poll'[p].agent = a, poll'[p].pc \in {"recover", "recoverWrite"}
      PROVE  since'[a] + poll'[p].seen.cooldown >= Interval
    <2>1. CASE /\ poll'[p] = poll[p]
               /\ poll[p].pc # "idle" => ~Tick /\ \A q \in Polls : ~PollStep(q)
        <3>1. since'[a] = since[a]
            BY <1>4, <2>1, Quiet
        <3> QED
            BY <1>0, <1>4, <2>1, <3>1
    <2>2. CASE PollAgent(p) /\ poll'[p].seen = hb[a]
        BY <1>0, <2>2 DEF PollAgent
    <2>3. CASE Recover(p) /\ poll[p].agent = a /\ poll'[p].seen = poll[p].seen
        <3>1. poll[p].pc = "recover" /\ since' = since
            BY <2>3 DEF Recover, PollAt
        <3> QED
            BY <1>0, <2>3, <3>1
    <2> QED
        BY <1>4, <2>1, <2>2, <2>3, PollOf
<1> QED
    BY <1>2, <1>3, <1>4

-----------------------------------------------------------------------------
(* The invariant, and what follows                                          *)

LEMMA InitHolds == ASSUME Init PROVE IInv
<1>1. /\ agentStatus \in [Agents -> AgentStatus] /\ hb = [a \in Agents |-> NoState]
      /\ job = [j \in JobIds |-> FreeJob] /\ poll = [p \in Polls |-> IdlePoll]
      /\ pollInFlight = FALSE /\ since = [a \in Agents |-> Horizon] /\ early = {}
      /\ others = 0 /\ crashes = 0
    BY DEF Init, AgentStatus
<1>2. \A j \in JobIds : job[j] = FreeJob
    BY <1>1
<1>3. \A p \in Polls : poll[p] = IdlePoll
    BY <1>1
<1>4. \A a \in Agents : hb[a] = NoState /\ since[a] = Horizon
    BY <1>1
<1>5. TypeOK
    <2>1. job \in [JobIds -> JobType] /\ poll \in [Polls -> PollType] /\ hb \in [Agents -> StateType]
        BY <1>1, FreeJobTyped, PollsTyped, NoStateTyped
    <2>2. since \in [Agents -> 0 .. Horizon]
        <3>1. Horizon \in 0 .. Horizon
            BY Numbers
        <3> QED
            BY <1>1, <3>1
    <2>3. others \in 0 .. MaxOthers /\ crashes \in 0 .. MaxCrashes
        BY <1>1, HeartbeatAssumption
    <2>4. \A j \in JobIds : job[j].pc = "free" <=> job[j].agent = Nobody
        BY <1>2, FreeJobTyped
    <2>5. \A a \in Agents : ~hb[a].inFlight
        BY <1>4, NoStateTyped
    <2> QED
        BY <1>1, <2>1, <2>2, <2>3, <2>4, <2>5
           DEF TypeOK, JobType, JobPcs, PollType, PollPcs
<1>6. PollsNameAgents /\ OnePoll
    BY <1>1, <1>2, <1>3, PollsTyped, FreeJobTyped DEF PollsNameAgents, OnePoll, AtAgent
<1>7. \A a : Outstanding(a) = {}
    BY <1>2, FreeJobTyped DEF Outstanding
<1>8. MarkedAlone
    BY <1>3, PollsTyped DEF MarkedAlone, Marking
<1>9. OneHeartbeat /\ CooldownLasts
    BY <1>3, <1>4, <1>7, Numbers, NoStateTyped, PollsTyped
       DEF OneHeartbeat, CooldownLasts, Lasts, Regular
<1> QED
    BY <1>5, <1>6, <1>8, <1>9 DEF IInv

LEMMA StuttersHold == ASSUME IInv, UNCHANGED vars PROVE IInv'
BY DEF vars, IInv, TypeOK, PollsNameAgents, OnePoll, OneHeartbeat, MarkedAlone,
       CooldownLasts, Regular, Outstanding, Lasts

\* The inductive invariant, whatever the agents, the polls, the interval and
\* the bounds, and with no fairness.
THEOREM HeartbeatInvariant == Spec => []IInv
<1>1. Init => IInv
    BY InitHolds
<1>2. IInv /\ [Next]_vars => IInv'
    <2>1. ASSUME IInv, Next PROVE IInv'
        BY <2>1, TypeOKKept, PollsKept, OnePollKept, OneHeartbeatKept, MarkedAloneKept,
           CooldownLastsKept
           DEF IInv
    <2> QED
        BY <2>1, StuttersHold
<1> QED
    BY <1>1, <1>2, PTL DEF Spec

\* Types; every job is for an agent; and a lease that is held always carries
\* a time it can expire by, whatever was read before and written after.
THEOREM LeasesAreDated == Spec => []TypeOK
<1>1. IInv => TypeOK
    BY DEF IInv
<1> QED
    BY <1>1, HeartbeatInvariant, PTL

\* Two heartbeats of an agent are at least an interval apart, across restarts,
\* failed runs and pauses, until a run is forced, a task job runs or its lease
\* is recovered beside its job.
THEOREM CooldownIsKept == Spec => CooldownRespected
<1>1. ASSUME IInv, NEW a \in Agents, Enqueues(a)
      PROVE  since[a] >= Interval \/ others > 0 \/ a \in early
    <2>1. PICK p \in Polls : poll[p].agent = a /\ poll[p].pc = "enqueue"
        BY <1>1 DEF Enqueues, EnqueueHeartbeat, PollAt
    <2>2. others = 0 \/ others > 0
        BY <1>1, TypesOf
    <2> QED
        BY <1>1, <2>1, <2>2 DEF IInv, MarkedAlone, Marking, Regular
<1>2. IInv => [\A a \in Agents :
                  Enqueues(a) => since[a] >= Interval \/ others > 0 \/ a \in early]_vars
    BY <1>1
<1> QED
    BY <1>2, HeartbeatInvariant, PTL DEF CooldownRespected

-----------------------------------------------------------------------------
(* The cron scheduler (CronRuntime), for any jobs, polls, editors, times and *)
(* bounds                                                                    *)

\* Stages of a poll in which it is at a job.
AtJob == {"run", "record", "session", "mark", "write"}

CronPollType ==
    [pc : {"idle", "list", "next"} \cup AtJob, todo : SUBSET Crons,
     time : [Crons -> 0 .. LastTime], chat : [Crons -> 0 .. MaxChats], cron : Crons \cup {NoCron},
     failed : BOOLEAN, next : 0 .. (LastTime + 1), enabled : BOOLEAN]

CronEditType ==
    [pc : {"idle", "write"}, kind : Kinds, cron : Crons \cup {NoCron},
     seen : Rows, new : Rows]

CronTyped ==
    /\ cronPoll \in [CronPolls -> CronPollType] /\ edit \in [Editors -> CronEditType]
    /\ why \in [Crons -> SUBSET {"overlap", "never"}]

\* The guard lets one poll at a time work; a process that is down without a
\* fault left none at work.
PollsAlone ==
    /\ \A p, q \in CronPolls : cronPoll[p].pc # "idle" /\ cronPoll[q].pc # "idle" => p = q
    /\ phase = "down" /\ faults = 0 => \A p \in CronPolls : cronPoll[p].pc = "idle"

RunsNow(c) == \E p \in CronPolls : cronPoll[p].cron = c

\* What a row promises.  Without faults and explanations it is enabled only
\* with a next time, that time is after the last one run unless the job is at
\* work, and the last run is in the history.
RowSound(c) ==
    /\ row[c].next <= now[c] + 1 /\ ran[c] <= now[c]
    /\ row[c].is = "none" => ran[c] = 0 /\ linked[c] = 0
    /\ row[c].is = "there" =>
        /\ row[c].enabled => quiet[c] = 0 \/ "overlap" \in why[c]
        /\ linked[c] # 0 => row[c].session = linked[c] \/ "overlap" \in why[c]
        /\ why[c] = {} => row[c].fires /\ (row[c].next = 0 => ~row[c].enabled)
        /\ faults = 0 /\ ~RunsNow(c) =>
            /\ why[c] = {} /\ row[c].next # 0 => row[c].next > ran[c]
            /\ ran[c] > 0 => \E s \in record[c] : record[c] = {s}

\* What poll q keeps of a job it has listed.
ListedSound(q, c) ==
    /\ row[c].is # "none" /\ q.cron # c /\ q.time[c] <= now[c]
    /\ quiet[c] = 2 => "overlap" \in why[c]
    /\ linked[c] # 0 => q.chat[c] = linked[c] \/ "overlap" \in why[c]
    /\ faults = 0 /\ why[c] = {} => q.time[c] > ran[c]

\* What poll q keeps of the job it is at, and has done for it.
AtJobSound(q) ==
    /\ row[q.cron].is # "none"
    /\ row[q.cron].is = "there" /\ faults = 0 =>
          IF q.pc \in {"run", "record"} THEN record[q.cron] = {}
          ELSE \E s \in record[q.cron] : record[q.cron] = {s}
    /\ q.pc = "write" => q.next <= now[q.cron] + 1
    /\ q.pc = "write" /\ why[q.cron] = {} =>
          IF q.enabled THEN q.next > ran[q.cron] ELSE q.next = 0

PollSound(q) ==
    /\ q.pc \in {"idle", "list"} => q.todo = {}
    /\ q.cron # NoCron <=> q.pc \in AtJob
    /\ \A c \in q.todo : ListedSound(q, c)
    /\ q.cron # NoCron => AtJobSound(q)

\* The next time edit d is about to write is not before the one it has read,
\* and after any time that is run while the job stays disabled.
NewTimeSound(d, c) ==
    /\ row[c].enabled <=> d.seen.enabled
    /\ d.new.next = 0 => ~d.new.enabled
    /\ d.new.next # 0 /\ ~d.seen.enabled /\ d.kind \notin {"rename", "chat"} =>
          /\ d.new.next > ran[c]
          /\ \A p \in CronPolls : c \in cronPoll[p].todo => d.new.next > cronPoll[p].time[c]
    /\ d.new.next # 0 /\ faults = 0 /\ row[c].next = d.seen.next /\ ~RunsNow(c) =>
          d.new.next > ran[c]

EditSound(d) ==
    d.pc = "write" =>
        /\ d.cron \in Edited /\ d.new.is = "there" /\ row[d.cron].is # "none"
        /\ d.new.next <= now[d.cron] + 1
        /\ d.new.enabled <=> (d.kind = "enable" \/ (d.kind # "disable" /\ d.seen.enabled))
        /\ d.kind # "chat" => d.new.session = d.seen.session
        /\ d.kind \in {"rename", "chat"} => d.new.next = d.seen.next
        /\ d.kind \notin {"rename", "chat"} =>
                IF d.new.enabled THEN d.new.next >= d.seen.next \/ ~d.new.fires
                ELSE d.new.next = 0
        /\ why[d.cron] = {} /\ row[d.cron].is = "there" /\ d.new.fires => NewTimeSound(d, d.cron)

CronInv ==
    /\ CronTypeOK /\ CronTyped /\ PollsAlone /\ StaysUp /\ QuietWhenStopped
    /\ \A c \in Crons : RowSound(c)
    /\ \A p \in CronPolls : PollSound(cronPoll[p])
    /\ \A e \in Editors : EditSound(edit[e])

(* Frames *)

FaultsGrow == faults' = faults \/ faults' # 0

\* Poll p, moving to v, leaves every job but c as it is.
LeavesAlone(p, v, c) ==
    \A d \in Crons \ {c} :
        /\ row'[d] = row[d] /\ ran'[d] = ran[d] /\ quiet'[d] = quiet[d]
        /\ linked'[d] = linked[d] /\ record'[d] = record[d] /\ why'[d] = why[d]
        /\ faults' = 0 /\ row[d].is = "there" /\ cronPoll[p].cron = d => v.cron = d
        /\ d \in v.todo =>
              \/ d \in cronPoll[p].todo /\ v.time[d] = cronPoll[p].time[d]
              \/ row[d].enabled

CronTypes ==
    /\ LastTime \in Nat \ {0} /\ MaxChats \in Nat /\ Edited \subseteq Crons /\ NoCron \notin Crons

\* What has its type, in the shape the proofs use it.
LEMMA CronHas ==
    ASSUME CronInv
    PROVE  /\ CronTypes
           /\ \A c \in Crons : row[c] \in Rows /\ now[c] \in 1 .. LastTime
                  /\ ran[c] \in 0 .. LastTime /\ quiet[c] \in 0 .. 2
                  /\ row[c].next \in 0 .. (LastTime + 1)
           /\ \A p \in CronPolls : cronPoll[p] \in CronPollType /\ PollSound(cronPoll[p])
           /\ \A e \in Editors : edit[e] \in CronEditType /\ EditSound(edit[e])
BY CronAssumption DEF CronInv, CronTypes, CronTypeOK, CronTyped, Rows

\* A row that is left alone.
LEMMA RowStays ==
    ASSUME CronInv, NEW c \in Crons, FaultsGrow,
           row'[c] = row[c], now'[c] \in Nat, now'[c] >= now[c],
           ran'[c] = ran[c], quiet'[c] = quiet[c], linked'[c] = linked[c],
           record'[c] = record[c], why'[c] = why[c],
           faults' = 0 /\ row[c].is = "there" => (RunsNow(c) => RunsNow(c)')
    PROVE  RowSound(c)'
<1>1. RowSound(c) /\ row[c].next \in Int /\ now[c] \in Int /\ ran[c] \in Int
    BY CronHas DEF CronInv
<1> QED
    BY <1>1 DEF RowSound, FaultsGrow

\* An edit whose row is left alone, but for its chat session.
LEMMA EditStays ==
    ASSUME CronInv, NEW d \in CronEditType, NEW c, d.cron = c, EditSound(d),
           d.pc = "write" =>
               /\ row'[c].is = row[c].is /\ row'[c].next = row[c].next
               /\ row'[c].enabled <=> row[c].enabled
               /\ now'[c] \in Nat /\ now'[c] >= now[c] /\ ran'[c] = ran[c],
           d.pc = "write" => why'[c] = why[c], FaultsGrow,
           faults' = 0 /\ row[c].is = "there" => (RunsNow(c) => RunsNow(c)'),
           d.pc = "write" => \A p \in CronPolls : c \in cronPoll'[p].todo =>
               \/ c \in cronPoll[p].todo /\ cronPoll'[p].time[c] = cronPoll[p].time[c]
               \/ row[c].enabled
    PROVE  EditSound(d)'
<1> SUFFICES ASSUME d.pc = "write" PROVE EditSound(d)'
    BY DEF EditSound
<1>1. c \in Crons /\ now[c] \in Int /\ d.new.next \in Int
    BY CronHas DEF EditSound, CronTypes, CronEditType, Rows
<1>2. ASSUME NewTimeSound(d, c), row[c].is = "there" PROVE NewTimeSound(d, c)'
    BY <1>2 DEF NewTimeSound, FaultsGrow
<1> QED
    BY <1>1, <1>2 DEF EditSound

\* A poll that does not move.
LEMMA PollStays ==
    ASSUME CronInv, NEW p \in CronPolls, cronPoll'[p] = cronPoll[p], FaultsGrow,
           \A c \in Crons :
               /\ row[c].is # "none" => row'[c].is # "none"
               /\ row[c].is # "none" /\ row'[c].is = "there" =>
                      row[c].is = "there" /\ record'[c] = record[c]
               /\ now'[c] \in Nat /\ now'[c] >= now[c]
               /\ quiet'[c] = 2 => quiet[c] = 2
               /\ why[c] \subseteq why'[c] /\ ran'[c] = ran[c] /\ linked'[c] \in {linked[c], 0}
    PROVE  PollSound(cronPoll[p])'
<1> DEFINE q == cronPoll[p]
<1>1. q \in CronPollType /\ PollSound(q) /\ CronTypes
    BY CronHas
<1>2. ASSUME NEW c \in q.todo PROVE ListedSound(q, c)'
    <2>1. c \in Crons /\ q.time[c] \in Int /\ now[c] \in Int
        BY <1>1, CronHas DEF CronPollType
    <2> QED
        BY <1>1, <2>1 DEF PollSound, ListedSound, FaultsGrow
<1>3. ASSUME q.cron # NoCron PROVE AtJobSound(q)'
    <2>1. q.cron \in Crons /\ q.next \in Int
        BY <1>1, <1>3 DEF CronPollType
    <2>2. now[q.cron] \in Int
        BY <2>1, CronHas
    <2> QED
        BY <1>1, <1>3, <2>1, <2>2 DEF PollSound, AtJobSound, FaultsGrow
<1> QED
    BY <1>1, <1>2, <1>3 DEF PollSound

LEMMA IdleCron == /\ IdleCronPoll \in CronPollType /\ IdleCronPoll.pc = "idle"
           /\ IdleCronPoll.cron = NoCron /\ IdleCronPoll.todo = {}
           /\ PollSound(IdleCronPoll)'
           /\ NoEdit \in CronEditType /\ EditSound(NoEdit)'
<1>1. /\ LastTime \in Nat /\ 0 \in 0 .. LastTime /\ 0 \in 0 .. (LastTime + 1)
      /\ 0 \in 0 .. MaxChats
    BY CronAssumption
<1>2. /\ IdleCronPoll \in CronPollType /\ IdleCronPoll.pc = "idle"
      /\ IdleCronPoll.cron = NoCron /\ IdleCronPoll.todo = {}
    BY <1>1 DEF IdleCronPoll, CronPollType, Null, NoChat
<1>3. NoEdit \in CronEditType /\ NoEdit.pc = "idle"
    BY <1>1 DEF NoEdit, NoRow, CronEditType, Kinds, Rows, Null, NoChat
<1>4. PollSound(IdleCronPoll)'
    BY <1>2 DEF PollSound, AtJob
<1>5. EditSound(NoEdit)'
    BY <1>3 DEF EditSound
<1> QED
    BY <1>2, <1>3, <1>4, <1>5

LEMMA PollIsSound ==
    ASSUME NEW p, NEW v, cronPoll'[p] = v, PollSound(v)'
    PROVE  PollSound(cronPoll[p])'
BY DEF PollSound, ListedSound, AtJobSound

LEMMA EditIsSound ==
    ASSUME NEW e, NEW v, edit'[e] = v, EditSound(v)'
    PROVE  EditSound(edit[e])'
BY DEF EditSound, NewTimeSound

\* Poll p moves to v while the others are idle, and changes no more than what
\* is known of job c: what is to be shown is that v, and that job, are sound.
LEMMA PollActs ==
    ASSUME CronInv, NEW p \in CronPolls, NEW v \in CronPollType,
           \A q \in CronPolls \ {p} : cronPoll[q].pc = "idle",
           cronPoll' = [cronPoll EXCEPT ![p] = v], PollSound(v)',
           NEW c, UNCHANGED <<now, edit>>, FaultsGrow,
           LeavesAlone(p, v, c),
           c \in Crons => RowSound(c)',
           \A e \in Editors : edit[e].cron = c /\ c \in Crons => EditSound(edit[e])'
    PROVE  /\ \A d \in Crons : RowSound(d)'
           /\ \A q \in CronPolls : PollSound(cronPoll[q])'
           /\ \A e \in Editors : EditSound(edit[e])'
<1>0. \A d \in Crons \ {c} :
          /\ row'[d] = row[d] /\ ran'[d] = ran[d] /\ quiet'[d] = quiet[d]
          /\ linked'[d] = linked[d] /\ record'[d] = record[d] /\ why'[d] = why[d]
          /\ faults' = 0 /\ row[d].is = "there" /\ cronPoll[p].cron = d => v.cron = d
          /\ d \in v.todo =>
                \/ d \in cronPoll[p].todo /\ v.time[d] = cronPoll[p].time[d]
                \/ row[d].enabled
    BY DEF LeavesAlone
<1>1. /\ CronTypes /\ cronPoll \in [CronPolls -> CronPollType] /\ edit \in [Editors -> CronEditType]
      /\ cronPoll'[p] = v /\ \A q \in CronPolls \ {p} : cronPoll'[q] = cronPoll[q]
    BY CronHas DEF CronInv, CronTyped
<1>2. ASSUME NEW q \in CronPolls \ {p}
      PROVE  cronPoll[q].cron = NoCron /\ cronPoll[q].todo = {} /\ PollSound(cronPoll[q])'
    <2>1. cronPoll[q].pc = "idle" /\ PollSound(cronPoll[q])
        BY CronHas
    <2>2. cronPoll[q].cron = NoCron /\ cronPoll[q].todo = {}
        BY <2>1 DEF PollSound, AtJob
    <2> QED
        BY <1>1, <2>1, <2>2 DEF PollSound, AtJob
<1>3. \A q \in CronPolls : PollSound(cronPoll[q])'
    <2>1. PollSound(cronPoll[p])'
        BY <1>1, PollIsSound
    <2> QED
        BY <1>2, <2>1
<1>4. ASSUME NEW d \in Crons \ {c}, faults' = 0, row[d].is = "there", RunsNow(d)
      PROVE  RunsNow(d)'
    <2>1. PICK q \in CronPolls : cronPoll[q].cron = d
        BY <1>4 DEF RunsNow
    <2>2. q = p
        BY <1>1, <1>2, <2>1 DEF CronTypes
    <2> QED
        BY <1>0, <1>1, <1>4, <2>1, <2>2 DEF RunsNow
<1>5. ASSUME NEW d \in Crons \ {c} PROVE RowSound(d)'
    <2>1. now'[d] \in Nat /\ now'[d] >= now[d]
        BY CronHas
    <2> QED
        BY <1>0, <1>4, <2>1, RowStays
<1>6. ASSUME NEW e \in Editors, edit[e].pc = "write", edit[e].cron # c PROVE EditSound(edit[e])'
    <2>1. edit[e] \in CronEditType /\ EditSound(edit[e]) /\ edit[e].cron \in Crons \ {c}
        BY <1>1, <1>6, CronHas DEF EditSound, CronTypes
    <2>2. PICK x \in CronEditType : x = edit[e]
        BY <2>1
    <2>3. PICK d \in Crons \ {c} : d = x.cron
        BY <2>1, <2>2
    <2>4. now'[d] \in Nat /\ now'[d] >= now[d]
        BY CronHas
    <2>5. \A q \in CronPolls : d \in cronPoll'[q].todo =>
               \/ d \in cronPoll[q].todo /\ cronPoll'[q].time[d] = cronPoll[q].time[d]
               \/ row[d].enabled
        BY <1>0, <1>1, <1>2
    <2>6. row'[d] = row[d] /\ ran'[d] = ran[d] /\ why'[d] = why[d]
        BY <1>0
    <2>7. EditSound(x)'
        BY <1>4, <2>1, <2>2, <2>3, <2>4, <2>5, <2>6, EditStays
    <2>8. edit'[e] = x
        BY <2>2
    <2> QED
        BY <2>7, <2>8, EditIsSound
<1>7. ASSUME NEW e \in Editors, edit[e].pc # "write" PROVE EditSound(edit[e])'
    BY <1>7 DEF EditSound
<1>8. ASSUME NEW e \in Editors, edit[e].pc = "write", edit[e].cron = c PROVE EditSound(edit[e])'
    <2>1. c \in Crons
        BY <1>1, <1>8, CronHas DEF EditSound, CronTypes
    <2> QED
        BY <1>8, <2>1
<1> QED
    BY <1>3, <1>5, <1>6, <1>7, <1>8

\* The guard follows what the poll at work does.
LEMMA GuardKept ==
    ASSUME CronInv, NEW p \in CronPolls, NEW v \in CronPollType,
           Up, cronPoll[p].pc # "idle", cronPoll' = [cronPoll EXCEPT ![p] = v],
           FaultsGrow, \A c \in Crons : row[c].is = "gone" => row'[c].is = "gone",
           \/ v.pc # "idle" /\ UNCHANGED <<polling, phase>>
           \/ /\ v.pc = "idle" /\ polling' = FALSE /\ phase' \in {phase, "down"}
              /\ phase' = "down" => faults' > 0 \/ \E c \in Crons : row'[c].is = "gone"
    PROVE  /\ \A q \in CronPolls \ {p} : cronPoll[q].pc = "idle"
           /\ PollsAlone' /\ StaysUp' /\ QuietWhenStopped'
           /\ polling' \in BOOLEAN /\ phase' \in {"up", "stopping", "stopped", "down"}
           /\ Up' => (polling' <=> \E q \in CronPolls : cronPoll'[q].pc # "idle")
<1>1. /\ \A q \in CronPolls \ {p} : cronPoll[q].pc = "idle"
      /\ cronPoll \in [CronPolls -> CronPollType] /\ phase \in {"up", "stopping"}
      /\ polling \in BOOLEAN /\ (polling <=> \E q \in CronPolls : cronPoll[q].pc # "idle")
    BY DEF CronInv, CronTyped, PollsAlone, Up, CronTypeOK
<1>2. cronPoll'[p] = v /\ \A q \in CronPolls \ {p} : cronPoll'[q].pc = "idle"
    BY <1>1
<1>3. CASE v.pc # "idle" /\ UNCHANGED <<polling, phase>>
    BY <1>1, <1>2, <1>3 DEF PollsAlone, StaysUp, QuietWhenStopped
<1>4. CASE /\ v.pc = "idle" /\ polling' = FALSE /\ phase' \in {phase, "down"}
           /\ phase' = "down" => faults' > 0 \/ \E c \in Crons : row'[c].is = "gone"
    BY <1>1, <1>2, <1>4 DEF PollsAlone, StaysUp, QuietWhenStopped
<1> QED
    BY <1>1, <1>3, <1>4

\* What the type invariant says of the variables but the polls and the guard.
CronCounts ==
    /\ row \in [Crons -> Rows] /\ now \in [Crons -> 1 .. LastTime]
    /\ ran \in [Crons -> 0 .. LastTime]
    /\ quiet \in [Crons -> 0 .. 2] /\ linked \in [Crons -> 0 .. MaxChats]
    /\ record \in [Crons -> SUBSET {"success", "failed"}]
    /\ edits \in 0 .. MaxEdits /\ faults \in 0 .. MaxFaults

LEMMA CronIsTyped ==
    ASSUME CronCounts', phase' \in {"up", "stopping", "stopped", "down"}, polling' \in BOOLEAN,
           Up' => (polling' <=> \E p \in CronPolls : cronPoll'[p].pc # "idle"),
           CronTyped', \A p \in CronPolls : PollSound(cronPoll[p])'
    PROVE  CronTypeOK'
<1>1. \A p \in CronPolls : cronPoll'[p].cron # NoCron <=> cronPoll'[p].pc \in AtJob
    BY DEF PollSound
<1>2. \A e \in Editors : edit'[e].new \in Rows
    BY DEF CronTyped, CronEditType
<1> QED
    BY <1>1, <1>2 DEF CronTypeOK, CronCounts, AtJob

\* A poll at work moves and changes nothing but itself, or ends.
LEMMA PollMoves ==
    ASSUME CronInv, NEW p \in CronPolls, NEW v \in CronPollType,
           Up, cronPoll[p].pc # "idle", cronPoll' = [cronPoll EXCEPT ![p] = v], PollSound(v)',
           UNCHANGED <<row, now, edit, edits, ran, quiet, linked, record, why>>,
           faults' \in 0 .. MaxFaults, FaultsGrow,
           \/ v.pc # "idle" /\ UNCHANGED <<polling, phase>>
           \/ /\ v.pc = "idle" /\ polling' = FALSE /\ phase' \in {phase, "down"}
              /\ phase' = "down" => faults' > 0 \/ \E c \in Crons : row'[c].is = "gone",
           \A c \in Crons :
               /\ faults' = 0 /\ row[c].is = "there" /\ cronPoll[p].cron = c => v.cron = c
               /\ c \in v.todo =>
                     \/ c \in cronPoll[p].todo /\ v.time[c] = cronPoll[p].time[c]
                     \/ row[c].enabled
    PROVE  CronInv'
<1>1. /\ \A q \in CronPolls \ {p} : cronPoll[q].pc = "idle"
      /\ PollsAlone' /\ StaysUp' /\ QuietWhenStopped'
      /\ polling' \in BOOLEAN /\ phase' \in {"up", "stopping", "stopped", "down"}
      /\ Up' => (polling' <=> \E q \in CronPolls : cronPoll'[q].pc # "idle")
    BY GuardKept
<1>2. NoCron \notin Crons
    BY CronAssumption
<1>3. /\ \A d \in Crons : RowSound(d)'
      /\ \A q \in CronPolls : PollSound(cronPoll[q])'
      /\ \A e \in Editors : EditSound(edit[e])'
    <2>1. LeavesAlone(p, v, NoCron)
        BY DEF LeavesAlone
    <2> QED
        BY <1>1, <1>2, <2>1, PollActs
<1>4. CronTyped' /\ CronCounts'
    BY DEF CronInv, CronTyped, CronCounts, CronTypeOK
<1>5. CronTypeOK'
    BY <1>1, <1>3, <1>4, CronIsTyped
<1> QED
    BY <1>1, <1>3, <1>4, <1>5 DEF CronInv

\* pollNow rejects, after a fault or at a job that is gone.
LEMMA RejectKeeps ==
    ASSUME CronInv, NEW p \in CronPolls, Up, cronPoll[p].pc # "idle",
           Reject(p), UNCHANGED <<row, now, edit, edits, ran, quiet, linked, record, why>>,
           faults' \in 0 .. MaxFaults, FaultsGrow,
           faults' = 0 => cronPoll[p].cron \in Crons /\ row[cronPoll[p].cron].is # "there"
    PROVE  CronInv'
<1>1. /\ cronPoll' = [cronPoll EXCEPT ![p] = IdleCronPoll] /\ polling' = FALSE
      /\ phase' \in {phase, "down"}
    BY DEF Reject
<1>2. ASSUME faults' = 0 PROVE \E c \in Crons : row'[c].is = "gone"
    <2> DEFINE c == cronPoll[p].cron
    <2>1. c \in Crons /\ row[c].is # "there" /\ row[c] \in Rows
        BY <1>2, CronHas
    <2>2. PollSound(cronPoll[p]) /\ c # NoCron
        BY <2>1, CronHas DEF CronTypes
    <2>3. row[c].is # "none"
        BY <2>2 DEF PollSound, AtJobSound
    <2> QED
        BY <2>1, <2>3 DEF Rows
<1>3. phase' = "down" => faults' > 0 \/ \E c \in Crons : row'[c].is = "gone"
    BY <1>2
<1>4. \A c \in Crons : ~(faults' = 0 /\ row[c].is = "there" /\ cronPoll[p].cron = c)
    OBVIOUS
<1> QED
    BY <1>1, <1>3, <1>4, IdleCron, PollMoves

LEMMA ListDueKeeps ==
    ASSUME CronInv, NEW p \in CronPolls, ListDue(p)
    PROVE  CronInv'
<1>1. /\ Up /\ cronPoll[p].pc = "list"
      /\ UNCHANGED <<row, now, edit, edits, ran, quiet, linked, record, why>>
    BY DEF ListDue, At, Edits, Runs
<1>2. faults \in 0 .. MaxFaults /\ MaxFaults \in Nat
    BY CronAssumption DEF CronInv, CronTypeOK
<1>3. CASE Fault /\ Reject(p)
    <2>1. faults' \in 0 .. MaxFaults /\ faults' # 0
        BY <1>2, <1>3 DEF Fault
    <2> QED
        BY <1>1, <1>3, <2>1, RejectKeeps DEF FaultsGrow
<1>4. CASE /\ cronPoll' = [cronPoll EXCEPT ![p] = Listed({c \in Crons : IsDue(c)})]
           /\ UNCHANGED <<polling, phase, faults>>
    <2> DEFINE due == {c \in Crons : IsDue(c)}
               w == Listed(due)
    <2>1. /\ cronPoll[p].cron = NoCron
          /\ \A q \in CronPolls \ {p} : cronPoll[q].cron = NoCron
        <3>1. \A q \in CronPolls : PollSound(cronPoll[q])
            BY CronHas
        <3>2. \A q \in CronPolls \ {p} : cronPoll[q].pc = "idle"
            BY <1>1 DEF CronInv, PollsAlone
        <3> QED
            BY <1>1, <3>1, <3>2 DEF PollSound, AtJob
    <2>2. \A c \in due : /\ row[c].is = "there" /\ row[c].enabled
                         /\ row[c].next = 0 \/ row[c].next <= now[c]
        BY DEF IsDue, There, Null
    <2>3. due \subseteq Crons
        OBVIOUS
    <2> HIDE DEF due
    <2>4. PICK v \in CronPollType :
          /\ v = w /\ v.pc = "next" /\ v.todo = due /\ v.cron = NoCron
          /\ \A c \in due : v.chat[c] = row[c].session
          /\ \A c \in due : v.time[c] = IF row[c].next = 0 THEN now[c] ELSE row[c].next
        <3> DEFINE time == [c \in Crons |-> IF c \notin due THEN 0
                                            ELSE IF row[c].next = 0 THEN now[c] ELSE row[c].next]
        <3>1. time \in [Crons -> 0 .. LastTime]
            <4>1. ASSUME NEW c \in Crons
                  PROVE  (IF c \notin due THEN 0
                          ELSE IF row[c].next = 0 THEN now[c] ELSE row[c].next) \in 0 .. LastTime
                <5>1. now[c] \in 1 .. LastTime /\ row[c].next \in 0 .. (LastTime + 1) /\ LastTime \in Nat
                    BY CronHas DEF CronTypes
                <5> QED
                    BY <2>2, <5>1
            <4> QED
                BY <4>1
        <3>2. \A c \in due : time[c] = IF row[c].next = 0 THEN now[c] ELSE row[c].next
            BY <2>3
        <3> DEFINE chat == [c \in Crons |-> IF c \in due THEN row[c].session ELSE 0]
        <3>3. chat \in [Crons -> 0 .. MaxChats] /\ \A c \in due : chat[c] = row[c].session
            <4>1. ASSUME NEW c \in Crons
                  PROVE  (IF c \in due THEN row[c].session ELSE 0) \in 0 .. MaxChats
                BY CronHas DEF CronTypes, Rows
            <4> QED
                BY <2>3, <4>1
        <3>4. w = [IdleCronPoll EXCEPT !.pc = "next", !.todo = due, !.time = time, !.chat = chat]
            BY DEF Listed, Null, NoChat
        <3> HIDE DEF time, chat, w
        <3>5. /\ w \in CronPollType /\ w.pc = "next" /\ w.todo = due /\ w.cron = NoCron
              /\ w.chat = chat /\ w.time = time
            BY <2>3, <3>1, <3>3, <3>4, IdleCron DEF CronPollType
        <3> QED
            BY <3>2, <3>3, <3>5
    <2> HIDE DEF w
    <2>5. ASSUME NEW c \in due PROVE ListedSound(v, c)'
        <3>1. /\ c \in Crons /\ row[c].is = "there" /\ row[c].enabled
              /\ row[c].next = 0 \/ row[c].next <= now[c]
            BY <2>2, <2>3
        <3>2. /\ now[c] \in 1 .. LastTime /\ ran[c] \in Int /\ row[c].next \in Int /\ LastTime \in Nat
              /\ RowSound(c)
            BY <3>1, CronHas DEF CronInv, CronTypes
        <3>3. ~RunsNow(c)
            BY <2>1, <3>1, CronHas DEF RunsNow, CronTypes
        <3>4. v.time[c] <= now[c]
            BY <2>4, <3>1, <3>2
        <3>5. why[c] = {} => row[c].next # 0
            BY <3>1, <3>2 DEF RowSound
        <3>6. faults = 0 /\ why[c] = {} => v.time[c] > ran[c]
            BY <2>4, <3>1, <3>2, <3>3, <3>5 DEF RowSound
        <3>7. v.cron # c
            BY <2>4, <3>1, CronHas DEF CronTypes
        <3>8. linked[c] # 0 => v.chat[c] = linked[c] \/ "overlap" \in why[c]
            BY <2>4, <3>1, <3>2 DEF RowSound
        <3>9. quiet[c] = 2 => "overlap" \in why[c]
            BY <3>1, <3>2 DEF RowSound
        <3> QED
            BY <1>1, <1>4, <3>1, <3>4, <3>6, <3>7, <3>8, <3>9 DEF ListedSound
    <2>6. PollSound(v)'
        BY <2>4, <2>5 DEF PollSound, AtJob
    <2>7. \A c \in Crons : c \in v.todo => row[c].enabled
        BY <2>2, <2>4
    <2>8. cronPoll' = [cronPoll EXCEPT ![p] = v]
        BY <1>4, <2>4 DEF w, due
    <2>9. \A c \in Crons : cronPoll[p].cron # c
        BY <2>1, CronHas DEF CronTypes
    <2>10. UNCHANGED <<polling, phase>> /\ faults' \in 0 .. MaxFaults /\ FaultsGrow
        BY <1>2, <1>4 DEF FaultsGrow
    <2>11. v.pc # "idle" /\ cronPoll[p].pc # "idle"
        BY <1>1, <2>4
    <2> QED
        BY <1>1, <2>6, <2>7, <2>8, <2>9, <2>10, <2>11, PollMoves
<1> QED
    BY <1>3, <1>4 DEF ListDue

\* A poll that ends, or that goes on with its run.
LEMMA EndPollKeeps ==
    ASSUME CronInv, NEW p \in CronPolls, EndCronPoll(p)
    PROVE  CronInv'
<1>1. /\ Up /\ cronPoll[p].pc = "next" /\ polling' = FALSE
      /\ cronPoll' = [cronPoll EXCEPT ![p] = IdleCronPoll]
      /\ UNCHANGED <<row, now, phase, edit, edits, ran, quiet, linked, record, why, faults>>
    BY DEF EndCronPoll, At, Edits, Runs, Times
<1>2. PollSound(cronPoll[p]) /\ CronTypes /\ faults \in 0 .. MaxFaults /\ StaysUp /\ faults \in Int
    BY CronHas DEF CronInv, CronTypeOK
<1>3. cronPoll[p].cron = NoCron /\ phase # "down"
    BY <1>1, <1>2 DEF PollSound, AtJob, Up
<1> QED
    BY <1>1, <1>2, <1>3, IdleCron, PollMoves DEF FaultsGrow, CronTypes

LEMMA EndRunKeeps ==
    ASSUME CronInv, NEW p \in CronPolls, EndCronRun(p)
    PROVE  CronInv'
<1> DEFINE q == cronPoll[p]
<1>1. /\ Up /\ q.pc = "run"
      /\ UNCHANGED <<polling, row, now, phase, edit, edits, ran, quiet, linked, record, why, faults>>
    BY DEF EndCronRun, At, Edits, Runs, Times
<1>2. PICK failed \in BOOLEAN :
          cronPoll' = [cronPoll EXCEPT ![p].pc = "record", ![p].failed = failed]
    BY DEF EndCronRun
<1> DEFINE w == [q EXCEPT !.pc = "record", !.failed = failed]
<1>3. q \in CronPollType /\ PollSound(q) /\ cronPoll \in [CronPolls -> CronPollType]
    BY CronHas DEF CronInv, CronTyped
<1>4. cronPoll' = [cronPoll EXCEPT ![p] = w]
    BY <1>2, <1>3
<1>5. PICK v \in CronPollType :
          /\ v = w /\ v.pc = "record" /\ v.todo = q.todo /\ v.time = q.time
          /\ v.chat = q.chat /\ v.cron = q.cron
    <2>1. /\ w \in CronPollType /\ w.pc = "record" /\ w.todo = q.todo /\ w.time = q.time
          /\ w.chat = q.chat /\ w.cron = q.cron
        BY <1>3 DEF CronPollType, AtJob
    <2> QED
        BY <2>1
<1> HIDE DEF w
<1>6. \A c \in v.todo : ListedSound(v, c)'
    BY <1>1, <1>3, <1>5 DEF PollSound, ListedSound
<1>7. PollSound(v)'
    BY <1>1, <1>3, <1>5, <1>6 DEF PollSound, AtJobSound, AtJob
<1>8. faults \in 0 .. MaxFaults
    BY DEF CronInv, CronTypeOK
<1> QED
    BY <1>1, <1>4, <1>5, <1>7, <1>8, PollMoves DEF FaultsGrow

\* What a poll has listed stays sound while it is at a job.
LEMMA ListStays ==
    ASSUME NEW q, NEW v, PollSound(q), v.todo = q.todo, v.time = q.time, v.chat = q.chat,
           v.cron = q.cron, UNCHANGED <<row, now, quiet, linked, why, ran>>, FaultsGrow
    PROVE  \A c \in v.todo : ListedSound(v, c)'
BY DEF PollSound, ListedSound, FaultsGrow

LEMMA CallThrowsKeeps ==
    ASSUME CronInv, NEW p \in CronPolls, Up, cronPoll[p].pc \in AtJob,
           CallThrows(p), UNCHANGED <<now, edit, edits, ran, quiet>>
    PROVE  CronInv'
<1> DEFINE q == cronPoll[p]
<1>1. q \in CronPollType /\ PollSound(q) /\ cronPoll \in [CronPolls -> CronPollType] /\ CronTypes
    BY CronHas DEF CronInv, CronTyped
<1>2. q.cron \in Crons /\ AtJobSound(q)
    BY <1>1 DEF PollSound, CronPollType
<1>3. faults \in 0 .. MaxFaults /\ MaxFaults \in Nat
    BY CronAssumption DEF CronInv, CronTypeOK
<1>4. /\ Throw(p) /\ UNCHANGED <<row, record, linked, why>>
      /\ row[q.cron].is = "there" => Fault
      /\ row[q.cron].is # "there" => UNCHANGED faults
    BY DEF CallThrows, There
<1>5. /\ faults' \in 0 .. MaxFaults /\ FaultsGrow
      /\ faults' = 0 => row[q.cron].is # "there"
    BY <1>3, <1>4 DEF Fault, FaultsGrow
<1>6. q.pc # "idle"
    BY DEF AtJob
<1>7. CASE q.failed
    <2>1. Reject(p)
        BY <1>4, <1>7 DEF Throw
    <2> QED
        BY <1>2, <1>4, <1>5, <1>6, <2>1, RejectKeeps
<1>8. CASE ~q.failed
    <2> DEFINE yes == TRUE
               no == FALSE
               w == [q EXCEPT !.pc = "record", !.failed = yes, !.next = 0, !.enabled = no]
    <2>1. /\ cronPoll' = [cronPoll EXCEPT ![p].pc = "record", ![p].failed = TRUE,
                                          ![p].next = 0, ![p].enabled = FALSE]
          /\ UNCHANGED <<polling, phase>>
        BY <1>4, <1>8 DEF Throw, Null
    <2>2. cronPoll' = [cronPoll EXCEPT ![p] = w]
        BY <1>1, <2>1
    <2>3. PICK v \in CronPollType :
              /\ v = w /\ v.pc = "record" /\ v.todo = q.todo /\ v.time = q.time
              /\ v.chat = q.chat /\ v.cron = q.cron
        <3>1. yes \in BOOLEAN /\ no \in BOOLEAN /\ 0 \in 0 .. (LastTime + 1)
            BY <1>1 DEF CronTypes
        <3> HIDE DEF yes, no
        <3>2. /\ w \in CronPollType /\ w.pc = "record" /\ w.todo = q.todo /\ w.time = q.time
              /\ w.chat = q.chat /\ w.cron = q.cron
            BY <1>1, <3>1 DEF CronPollType, AtJob
        <3> QED
            BY <3>2
    <2> HIDE DEF w
    <2>4. \A c \in v.todo : ListedSound(v, c)'
        BY <1>1, <1>4, <1>5, <2>3, ListStays
    <2>5. AtJobSound(v)'
        BY <1>2, <1>4, <1>5, <2>3 DEF AtJobSound
    <2>6. PollSound(v)'
        BY <1>1, <1>2, <2>3, <2>4, <2>5 DEF PollSound, AtJob, CronTypes
    <2>7. cronPoll' = [cronPoll EXCEPT ![p] = v]
        BY <2>2, <2>3
    <2> QED
        BY <1>4, <1>5, <1>6, <2>1, <2>3, <2>6, <2>7, PollMoves
<1> QED
    BY <1>7, <1>8

LEMMA MarkReadKeeps ==
    ASSUME CronInv, NEW p \in CronPolls, MarkRead(p)
    PROVE  CronInv'
<1> DEFINE q == cronPoll[p]
<1>1. Up /\ q.pc = "mark" /\ UNCHANGED <<now, edit, edits, ran, quiet>>
    BY DEF MarkRead, At, Edits
<1>2. CASE CallThrows(p)
    BY <1>1, <1>2, CallThrowsKeeps DEF AtJob
<1>3. CASE ~CallThrows(p)
    <2>1. q \in CronPollType /\ PollSound(q) /\ cronPoll \in [CronPolls -> CronPollType] /\ CronTypes
        BY CronHas DEF CronInv, CronTyped
    <2>2. PICK c \in Crons : c = q.cron
        BY <1>1, <2>1 DEF PollSound, CronPollType, AtJob
    <2> DEFINE next == IF row[c].enabled THEN NextRunAt(row[c].fires, now[c]) ELSE 0
               w == [q EXCEPT !.pc = "write", !.enabled = row[c].enabled, !.next = next]
    <2>3. /\ row[c].is = "there" /\ UNCHANGED <<row, record, polling, phase, linked, why, faults>>
          /\ cronPoll' = [cronPoll EXCEPT ![p].pc = "write", ![p].enabled = row[c].enabled,
                                          ![p].next = next]
        BY <1>3, <2>2 DEF MarkRead, There, Null
    <2>4. /\ row[c] \in Rows /\ now[c] \in 1 .. LastTime /\ ran[c] \in 0 .. LastTime
          /\ RowSound(c) /\ LastTime \in Nat
        BY <2>1, CronHas DEF CronInv, CronTypes
    <2>5. next \in 0 .. (LastTime + 1) /\ next <= now[c] + 1
        BY <2>4 DEF NextRunAt
    <2>6. why[c] = {} => IF row[c].enabled THEN next > ran[c] ELSE next = 0
        BY <2>3, <2>4 DEF NextRunAt, RowSound
    <2>7. cronPoll' = [cronPoll EXCEPT ![p] = w]
        BY <2>1, <2>3
    <2> HIDE DEF next
    <2>8. PICK v \in CronPollType :
              /\ v = w /\ v.pc = "write" /\ v.todo = q.todo /\ v.time = q.time
              /\ v.chat = q.chat /\ v.cron = c /\ v.next = next /\ (v.enabled <=> row[c].enabled)
        <3>1. row[c].enabled \in BOOLEAN
            BY <2>4 DEF Rows
        <3>2. /\ w \in CronPollType /\ w.pc = "write" /\ w.todo = q.todo /\ w.time = q.time
              /\ w.chat = q.chat /\ w.cron = q.cron /\ w.next = next
              /\ w.enabled = row[c].enabled
            BY <2>1, <2>5, <3>1 DEF CronPollType, AtJob
        <3> QED
            BY <2>2, <3>2
    <2> HIDE DEF w
    <2>9. \A d \in v.todo : ListedSound(v, d)'
        BY <1>1, <2>1, <2>2, <2>3, <2>8, ListStays DEF FaultsGrow
    <2>10. AtJobSound(v)'
        <3>1. AtJobSound(q)
            BY <2>1, <2>2 DEF PollSound, CronTypes
        <3>2. row'[c].is = "there" /\ faults' = faults /\ record'[c] = record[c] /\ now' = now
              /\ why' = why /\ ran' = ran
            BY <1>1, <2>3
        <3>3. faults = 0 => \E s \in record[c] : record[c] = {s}
            BY <1>1, <2>2, <2>3, <3>1 DEF AtJobSound
        <3> QED
            BY <2>5, <2>6, <2>8, <3>2, <3>3 DEF AtJobSound
    <2>11. PollSound(v)'
        BY <2>1, <2>8, <2>9, <2>10 DEF PollSound, AtJob, CronTypes
    <2>12. cronPoll' = [cronPoll EXCEPT ![p] = v] /\ faults' \in 0 .. MaxFaults /\ FaultsGrow
        BY <2>3, <2>7, <2>8 DEF FaultsGrow, CronInv, CronTypeOK
    <2>13. v.pc # "idle" /\ q.pc # "idle" /\ UNCHANGED <<polling, phase>>
        BY <1>1, <2>3, <2>8
    <2>14. \A d \in Crons :
               /\ faults' = 0 /\ row[d].is = "there" /\ q.cron = d => v.cron = d
               /\ d \in v.todo =>
                     \/ d \in q.todo /\ v.time[d] = q.time[d]
                     \/ row[d].enabled
        BY <2>2, <2>8
    <2>15. UNCHANGED <<row, now, edit, edits, ran, quiet, linked, record, why>>
        BY <1>1, <2>3
    <2>16. Up
        BY <1>1
    <2> HIDE DEF q
    <2> QED
        BY <2>11, <2>12, <2>13, <2>14, <2>15, <2>16, PollMoves DEF q
<1> QED
    BY <1>2, <1>3

\* A poll at work goes on, and changes what is known of job c alone.
LEMMA PollMovesAt ==
    ASSUME CronInv, NEW p \in CronPolls, NEW v \in CronPollType,
           Up, cronPoll[p].pc # "idle", v.pc # "idle",
           cronPoll' = [cronPoll EXCEPT ![p] = v], PollSound(v)', NEW c \in Crons,
           UNCHANGED <<now, edit, edits, faults, polling, phase>>,
           CronCounts', why' \in [Crons -> SUBSET {"overlap", "never"}],
           row[c].is = "gone" => row'[c].is = "gone",
           LeavesAlone(p, v, c),
           RowSound(c)', \A x \in CronEditType : EditSound(x) /\ x.cron = c => EditSound(x)'
    PROVE  CronInv'
<1>1. FaultsGrow /\ \A d \in Crons : row[d].is = "gone" => row'[d].is = "gone"
    BY DEF FaultsGrow, LeavesAlone
<1>2. /\ \A q \in CronPolls \ {p} : cronPoll[q].pc = "idle"
      /\ PollsAlone' /\ StaysUp' /\ QuietWhenStopped'
      /\ polling' \in BOOLEAN /\ phase' \in {"up", "stopping", "stopped", "down"}
      /\ Up' => (polling' <=> \E q \in CronPolls : cronPoll'[q].pc # "idle")
    BY <1>1, GuardKept
<1>3. ASSUME NEW e \in Editors, edit[e].cron = c PROVE EditSound(edit[e])'
    <2>1. PICK x \in CronEditType : x = edit[e] /\ EditSound(edit[e])
        BY CronHas
    <2>2. EditSound(x)' /\ edit'[e] = x
        BY <1>3, <2>1
    <2> QED
        BY <2>2, EditIsSound
<1>4. /\ \A d \in Crons : RowSound(d)'
      /\ \A q \in CronPolls : PollSound(cronPoll[q])'
      /\ \A e \in Editors : EditSound(edit[e])'
    <2>2. \A e \in Editors : edit[e].cron = c /\ c \in Crons => EditSound(edit[e])'
        BY <1>3
    <2>3. UNCHANGED <<now, edit>>
        OBVIOUS
    <2> QED
        BY <1>1, <1>2, <2>2, <2>3, PollActs
<1>5. CronTyped'
    BY DEF CronInv, CronTyped
<1>6. CronTypeOK'
    BY <1>2, <1>4, <1>5, CronIsTyped
<1> QED
    BY <1>2, <1>4, <1>5, <1>6 DEF CronInv

LEMMA BeginRunKeeps ==
    ASSUME CronInv, NEW p \in CronPolls, BeginRun(p)
    PROVE  CronInv'
<1> DEFINE q == cronPoll[p]
<1>1. /\ Up /\ q.pc = "next"
      /\ UNCHANGED <<row, polling, now, phase, edit, edits, linked, why, faults>>
    BY DEF BeginRun, At, Times, Edits
<1>2. PICK c \in q.todo :
      \E x \in IF q.chat[c] # 0 THEN {q.chat[c]} ELSE Fresh(c) :
          /\ cronPoll' = [cronPoll EXCEPT ![p].pc = "run", ![p].todo = @ \ {c}, ![p].cron = c,
                                          ![p].time[c] = 0, ![p].chat[c] = x]
          /\ ran' = [ran EXCEPT ![c] = q.time[c]]
          /\ quiet' = [quiet EXCEPT ![c] = IF @ = 0 THEN 0 ELSE 2]
          /\ record' = [record EXCEPT ![c] = {}]
    BY DEF BeginRun, Null, NoChat
<1>3. q \in CronPollType /\ PollSound(q) /\ cronPoll \in [CronPolls -> CronPollType] /\ CronTypes
    BY CronHas DEF CronInv, CronTyped
<1>4. c \in Crons /\ ListedSound(q, c) /\ q.cron = NoCron
    BY <1>1, <1>2, <1>3 DEF PollSound, AtJob, CronPollType
<1>4a. PICK x \in 0 .. MaxChats :
          /\ cronPoll' = [cronPoll EXCEPT ![p].pc = "run", ![p].todo = @ \ {c}, ![p].cron = c,
                                          ![p].time[c] = 0, ![p].chat[c] = x]
          /\ ran' = [ran EXCEPT ![c] = q.time[c]]
          /\ quiet' = [quiet EXCEPT ![c] = IF @ = 0 THEN 0 ELSE 2]
          /\ record' = [record EXCEPT ![c] = {}]
    <2>1. q.chat[c] \in 0 .. MaxChats
        BY <1>3, <1>4 DEF CronPollType
    <2>2. ASSUME NEW x \in Fresh(c) PROVE x \in 0 .. MaxChats
        BY <1>3 DEF Fresh, CronTypes
    <2> QED
        BY <1>2, <2>1, <2>2
<1> DEFINE w == [q EXCEPT !.pc = "run", !.todo = @ \ {c}, !.cron = c,
                          !.time = [@ EXCEPT ![c] = 0], !.chat = [@ EXCEPT ![c] = x]]
<1>5. cronPoll' = [cronPoll EXCEPT ![p] = w]
    BY <1>3, <1>4a, ZenonT(60)
<1>6. PICK v \in CronPollType :
          /\ v = w /\ v.pc = "run" /\ v.todo = q.todo \ {c} /\ v.cron = c
          /\ \A d \in Crons \ {c} : v.time[d] = q.time[d] /\ v.chat[d] = q.chat[d]
    <2>1. 0 \in 0 .. LastTime
        BY <1>3 DEF CronTypes
    <2>2. /\ w \in CronPollType /\ w.pc = "run" /\ w.todo = q.todo \ {c}
          /\ w.cron = c /\ w.time = [q.time EXCEPT ![c] = 0] /\ w.chat = [q.chat EXCEPT ![c] = x]
        BY <1>3, <1>4, <2>1 DEF CronPollType, AtJob
    <2>3. \A d \in Crons \ {c} : w.time[d] = q.time[d] /\ w.chat[d] = q.chat[d]
        BY <1>3, <2>2 DEF CronPollType
    <2> QED
        BY <2>2, <2>3
<1> HIDE DEF w
<1>7. /\ row \in [Crons -> Rows] /\ now \in [Crons -> 1 .. LastTime]
      /\ ran \in [Crons -> 0 .. LastTime] /\ quiet \in [Crons -> 0 .. 2]
      /\ record \in [Crons -> SUBSET {"success", "failed"}]
      /\ CronCounts /\ why \in [Crons -> SUBSET {"overlap", "never"}]
    BY DEF CronInv, CronTypeOK, CronTyped, CronCounts
<1>8. q.time[c] \in 0 .. LastTime /\ q.time[c] <= now[c]
    BY <1>3, <1>4 DEF CronPollType, ListedSound
<1>9. /\ ran'[c] = q.time[c] /\ record'[c] = {} /\ quiet'[c] = IF quiet[c] = 0 THEN 0 ELSE 2
      /\ \A d \in Crons \ {c} : ran'[d] = ran[d] /\ quiet'[d] = quiet[d] /\ record'[d] = record[d]
      /\ ran' \in [Crons -> 0 .. LastTime] /\ quiet' \in [Crons -> 0 .. 2]
      /\ record' \in [Crons -> SUBSET {"success", "failed"}]
    BY <1>4, <1>4a, <1>7, <1>8
<1>10. CronCounts'
    BY <1>1, <1>7, <1>9 DEF CronCounts
<1>11. cronPoll' = [cronPoll EXCEPT ![p] = v] /\ cronPoll'[p] = v
    BY <1>3, <1>5, <1>6
<1>12. RunsNow(c)'
    BY <1>6, <1>11 DEF RunsNow
<1>13. RowSound(c)'
    <2>1. RowSound(c) /\ row[c].is # "none"
        BY <1>4 DEF CronInv, ListedSound
    <2> QED
        BY <1>1, <1>8, <1>9, <1>12, <2>1 DEF RowSound
<1>14. ASSUME NEW d \in v.todo PROVE ListedSound(v, d)'
    <2>1. d \in q.todo /\ d # c /\ d \in Crons /\ ListedSound(q, d)
        BY <1>3, <1>6, <1>14 DEF PollSound, CronPollType
    <2>2. v.time[d] = q.time[d] /\ ran'[d] = ran[d] /\ quiet'[d] = quiet[d]
          /\ v.chat[d] = q.chat[d] /\ v.cron # d
        BY <1>6, <1>9, <2>1
    <2> QED
        BY <1>1, <2>1, <2>2 DEF ListedSound
<1>15. AtJobSound(v)'
    BY <1>1, <1>4, <1>6, <1>9 DEF AtJobSound, ListedSound
<1>16. PollSound(v)'
    BY <1>3, <1>4, <1>6, <1>14, <1>15 DEF PollSound, AtJob, CronTypes
<1>17. ASSUME NEW y \in CronEditType, EditSound(y), y.cron = c PROVE EditSound(y)'
    <2> SUFFICES ASSUME y.pc = "write" PROVE EditSound(y)'
        BY DEF EditSound
    <2>1. \A r \in CronPolls : c \notin cronPoll'[r].todo
        <3>1. ASSUME NEW r \in CronPolls, r # p PROVE cronPoll[r].todo = {}
            BY <1>1, <3>1, CronHas DEF CronInv, PollsAlone, PollSound
        <3> QED
            BY <1>3, <1>6, <1>11, <3>1
    <2>2. ASSUME NewTimeSound(y, c) PROVE NewTimeSound(y, c)'
        <3>1. y.new.next # 0 /\ ~y.seen.enabled /\ y.kind \notin {"rename", "chat"} => y.new.next > q.time[c]
            BY <1>2, <2>2 DEF NewTimeSound
        <3> QED
            BY <1>1, <1>9, <1>12, <2>1, <2>2, <3>1 DEF NewTimeSound
    <2> QED
        BY <1>1, <1>17, <2>2 DEF EditSound
<1>18. LeavesAlone(p, v, c)
    BY <1>1, <1>3, <1>4, <1>6, <1>9 DEF CronTypes, LeavesAlone
<1>19. q.pc # "idle" /\ v.pc # "idle" /\ (row[c].is = "gone" => row'[c].is = "gone")
       /\ why' \in [Crons -> SUBSET {"overlap", "never"}] /\ q.cron \notin Crons
    BY <1>1, <1>3, <1>4, <1>6, <1>7 DEF CronTypes
<1>20. UNCHANGED <<now, edit, edits, faults, polling, phase>> /\ Up
    BY <1>1
<1> HIDE DEF q
<1> QED
    BY <1>4, <1>10, <1>11, <1>13, <1>16, <1>17, <1>18, <1>19, <1>20, PollMovesAt DEF q

\* The poll at work goes to stage pc with what it has.
LEMMA PollGoes ==
    ASSUME CronInv, NEW p \in CronPolls, NEW pc \in AtJob,
           cronPoll' = [cronPoll EXCEPT ![p].pc = pc]
    PROVE  \E v \in CronPollType :
              /\ cronPoll' = [cronPoll EXCEPT ![p] = v] /\ cronPoll'[p] = v /\ v.pc = pc
              /\ v.todo = cronPoll[p].todo /\ v.time = cronPoll[p].time
              /\ v.chat = cronPoll[p].chat /\ v.cron = cronPoll[p].cron
<1> DEFINE q == cronPoll[p]
           w == [q EXCEPT !.pc = pc]
<1>1. q \in CronPollType /\ cronPoll \in [CronPolls -> CronPollType]
    BY CronHas DEF CronInv, CronTyped
<1>2. cronPoll' = [cronPoll EXCEPT ![p] = w] /\ cronPoll'[p] = w
    BY <1>1
<1>3. /\ w \in CronPollType /\ w.pc = pc /\ w.todo = q.todo /\ w.time = q.time
      /\ w.chat = q.chat /\ w.cron = q.cron
    BY <1>1 DEF CronPollType
<1> QED
    BY <1>2, <1>3

SameTurn(c) ==
    /\ row'[c].is = row[c].is /\ row'[c].next = row[c].next
    /\ row'[c].enabled = row[c].enabled

\* An edit of the job a poll is at, while the poll stays at it.
LEMMA EditsStay ==
    ASSUME CronInv, NEW p \in CronPolls, NEW v \in CronPollType,
           NEW c \in Crons, cronPoll' = [cronPoll EXCEPT ![p] = v], v.cron = c,
           v.todo = cronPoll[p].todo, v.time = cronPoll[p].time,
           UNCHANGED <<now, ran, why, faults>>,
           SameTurn(c)
    PROVE  \A x \in CronEditType : EditSound(x) /\ x.cron = c => EditSound(x)'
<1>1. cronPoll \in [CronPolls -> CronPollType] /\ now[c] \in Nat
    BY CronHas DEF CronInv, CronTyped, CronTypes
<1>2. \A r \in CronPolls : c \in cronPoll'[r].todo =>
          c \in cronPoll[r].todo /\ cronPoll'[r].time[c] = cronPoll[r].time[c]
    BY <1>1
<1>3. RunsNow(c)'
    BY <1>1 DEF RunsNow
<1>4. /\ row'[c].is = row[c].is /\ row'[c].next = row[c].next
      /\ row'[c].enabled <=> row[c].enabled
    BY DEF SameTurn
<1> QED
    BY <1>1, <1>2, <1>3, <1>4, EditStays DEF FaultsGrow

LEMMA RecordRunKeeps ==
    ASSUME CronInv, NEW p \in CronPolls, RecordRun(p)
    PROVE  CronInv'
<1> DEFINE q == cronPoll[p]
<1>1. Up /\ q.pc = "record" /\ UNCHANGED <<now, edit, edits, ran, quiet>>
    BY DEF RecordRun, At, Edits
<1>2. CASE CallThrows(p)
    BY <1>1, <1>2, CallThrowsKeeps DEF AtJob
<1>3. CASE ~CallThrows(p)
    <2>1. q \in CronPollType /\ PollSound(q) /\ cronPoll \in [CronPolls -> CronPollType] /\ CronTypes
        BY CronHas DEF CronInv, CronTyped
    <2>2. PICK c \in Crons : c = q.cron /\ AtJobSound(q)
        BY <1>1, <2>1 DEF PollSound, CronPollType, AtJob
    <2>3. PICK x \in {"failed", "success"}, pc \in {"mark", "session"} :
              /\ record' = [record EXCEPT ![c] = @ \cup {x}]
              /\ cronPoll' = [cronPoll EXCEPT ![p].pc = pc]
              /\ row[c].is = "there" /\ UNCHANGED <<row, polling, phase, linked, why, faults>>
        BY <1>3, <2>2 DEF RecordRun, There, Goto
    <2>4. PICK v \in CronPollType :
              /\ cronPoll' = [cronPoll EXCEPT ![p] = v] /\ cronPoll'[p] = v
              /\ v.pc \in {"mark", "session"}
              /\ v.todo = q.todo /\ v.time = q.time /\ v.chat = q.chat /\ v.cron = c
        BY <2>2, <2>3, PollGoes, ZenonT(60) DEF AtJob
    <2>5. CronCounts /\ why \in [Crons -> SUBSET {"overlap", "never"}]
        BY DEF CronInv, CronTypeOK, CronTyped, CronCounts
    <2>6. /\ record'[c] = record[c] \cup {x} /\ record' \in [Crons -> SUBSET {"success", "failed"}]
          /\ \A d \in Crons \ {c} : record'[d] = record[d]
        BY <2>3, <2>5 DEF CronCounts
    <2>7. CronCounts'
        BY <1>1, <2>3, <2>5, <2>6 DEF CronCounts
    <2>8. \A d \in v.todo : ListedSound(v, d)'
        BY <1>1, <2>1, <2>2, <2>3, <2>4, ListStays DEF FaultsGrow
    <2>9. AtJobSound(v)'
        <3>1. faults = 0 => record[c] = {}
            BY <1>1, <2>2, <2>3 DEF AtJobSound
        <3>2. record[c] = {} => \E s \in record'[c] : record'[c] = {s}
            BY <2>6
        <3> QED
            BY <1>1, <2>2, <2>3, <2>4, <3>1, <3>2 DEF AtJobSound
    <2>10. PollSound(v)'
        BY <2>1, <2>4, <2>8, <2>9 DEF PollSound, AtJob, CronTypes
    <2>11. RowSound(c)'
        <3>1. RunsNow(c)' /\ RowSound(c)
            BY <2>4 DEF RunsNow, CronInv
        <3> QED
            BY <1>1, <2>3, <3>1 DEF RowSound
    <2>12. \A y \in CronEditType : EditSound(y) /\ y.cron = c => EditSound(y)'
        <3>1. SameTurn(c)
            BY <2>3 DEF SameTurn
        <3> QED
            BY <1>1, <2>3, <2>4, <3>1, EditsStay
    <2>13. LeavesAlone(p, v, c)
        BY <1>1, <2>2, <2>3, <2>4, <2>6 DEF LeavesAlone
    <2>14. /\ q.pc # "idle" /\ v.pc # "idle" /\ (row[c].is = "gone" => row'[c].is = "gone")
           /\ why' \in [Crons -> SUBSET {"overlap", "never"}]
           /\ UNCHANGED <<now, edit, edits, faults, polling, phase>> /\ Up
        BY <1>1, <2>3, <2>4, <2>5
    <2> HIDE DEF q
    <2> QED
        BY <2>4, <2>7, <2>10, <2>11, <2>12, <2>13, <2>14, PollMovesAt DEF q
<1> QED
    BY <1>2, <1>3

LEMMA SetSessionKeeps ==
    ASSUME CronInv, NEW p \in CronPolls, SetSession(p)
    PROVE  CronInv'
<1> DEFINE q == cronPoll[p]
<1>1. Up /\ q.pc = "session" /\ UNCHANGED <<now, edit, edits, ran, quiet>>
    BY DEF SetSession, At, Edits
<1>2. CASE CallThrows(p)
    BY <1>1, <1>2, CallThrowsKeeps DEF AtJob
<1>3. CASE ~CallThrows(p)
    <2>1. q \in CronPollType /\ PollSound(q) /\ cronPoll \in [CronPolls -> CronPollType] /\ CronTypes
        BY CronHas DEF CronInv, CronTyped
    <2>2. PICK c \in Crons : c = q.cron /\ AtJobSound(q)
        BY <1>1, <2>1 DEF PollSound, CronPollType, AtJob
    <2> DEFINE x == q.chat[c]
    <2>3. /\ row' = [row EXCEPT ![c].session = x] /\ linked' = [linked EXCEPT ![c] = x]
          /\ cronPoll' = [cronPoll EXCEPT ![p].pc = "mark"]
          /\ row[c].is = "there" /\ UNCHANGED <<record, polling, phase, why, faults>>
        BY <1>3, <2>2 DEF SetSession, There, Goto, RunChat
    <2>4. PICK v \in CronPollType :
              /\ cronPoll' = [cronPoll EXCEPT ![p] = v] /\ cronPoll'[p] = v /\ v.pc = "mark"
              /\ v.todo = q.todo /\ v.time = q.time /\ v.chat = q.chat /\ v.cron = c
        BY <2>2, <2>3, PollGoes DEF AtJob
    <2>5. CronCounts /\ why \in [Crons -> SUBSET {"overlap", "never"}]
        BY DEF CronInv, CronTypeOK, CronTyped, CronCounts
    <2>6. /\ row'[c].is = row[c].is /\ row'[c].next = row[c].next /\ row'[c].enabled = row[c].enabled
          /\ row'[c].fires = row[c].fires /\ row'[c].session = linked'[c]
          /\ row' \in [Crons -> Rows] /\ linked' \in [Crons -> 0 .. MaxChats]
          /\ \A d \in Crons \ {c} : row'[d] = row[d] /\ linked'[d] = linked[d]
        <3>1. x \in 0 .. MaxChats
            BY <2>1 DEF CronPollType
        <3> HIDE DEF x
        <3>2. PICK r \in Rows : r = row[c]
            BY <2>5 DEF CronCounts
        <3>3. [r EXCEPT !.session = x] \in Rows
            BY <3>1 DEF Rows
        <3>4. row'[c] = [r EXCEPT !.session = x] /\ linked'[c] = x
            BY <2>3, <2>5, <3>2 DEF CronCounts
        <3>5. row' \in [Crons -> Rows] /\ linked' \in [Crons -> 0 .. MaxChats]
            BY <2>3, <2>5, <3>1, <3>2, <3>3 DEF CronCounts
        <3>6. \A d \in Crons \ {c} : row'[d] = row[d] /\ linked'[d] = linked[d]
            BY <2>3, <2>5 DEF CronCounts
        <3>7. /\ row'[c].is = r.is /\ row'[c].next = r.next /\ row'[c].enabled = r.enabled
              /\ row'[c].fires = r.fires /\ row'[c].session = x
            BY <3>4 DEF Rows
        <3> QED
            BY <3>2, <3>4, <3>5, <3>6, <3>7
    <2>7. CronCounts'
        BY <1>1, <2>3, <2>5, <2>6 DEF CronCounts
    <2>8. ASSUME NEW d \in v.todo PROVE ListedSound(v, d)'
        <3>1. ListedSound(q, d) /\ d # c /\ d \in Crons
            BY <2>1, <2>2, <2>4, <2>8 DEF PollSound, ListedSound, CronPollType
        <3> QED
            BY <1>1, <2>2, <2>3, <2>4, <2>6, <3>1 DEF ListedSound
    <2>9. AtJobSound(v)'
        BY <1>1, <2>2, <2>3, <2>4, <2>6 DEF AtJobSound
    <2>10. PollSound(v)'
        BY <2>1, <2>4, <2>8, <2>9 DEF PollSound, AtJob, CronTypes
    <2>11. RowSound(c)'
        <3>1. RunsNow(c)' /\ RowSound(c)
            BY <2>4 DEF RunsNow, CronInv
        <3> QED
            BY <1>1, <2>3, <2>6, <3>1 DEF RowSound
    <2>12. \A y \in CronEditType : EditSound(y) /\ y.cron = c => EditSound(y)'
        <3>1. SameTurn(c)
            BY <2>6 DEF SameTurn
        <3> QED
            BY <1>1, <2>3, <2>4, <3>1, EditsStay
    <2>13. LeavesAlone(p, v, c)
        BY <1>1, <2>2, <2>3, <2>4, <2>6 DEF LeavesAlone
    <2>14. /\ q.pc # "idle" /\ v.pc # "idle" /\ (row[c].is = "gone" => row'[c].is = "gone")
           /\ why' \in [Crons -> SUBSET {"overlap", "never"}]
           /\ UNCHANGED <<now, edit, edits, faults, polling, phase>> /\ Up
        BY <1>1, <2>3, <2>4, <2>5
    <2> HIDE DEF q
    <2> QED
        BY <2>4, <2>7, <2>10, <2>11, <2>12, <2>13, <2>14, PollMovesAt DEF q
<1> QED
    BY <1>2, <1>3

LEMMA MarkWriteKeeps ==
    ASSUME CronInv, NEW p \in CronPolls, MarkWrite(p)
    PROVE  CronInv'
<1> DEFINE q == cronPoll[p]
<1>1. Up /\ q.pc = "write" /\ UNCHANGED <<now, edit, edits, ran, quiet>>
    BY DEF MarkWrite, At, Edits
<1>2. CASE CallThrows(p)
    BY <1>1, <1>2, CallThrowsKeeps DEF AtJob
<1>3. CASE ~CallThrows(p)
    <2>1. q \in CronPollType /\ PollSound(q) /\ cronPoll \in [CronPolls -> CronPollType] /\ CronTypes
        BY CronHas DEF CronInv, CronTyped
    <2>2. PICK c \in Crons : c = q.cron /\ AtJobSound(q)
        BY <1>1, <2>1 DEF PollSound, CronPollType, AtJob
    <2> DEFINE chat == [d \in Crons |-> IF d \in q.todo THEN q.chat[d] ELSE 0]
    <2>3. PICK s \in SUBSET {"overlap", "never"} :
          /\ s = {} => row[c].enabled = q.enabled
          /\ row' = [row EXCEPT ![c].next = q.next] /\ why' = [why EXCEPT ![c] = @ \cup s]
          /\ cronPoll' = [cronPoll EXCEPT ![p] = [IdleCronPoll EXCEPT !.pc = "next",
                                  !.todo = q.todo, !.time = q.time, !.chat = chat]]
          /\ row[c].is = "there" /\ UNCHANGED <<record, polling, phase, linked, faults>>
        <3>1. (IF row[c].enabled # q.enabled THEN {"overlap"} ELSE {}) \in SUBSET {"overlap", "never"}
            OBVIOUS
        <3>2. (IF row[c].enabled # q.enabled THEN {"overlap"} ELSE {}) = {} => row[c].enabled = q.enabled
            OBVIOUS
        <3>3. /\ row' = [row EXCEPT ![c].next = q.next]
              /\ why' = [why EXCEPT ![c] = @ \cup (IF row[c].enabled # q.enabled THEN {"overlap"} ELSE {})]
              /\ cronPoll' = [cronPoll EXCEPT ![p] = [IdleCronPoll EXCEPT !.pc = "next",
                                      !.todo = q.todo, !.time = q.time, !.chat = chat]]
              /\ row[c].is = "there" /\ UNCHANGED <<record, polling, phase, linked, faults>>
            BY <1>3, <2>2 DEF MarkWrite, There, Explain, Continue, NoChat
        <3> QED
            BY <3>1, <3>2, <3>3
    <2> DEFINE w == [IdleCronPoll EXCEPT !.pc = "next", !.todo = q.todo, !.time = q.time,
                                         !.chat = chat]
    <2>4. PICK v \in CronPollType :
              /\ v = w /\ v.pc = "next" /\ v.todo = q.todo /\ v.time = q.time
              /\ v.chat = chat /\ v.cron = NoCron
        <3>0. chat \in [Crons -> 0 .. MaxChats]
            BY <2>1 DEF CronPollType, CronTypes
        <3> HIDE DEF chat
        <3>1. /\ w \in CronPollType /\ w.pc = "next" /\ w.todo = q.todo /\ w.time = q.time
              /\ w.chat = chat /\ w.cron = NoCron
            BY <2>1, <3>0, IdleCron DEF CronPollType
        <3> QED
            BY <3>1
    <2>5. cronPoll' = [cronPoll EXCEPT ![p] = v] /\ cronPoll'[p] = v
        BY <2>1, <2>3, <2>4
    <2> HIDE DEF w
    <2>6. CronCounts /\ why \in [Crons -> SUBSET {"overlap", "never"}]
        BY DEF CronInv, CronTypeOK, CronTyped, CronCounts
    <2>7. PICK r \in Rows : r = row[c]
        BY <2>6 DEF CronCounts
    <2>8. q.next \in 0 .. (LastTime + 1) /\ LastTime \in Nat /\ q.next \in Int
        BY <2>1 DEF CronPollType, CronTypes
    <2>9. /\ row'[c].is = "there" /\ row'[c].next = q.next /\ (row'[c].enabled <=> row[c].enabled)
          /\ (row'[c].fires <=> row[c].fires) /\ row'[c].session = row[c].session
          /\ row' \in [Crons -> Rows]
          /\ \A d \in Crons \ {c} : row'[d] = row[d]
        <3>1. [r EXCEPT !.next = q.next] \in Rows
            BY <2>8 DEF Rows
        <3>2. row'[c] = [r EXCEPT !.next = q.next]
            BY <2>3, <2>6, <2>7 DEF CronCounts
        <3>3. /\ row'[c].is = r.is /\ row'[c].next = q.next /\ row'[c].enabled = r.enabled
              /\ row'[c].fires = r.fires /\ row'[c].session = r.session
            BY <3>2 DEF Rows
        <3>4. row' \in [Crons -> Rows]
            BY <2>3, <2>6, <2>7, <3>1 DEF CronCounts
        <3>5. \A d \in Crons \ {c} : row'[d] = row[d]
            BY <2>3, <2>6 DEF CronCounts
        <3> QED
            BY <2>3, <2>7, <3>3, <3>4, <3>5
    <2>10. /\ why'[c] = why[c] \cup s /\ why' \in [Crons -> SUBSET {"overlap", "never"}]
           /\ \A d \in Crons \ {c} : why'[d] = why[d]
           /\ \A d \in Crons : why[d] \subseteq why'[d]
        BY <2>3, <2>6
    <2>11. CronCounts'
        BY <1>1, <2>3, <2>6, <2>9 DEF CronCounts
    <2>12. ASSUME NEW d \in v.todo PROVE ListedSound(v, d)'
        <3>1. ListedSound(q, d) /\ d # c /\ d \in Crons /\ v.chat[d] = q.chat[d]
            BY <2>1, <2>2, <2>4, <2>12 DEF PollSound, ListedSound, CronPollType
        <3> QED
            BY <1>1, <2>1, <2>3, <2>4, <2>9, <2>10, <3>1 DEF ListedSound, CronTypes
    <2>13. PollSound(v)'
        BY <2>4, <2>12 DEF PollSound, AtJob
    <2>14. q.next <= now[c] + 1 /\ ran[c] \in Int /\ ran[c] >= 0
        BY <1>1, <2>2, CronHas DEF AtJobSound
    <2>15. ASSUME why'[c] = {}
           PROVE  /\ row[c].enabled <=> q.enabled
                  /\ why[c] = {} /\ IF q.enabled THEN q.next > ran[c] ELSE q.next = 0
        BY <1>1, <2>2, <2>3, <2>10, <2>15 DEF AtJobSound
    <2>16. RowSound(c)'
        <3>1. RowSound(c)
            BY DEF CronInv
        <3>2. faults = 0 => \E x \in record[c] : record[c] = {x}
            BY <1>1, <2>2, <2>3 DEF AtJobSound
        <3>3. faults' = 0 => \E x \in record'[c] : record'[c] = {x}
            BY <2>3, <3>2
        <3>4. row'[c].next <= now'[c] + 1 /\ ran'[c] <= now'[c]
            BY <1>1, <2>9, <2>14, <3>1 DEF RowSound
        <3>5. row'[c].enabled => quiet'[c] = 0 \/ "overlap" \in why'[c]
            BY <1>1, <2>3, <2>9, <2>10, <3>1 DEF RowSound
        <3>6. linked'[c] # 0 => row'[c].session = linked'[c] \/ "overlap" \in why'[c]
            BY <1>1, <2>3, <2>9, <2>10, <3>1 DEF RowSound
        <3>7. why'[c] = {} => row'[c].fires
            BY <2>3, <2>9, <2>15, <3>1 DEF RowSound
        <3>8. why'[c] = {} => /\ row'[c].next = 0 => ~row'[c].enabled
                              /\ row'[c].next # 0 => row'[c].next > ran'[c]
            BY <1>1, <2>8, <2>9, <2>14, <2>15
        <3> QED
            BY <2>9, <3>3, <3>4, <3>5, <3>6, <3>7, <3>8 DEF RowSound
    <2>17. ASSUME NEW x \in CronEditType, EditSound(x), x.cron = c PROVE EditSound(x)'
        <3> SUFFICES ASSUME x.pc = "write" PROVE EditSound(x)'
            BY DEF EditSound
        <3>1. \A r2 \in CronPolls : c \in cronPoll'[r2].todo =>
                  c \in cronPoll[r2].todo /\ cronPoll'[r2].time[c] = cronPoll[r2].time[c]
            BY <2>1, <2>4, <2>5
        <3>2. ASSUME why'[c] = {}, x.new.fires PROVE NewTimeSound(x, c)'
            <4>1. NewTimeSound(x, c) /\ why[c] = {}
                BY <2>3, <2>15, <2>17, <3>2 DEF EditSound
            <4>2. x.new.next \in Int /\ x.seen.next \in Int
                BY DEF CronEditType, Rows
            <4>3. row'[c].enabled <=> x.seen.enabled
                BY <2>9, <4>1 DEF NewTimeSound
            <4>4. x.new.next = 0 => ~x.new.enabled
                BY <4>1 DEF NewTimeSound
            <4>5. ASSUME x.new.next # 0, ~x.seen.enabled, x.kind \notin {"rename", "chat"}
                  PROVE  /\ x.new.next > ran'[c]
                         /\ \A p2 \in CronPolls : c \in cronPoll'[p2].todo =>
                                x.new.next > cronPoll'[p2].time[c]
                BY <1>1, <3>1, <4>1, <4>5 DEF NewTimeSound
            <4>6. ASSUME x.new.next # 0, q.next = x.seen.next PROVE x.new.next > ran[c]
                <5>1. CASE x.kind \in {"rename", "chat"}
                    <6>1. x.new.next = q.next
                        BY <2>17, <4>6, <5>1 DEF EditSound
                    <6> QED
                        BY <2>15, <3>2, <4>6, <6>1
                <5>2. CASE x.kind \notin {"rename", "chat"}
                    <6>1. x.new.enabled /\ x.new.next >= q.next
                        BY <2>17, <3>2, <4>6, <5>2 DEF EditSound
                    <6>2. CASE q.enabled
                        BY <2>8, <2>14, <2>15, <3>2, <4>2, <6>1, <6>2
                    <6>3. CASE ~q.enabled
                        BY <1>1, <2>15, <3>2, <4>1, <4>6, <5>2, <6>3 DEF NewTimeSound
                    <6> QED
                        BY <6>2, <6>3
                <5> QED
                    BY <5>1, <5>2
            <4>7. row'[c].next = x.seen.next => q.next = x.seen.next
                BY <2>9
            <4> QED
                BY <1>1, <4>3, <4>4, <4>5, <4>6, <4>7 DEF NewTimeSound
        <3> QED
            BY <1>1, <2>3, <2>9, <2>17, <3>2 DEF EditSound
    <2>18. LeavesAlone(p, v, c)
        BY <1>1, <2>1, <2>2, <2>3, <2>4, <2>9, <2>10 DEF LeavesAlone
    <2>19. /\ q.pc # "idle" /\ v.pc # "idle" /\ (row[c].is = "gone" => row'[c].is = "gone")
           /\ UNCHANGED <<now, edit, edits, faults, polling, phase>> /\ Up
        BY <1>1, <2>3, <2>4
    <2> HIDE DEF q
    <2> QED
        BY <2>5, <2>10, <2>11, <2>13, <2>16, <2>17, <2>18, <2>19, PollMovesAt DEF q
<1> QED
    BY <1>2, <1>3

LEMMA PollStarts ==
    ASSUME CronInv, Poll
    PROVE  CronInv'
<1>1. PICK p \in CronPolls : cronPoll[p].pc = "idle" /\ StartCronPoll(p)
    <2>1. \E q \in CronPolls : At(q, "idle")
        BY DEF Poll
    <2> DEFINE p == CHOOSE q \in CronPolls : At(q, "idle")
    <2>2. p \in CronPolls /\ At(p, "idle")
        BY <2>1
    <2>3. StartCronPoll(p)
        BY DEF Poll
    <2> HIDE DEF p
    <2> QED
        BY <2>2, <2>3 DEF At
<1> DEFINE q == cronPoll[p]
           w == [q EXCEPT !.pc = "list"]
<1>2. /\ phase = "up" /\ ~polling /\ polling' = TRUE /\ cronPoll' = [cronPoll EXCEPT ![p].pc = "list"]
      /\ UNCHANGED <<row, now, phase, edit, edits, ran, quiet, linked, record, why, faults>>
    BY <1>1 DEF StartCronPoll, Goto, Times, Edits, Runs
<1>3. /\ q \in CronPollType /\ PollSound(q) /\ cronPoll \in [CronPolls -> CronPollType] /\ CronTypes
      /\ \A r \in CronPolls : cronPoll[r].pc = "idle"
    BY <1>2, CronHas DEF CronInv, CronTyped, CronTypeOK, Up
<1>4. PICK v \in CronPollType : v = w /\ v.pc = "list" /\ v.todo = {} /\ v.cron = NoCron
    <2>1. q.todo = {} /\ q.cron = NoCron
        BY <1>1, <1>3 DEF PollSound, AtJob
    <2>2. w \in CronPollType /\ w.pc = "list" /\ w.todo = {} /\ w.cron = NoCron
        BY <1>3, <2>1 DEF CronPollType
    <2> QED
        BY <2>2
<1>5. cronPoll' = [cronPoll EXCEPT ![p] = v]
    BY <1>2, <1>3, <1>4
<1> HIDE DEF w
<1>6. PollSound(v)'
    BY <1>4 DEF PollSound, AtJob
<1>7. q.cron = NoCron
    BY <1>1, <1>3 DEF PollSound, AtJob
<1>8. LeavesAlone(p, v, NoCron) /\ NoCron \notin Crons /\ FaultsGrow
    BY <1>2, <1>3, <1>4, <1>7 DEF LeavesAlone, CronTypes, FaultsGrow
<1>9. /\ \A d \in Crons : RowSound(d)'
      /\ \A r \in CronPolls : PollSound(cronPoll[r])'
      /\ \A e \in Editors : EditSound(edit[e])'
    BY <1>2, <1>3, <1>5, <1>6, <1>8, PollActs
<1>10. CronTyped' /\ CronCounts'
    BY <1>2, <1>5 DEF CronInv, CronTyped, CronCounts, CronTypeOK
<1>11. cronPoll'[p].pc = "list" /\ \A r \in CronPolls \ {p} : cronPoll'[r].pc = "idle"
    BY <1>3, <1>4, <1>5
<1>12. PollsAlone' /\ StaysUp' /\ QuietWhenStopped'
    BY <1>2, <1>11 DEF PollsAlone, StaysUp, QuietWhenStopped
<1>13. CronTypeOK'
    BY <1>2, <1>9, <1>10, <1>11, CronIsTyped
<1> QED
    BY <1>9, <1>10, <1>12, <1>13 DEF CronInv

\* The founder changes job c alone, and not what the polls keep of it.
OnlyJob(c) ==
    /\ \A d \in Crons \ {c} :
          /\ row'[d] = row[d] /\ quiet'[d] = quiet[d] /\ linked'[d] = linked[d]
          /\ record'[d] = record[d] /\ why'[d] = why[d]
    /\ row[c].is # "none" => row'[c].is # "none"
    /\ row[c].is # "none" /\ row'[c].is = "there" => row[c].is = "there" /\ record'[c] = record[c]
    /\ quiet'[c] = 2 => quiet[c] = 2
    /\ why[c] \subseteq why'[c] /\ linked'[c] \in {linked[c], 0}

\* The edits of that job are shown to be sound, the others are left alone.
EditsOf(c) ==
    \A f \in Editors : EditSound(edit[f])' \/ (edit'[f] = edit[f] /\ edit[f].cron # c)

LEMMA FounderKeeps ==
    ASSUME CronInv, NEW c \in Crons, OnlyJob(c), EditsOf(c), RowSound(c)',
           UNCHANGED <<cronPoll, polling, now, phase, ran, faults>>, CronCounts',
           edit' \in [Editors -> CronEditType], why' \in [Crons -> SUBSET {"overlap", "never"}]
    PROVE  CronInv'
<1>1. /\ CronTypes /\ FaultsGrow
      /\ \A d \in Crons : now'[d] \in Nat /\ now'[d] >= now[d]
      /\ \A p \in CronPolls : cronPoll'[p] = cronPoll[p]
      /\ \A d \in Crons : RunsNow(d) => RunsNow(d)'
    BY CronHas DEF FaultsGrow, RunsNow
<1>2. ASSUME NEW d \in Crons PROVE RowSound(d)'
    <2>1. CASE d # c
        BY <1>1, <2>1, RowStays DEF OnlyJob
    <2> QED
        BY <2>1
<1>3. ASSUME NEW p \in CronPolls PROVE PollSound(cronPoll[p])'
    <2>1. \A d \in Crons :
               /\ row[d].is # "none" => row'[d].is # "none"
               /\ row[d].is # "none" /\ row'[d].is = "there" =>
                      row[d].is = "there" /\ record'[d] = record[d]
               /\ now'[d] \in Nat /\ now'[d] >= now[d]
               /\ quiet'[d] = 2 => quiet[d] = 2
               /\ why[d] \subseteq why'[d] /\ ran'[d] = ran[d] /\ linked'[d] \in {linked[d], 0}
        BY <1>1 DEF OnlyJob
    <2> QED
        BY <1>1, <2>1, PollStays
<1>4. ASSUME NEW f \in Editors PROVE EditSound(edit[f])'
    <2>1. CASE edit'[f] = edit[f] /\ edit[f].cron # c /\ edit[f].pc = "write"
        <3>1. PICK x \in CronEditType : x = edit[f] /\ EditSound(edit[f])
            BY CronHas
        <3>2. x.pc = "write" /\ x.cron \in Crons \ {c} /\ EditSound(x)
            BY <1>1, <2>1, <3>1 DEF EditSound, CronTypes
        <3>3. PICK d \in Crons \ {c} : d = x.cron
            BY <3>2
        <3>4. row'[d] = row[d] /\ ran'[d] = ran[d] /\ why'[d] = why[d]
            BY DEF OnlyJob
        <3>5. EditSound(x)'
            BY <1>1, <3>2, <3>3, <3>4, EditStays
        <3>6. edit'[f] = x
            BY <2>1, <3>1
        <3> QED
            BY <3>5, <3>6, EditIsSound
    <2>2. CASE edit'[f] = edit[f] /\ edit[f].pc # "write"
        BY <2>2 DEF EditSound
    <2> QED
        BY <2>1, <2>2 DEF EditsOf
<1>5. CronTyped'
    BY DEF CronInv, CronTyped
<1>6. Up' => (polling' <=> \E q \in CronPolls : cronPoll'[q].pc # "idle")
    BY DEF CronInv, CronTypeOK, Up
<1>7. /\ phase' \in {"up", "stopping", "stopped", "down"} /\ polling' \in BOOLEAN
      /\ PollsAlone' /\ QuietWhenStopped'
    BY DEF CronInv, CronTypeOK, PollsAlone, QuietWhenStopped
<1>8. StaysUp'
    <2>1. ASSUME NEW d \in Crons, row[d].is = "gone" PROVE row'[d].is = "gone"
        <3>1. row'[d] \in Rows
            BY DEF CronCounts
        <3> QED
            BY <2>1, <3>1 DEF OnlyJob, Rows
    <2> QED
        BY <2>1 DEF CronInv, StaysUp
<1>9. CronTypeOK'
    BY <1>3, <1>5, <1>6, <1>7, CronIsTyped
<1> QED
    BY <1>2, <1>3, <1>4, <1>5, <1>7, <1>8, <1>9 DEF CronInv

LEMMA CreateKeeps ==
    ASSUME CronInv, NEW c \in Crons, Create(c)
    PROVE  CronInv'
<1>1. PICK enabled \in BOOLEAN, fires \in BOOLEAN :
          /\ row' = [row EXCEPT ![c] = NewRow(enabled, fires, NextRunAt(fires, now[c]))]
          /\ quiet' = [quiet EXCEPT ![c] = IF enabled THEN 0 ELSE 1]
          /\ why' = [why EXCEPT ![c] = @ \cup IF fires THEN {} ELSE {"never"}]
    BY DEF Create, Explain
<1>2. /\ row[c].is = "none" /\ edits < MaxEdits /\ edits' = edits + 1
      /\ UNCHANGED <<cronPoll, polling, now, phase, edit, ran, linked, record, faults>>
    BY DEF Create, Request, Times
<1>3. CronCounts /\ why \in [Crons -> SUBSET {"overlap", "never"}] /\ MaxEdits \in Nat
      /\ edit \in [Editors -> CronEditType] /\ CronTypes /\ RowSound(c)
    BY CronHas, CronAssumption DEF CronInv, CronTypeOK, CronTyped, CronCounts
<1>4. now[c] \in 1 .. LastTime /\ ran[c] = 0 /\ linked[c] = 0 /\ LastTime \in Nat
    BY <1>2, <1>3, CronHas DEF RowSound, CronTypes
<1> DEFINE next == NextRunAt(fires, now[c])
           new == NewRow(enabled, fires, next)
<1>5. next \in 1 .. (LastTime + 1) /\ next <= now[c] + 1
    BY <1>4 DEF NextRunAt
<1>6. row'[c] = new
    BY <1>1, <1>3 DEF CronCounts
<1> HIDE DEF next
<1>7. PICK r \in Rows : /\ r = new /\ r.is = "there" /\ r.enabled = enabled /\ r.next = next
                        /\ r.fires = fires
    <2>1. next \in 0 .. (LastTime + 1)
        BY <1>4, <1>5
    <2>2. 0 \in 0 .. MaxChats
        BY <1>3 DEF CronTypes
    <2>3. new = [is |-> "there", enabled |-> enabled, next |-> next, session |-> 0, fires |-> fires]
        BY DEF NewRow, NoChat
    <2> HIDE DEF new
    <2> QED
        BY <2>1, <2>2, <2>3 DEF Rows
<1> HIDE DEF new
<1>8. row'[c] = r /\ \A d \in Crons \ {c} : row'[d] = row[d]
    BY <1>1, <1>3, <1>6, <1>7 DEF CronCounts
<1>9. row' \in [Crons -> Rows]
    BY <1>1, <1>3, <1>6, <1>7 DEF CronCounts
<1>10. /\ quiet'[c] = IF enabled THEN 0 ELSE 1
       /\ quiet' \in [Crons -> 0 .. 2] /\ \A d \in Crons \ {c} : quiet'[d] = quiet[d]
    BY <1>1, <1>3 DEF CronCounts
<1>11. /\ why'[c] = why[c] \cup IF fires THEN {} ELSE {"never"}
       /\ why' \in [Crons -> SUBSET {"overlap", "never"}] /\ \A d \in Crons \ {c} : why'[d] = why[d]
    <2> DEFINE s == IF fires THEN {} ELSE {"never"}
    <2>1. s \in SUBSET {"overlap", "never"} /\ why' = [why EXCEPT ![c] = @ \cup s]
        BY <1>1
    <2> HIDE DEF s
    <2>2. /\ why'[c] = why[c] \cup s /\ \A d \in Crons \ {c} : why'[d] = why[d]
          /\ why' \in [Crons -> SUBSET {"overlap", "never"}]
        BY <1>3, <2>1
    <2> QED
        BY <2>2 DEF s
<1>12. CronCounts'
    <2>1. edits' \in 0 .. MaxEdits
        BY <1>2, <1>3 DEF CronCounts
    <2> QED
        BY <1>2, <1>3, <1>9, <1>10, <2>1 DEF CronCounts
<1>13. OnlyJob(c)
    BY <1>2, <1>8, <1>10, <1>11 DEF OnlyJob
<1>14. RowSound(c)'
    <2>1. why'[c] = {} => fires
        BY <1>11
    <2>2. row'[c].is = "there" /\ row'[c].next = next /\ (row'[c].enabled <=> enabled)
          /\ (row'[c].fires <=> fires)
        BY <1>7, <1>8
    <2>3. /\ row'[c].next <= now'[c] + 1 /\ ran'[c] <= now'[c] /\ row'[c].next > ran'[c]
          /\ row'[c].next # 0 /\ ran'[c] = 0 /\ linked'[c] = 0
        BY <1>2, <1>4, <1>5, <2>2
    <2>4. row'[c].enabled => quiet'[c] = 0
        BY <1>10, <2>2
    <2> QED
        BY <2>1, <2>2, <2>3, <2>4 DEF RowSound
<1>15. EditsOf(c)
    <2>1. ASSUME NEW f \in Editors, edit[f].cron = c PROVE edit[f].pc # "write"
        BY <1>2, <2>1, CronHas DEF EditSound
    <2>2. ASSUME NEW f \in Editors, edit[f].pc # "write" PROVE EditSound(edit[f])'
        BY <1>2, <2>2 DEF EditSound
    <2> QED
        BY <1>2, <2>1, <2>2 DEF EditsOf
<1> QED
    BY <1>2, <1>3, <1>11, <1>12, <1>13, <1>14, <1>15, FounderKeeps

\* The next time an edit has counted for the job it has read.
LEMMA ReadIsSound ==
    ASSUME CronInv, NEW c \in Edited, NEW kind \in Kinds,
           NEW fires \in BOOLEAN, row[c].is = "there",
           kind # "reschedule" => fires = row[c].fires,
           NEW session \in 0 .. MaxChats, kind # "chat" => session = row[c].session,
           UNCHANGED <<row, cronPoll, now, ran, why, faults>>
    PROVE  \E d \in CronEditType :
              /\ d = [pc |-> "write", kind |-> kind, cron |-> c, seen |-> row[c],
                      new |-> Updated(kind, row[c], fires, session, now[c])]
              /\ EditSound(d)'
<1>1. CronTypes /\ c \in Crons /\ RowSound(c)
    BY CronHas DEF CronTypes, CronInv
<1>2. PICK r \in Rows : r = row[c]
    BY <1>1, CronHas
<1>3. /\ now[c] \in 1 .. LastTime /\ ran[c] \in 0 .. LastTime /\ LastTime \in Nat
      /\ r.next \in 0 .. (LastTime + 1) /\ r.enabled \in BOOLEAN
    BY <1>1, <1>2, CronHas DEF CronTypes, Rows
<1> DEFINE enabled == CASE kind = "enable" -> TRUE [] kind = "disable" -> FALSE
                        [] OTHER -> r.enabled
           next == IF kind \in {"rename", "chat"} THEN r.next
                   ELSE IF enabled THEN NextRunAt(fires, now[c]) ELSE 0
           new == [r EXCEPT !.enabled = enabled, !.fires = fires, !.session = session, !.next = next]
<1>4. Updated(kind, row[c], fires, session, now[c]) = new
    BY <1>2 DEF Updated, Null
<1>5. enabled \in BOOLEAN /\ (enabled <=> (kind = "enable" \/ (kind # "disable" /\ r.enabled)))
    BY <1>3
<1> HIDE DEF enabled
<1>6. /\ next \in 0 .. (LastTime + 1)
      /\ kind \in {"rename", "chat"} => next = r.next
      /\ kind \notin {"rename", "chat"} /\ ~enabled => next = 0
      /\ kind \notin {"rename", "chat"} /\ enabled => next # 0 /\ next <= now[c] + 1
      /\ kind \notin {"rename", "chat"} /\ enabled /\ fires => next = now[c] + 1
    BY <1>3 DEF NextRunAt
<1> HIDE DEF next
<1>7. PICK n \in Rows :
          /\ n = new /\ n.is = "there" /\ n.next = next /\ (n.enabled <=> enabled)
          /\ (n.fires <=> fires) /\ n.session = session
    <2>1. new \in Rows /\ new.is = r.is /\ new.next = next /\ new.enabled = enabled
          /\ new.fires = fires /\ new.session = session
        BY <1>5, <1>6 DEF Rows
    <2> HIDE DEF new
    <2> QED
        BY <1>2, <2>1
<1> HIDE DEF new
<1> DEFINE d == [pc |-> "write", kind |-> kind, cron |-> c, seen |-> r, new |-> n]
<1>8. PICK x \in CronEditType :
          x = d /\ x.pc = "write" /\ x.kind = kind /\ x.cron = c /\ x.seen = r /\ x.new = n
    <2>1. d \in CronEditType
        BY <1>1 DEF CronEditType
    <2> QED
        BY <2>1
<1> HIDE DEF d
<1>9. next <= now[c] + 1
    BY <1>1, <1>2, <1>3, <1>5, <1>6 DEF RowSound
<1>10. ASSUME why[c] = {}, fires PROVE NewTimeSound(x, c)'
    <2>1. row'[c].enabled <=> x.seen.enabled
        BY <1>2, <1>8
    <2>2. r.next = 0 => ~r.enabled
        BY <1>1, <1>2, <1>10 DEF RowSound
    <2>3. next = 0 => ~enabled
        BY <1>5, <1>6, <2>2
    <2>4. ASSUME next # 0, kind \notin {"rename", "chat"}
          PROVE  next > ran[c] /\ \A p \in CronPolls : c \in cronPoll[p].todo => next > cronPoll[p].time[c]
        <3>1. next = now[c] + 1 /\ ran[c] <= now[c]
            BY <1>1, <1>6, <1>10, <2>4 DEF RowSound
        <3>2. ASSUME NEW p \in CronPolls, c \in cronPoll[p].todo
              PROVE  cronPoll[p].time[c] <= now[c] /\ cronPoll[p].time[c] \in Int
            BY <1>1, <3>2, CronHas DEF PollSound, ListedSound, CronPollType
        <3> QED
            BY <1>3, <3>1, <3>2
    <2>5. ASSUME next # 0, faults = 0, ~RunsNow(c) PROVE next > ran[c]
        <3>1. CASE kind \in {"rename", "chat"}
            BY <1>1, <1>2, <1>6, <1>10, <2>5, <3>1 DEF RowSound
        <3> QED
            BY <2>4, <2>5, <3>1
    <2>6. RunsNow(c)' <=> RunsNow(c)
        BY DEF RunsNow
    <2>7. x.new.next = next /\ (x.new.enabled <=> enabled) /\ x.kind = kind
        BY <1>7, <1>8
    <2> QED
        BY <2>1, <2>3, <2>4, <2>5, <2>6, <2>7 DEF NewTimeSound
<1>11. EditSound(x)'
    <2>1. x.cron \in Edited /\ x.new.is = "there" /\ row'[x.cron].is # "none"
        BY <1>7, <1>8
    <2>2. x.new.next <= now'[c] + 1
        BY <1>7, <1>8, <1>9
    <2>3. x.new.enabled <=> (x.kind = "enable" \/ (x.kind # "disable" /\ x.seen.enabled))
        BY <1>5, <1>7, <1>8
    <2>4. x.kind # "chat" => x.new.session = x.seen.session
        BY <1>2, <1>7, <1>8
    <2>5. x.kind \in {"rename", "chat"} => x.new.next = x.seen.next
        BY <1>6, <1>7, <1>8
    <2>6. x.kind \notin {"rename", "chat"} =>
              IF x.new.enabled THEN x.new.next >= x.seen.next \/ ~x.new.fires ELSE x.new.next = 0
        <3>1. r.next <= now[c] + 1
            BY <1>1, <1>2 DEF RowSound
        <3> QED
            BY <1>3, <1>6, <1>7, <1>8, <3>1
    <2>7. why'[c] = {} /\ row'[c].is = "there" /\ x.new.fires => NewTimeSound(x, c)'
        BY <1>7, <1>8, <1>10
    <2> QED
        BY <1>8, <2>1, <2>2, <2>3, <2>4, <2>5, <2>6, <2>7 DEF EditSound
<1> QED
    BY <1>2, <1>4, <1>7, <1>8, <1>11 DEF d

LEMMA EditBegins ==
    ASSUME CronInv, BeginEdit
    PROVE  CronInv'
<1>1. PICK e \in Editors : edit[e].pc = "idle" /\ ReadForEdit(e)
    <2>1. \E f \in Editors : edit[f].pc = "idle"
        BY DEF BeginEdit
    <2> DEFINE e == CHOOSE f \in Editors : edit[f].pc = "idle"
    <2>2. e \in Editors /\ edit[e].pc = "idle"
        BY <2>1
    <2>3. ReadForEdit(e)
        BY DEF BeginEdit
    <2> HIDE DEF e
    <2> QED
        BY <2>2, <2>3
<1>2. /\ edits < MaxEdits /\ edits' = edits + 1
      /\ UNCHANGED <<row, cronPoll, polling, now, phase, ran, quiet, linked, record, why, faults>>
    BY <1>1 DEF ReadForEdit, Request, Times, Runs
<1>3. PICK c \in Edited, kind \in Kinds, fires \in BOOLEAN, session \in 0 .. MaxChats :
          /\ row[c].is = "there"
          /\ kind # "reschedule" => fires = row[c].fires
          /\ kind # "chat" => session = row[c].session
          /\ edit' = [edit EXCEPT ![e] = [pc |-> "write", kind |-> kind, cron |-> c,
                          seen |-> row[c], new |-> Updated(kind, row[c], fires, session, now[c])]]
    <2>1. ASSUME NEW c \in Edited
          PROVE  row[c].session \in 0 .. MaxChats /\ ({NoChat} \cup Fresh(c)) \subseteq 0 .. MaxChats
        <3>1. c \in Crons /\ MaxChats \in Nat
            BY CronHas DEF CronTypes
        <3>2. row[c] \in Rows
            BY <3>1, CronHas
        <3> QED
            BY <3>1, <3>2 DEF Rows, Fresh, NoChat
    <2>2. PICK c \in Edited, kind \in Kinds, fires \in BOOLEAN :
          \E session \in IF kind = "chat" THEN {NoChat} \cup Fresh(c) ELSE {row[c].session} :
             /\ There(c)
             /\ kind # "reschedule" => fires = row[c].fires
             /\ edit' = [edit EXCEPT ![e] = [pc |-> "write", kind |-> kind, cron |-> c,
                             seen |-> row[c],
                             new |-> Updated(kind, row[c], fires, session, now[c])]]
        BY <1>1 DEF ReadForEdit
    <2>3. PICK session \in IF kind = "chat" THEN {NoChat} \cup Fresh(c) ELSE {row[c].session} :
             /\ There(c)
             /\ kind # "reschedule" => fires = row[c].fires
             /\ edit' = [edit EXCEPT ![e] = [pc |-> "write", kind |-> kind, cron |-> c,
                             seen |-> row[c],
                             new |-> Updated(kind, row[c], fires, session, now[c])]]
        BY <2>2
    <2>4. session \in 0 .. MaxChats /\ (kind # "chat" => session = row[c].session)
        BY <2>1
    <2> QED
        BY <2>3, <2>4 DEF There
<1>4. PICK d \in CronEditType : EditSound(d)' /\ edit' = [edit EXCEPT ![e] = d]
    BY <1>2, <1>3, ReadIsSound
<1>5. /\ CronCounts /\ why \in [Crons -> SUBSET {"overlap", "never"}] /\ MaxEdits \in Nat
      /\ edit \in [Editors -> CronEditType] /\ CronTypes
    BY CronHas, CronAssumption DEF CronInv, CronTypeOK, CronTyped, CronCounts
<1>6. /\ edit' \in [Editors -> CronEditType] /\ edit'[e] = d
      /\ \A f \in Editors \ {e} : edit'[f] = edit[f]
    BY <1>4, <1>5
<1>7. CronCounts'
    <2>1. edits' \in 0 .. MaxEdits
        BY <1>2, <1>5 DEF CronCounts
    <2> QED
        BY <1>2, <1>5, <2>1 DEF CronCounts
<1>8. FaultsGrow /\ \A b \in Crons : now'[b] \in Nat /\ now'[b] >= now[b] /\ (RunsNow(b) => RunsNow(b)')
    BY <1>2, CronHas DEF FaultsGrow, RunsNow
<1>9. ASSUME NEW f \in Editors PROVE EditSound(edit[f])'
    <2>1. CASE f = e
        BY <1>4, <1>6, <2>1, EditIsSound
    <2>2. CASE f # e
        <3>1. PICK x \in CronEditType : x = edit[f] /\ EditSound(edit[f])
            BY CronHas
        <3>2. EditSound(x)'
            <4>1. CASE x.pc # "write"
                BY <4>1 DEF EditSound
            <4>2. CASE x.pc = "write"
                <5>1. EditSound(x) /\ x.cron \in Crons
                    BY <1>5, <3>1, <4>2 DEF EditSound, CronTypes
                <5>2. PICK b \in Crons : b = x.cron
                    BY <5>1
                <5> QED
                    BY <1>2, <1>8, <5>1, <5>2, EditStays
            <4> QED
                BY <4>1, <4>2
        <3>3. edit'[f] = x
            BY <1>6, <2>2, <3>1
        <3> QED
            BY <3>2, <3>3, EditIsSound
    <2> QED
        BY <2>1, <2>2
<1>10. EditsOf(c) /\ c \in Crons
    BY <1>5, <1>9 DEF EditsOf, CronTypes
<1>11. OnlyJob(c) /\ RowSound(c)'
    <2>1. RowSound(c)'
        BY <1>2, <1>8, <1>10, RowStays
    <2> QED
        BY <1>2, <2>1 DEF OnlyJob
<1> QED
    BY <1>2, <1>5, <1>6, <1>7, <1>10, <1>11, FounderKeeps

LEMMA WriteEditKeeps ==
    ASSUME CronInv, NEW e \in Editors, WriteEdit(e)
    PROVE  CronInv'
<1>1. /\ CronCounts /\ why \in [Crons -> SUBSET {"overlap", "never"}]
      /\ edit \in [Editors -> CronEditType] /\ CronTypes
    BY CronHas DEF CronInv, CronTypeOK, CronTyped, CronCounts
<1>2. PICK d \in CronEditType : d = edit[e] /\ EditSound(d) /\ d.pc = "write"
    BY <1>1, CronHas DEF WriteEdit
<1>3. PICK c \in Crons : c = d.cron
    BY <1>1, <1>2 DEF EditSound, CronTypes
<1>4. /\ edit' = [edit EXCEPT ![e] = NoEdit]
      /\ UNCHANGED <<cronPoll, polling, now, phase, edits, ran, faults>>
    BY DEF WriteEdit, Times
<1>5. /\ edit' \in [Editors -> CronEditType] /\ edit'[e] = NoEdit
      /\ \A f \in Editors \ {e} : edit'[f] = edit[f]
    BY <1>1, <1>4, IdleCron
<1>6. EditSound(edit[e])'
    <2>1. PICK v : v = NoEdit
        OBVIOUS
    <2> QED
        BY <1>5, IdleCron DEF EditSound, NoEdit
<1>7. FaultsGrow /\ \A b \in Crons : now'[b] \in Nat /\ now'[b] >= now[b] /\ (RunsNow(b) => RunsNow(b)')
    BY <1>4, CronHas DEF FaultsGrow, RunsNow
<1>8. ASSUME OnlyJob(c), RowSound(c)', CronCounts', why' \in [Crons -> SUBSET {"overlap", "never"}],
             \A x \in CronEditType : EditSound(x) /\ x.cron = c /\ (\E f \in Editors \ {e} : edit[f] = x)
                 => EditSound(x)'
      PROVE  CronInv'
    <2>1. EditsOf(c)
        <3>1. ASSUME NEW f \in Editors \ {e}, edit[f].cron = c PROVE EditSound(edit[f])'
            <4>1. PICK x \in CronEditType : x = edit[f] /\ EditSound(edit[f])
                BY CronHas
            <4>2. EditSound(x)' /\ edit'[f] = x
                BY <1>5, <1>8, <3>1, <4>1
            <4> QED
                BY <4>2, EditIsSound
        <3> QED
            BY <1>5, <1>6, <3>1 DEF EditsOf
    <2> QED
        BY <1>1, <1>4, <1>5, <1>8, <2>1, FounderKeeps
<1>9. CASE row[c].is # "there"
    <2>1. UNCHANGED <<row, quiet, linked, record, why>>
        BY <1>2, <1>3, <1>9 DEF WriteEdit, There
    <2>2. OnlyJob(c) /\ CronCounts' /\ why' \in [Crons -> SUBSET {"overlap", "never"}]
        BY <1>1, <1>4, <2>1 DEF OnlyJob, CronCounts
    <2>3. RowSound(c)'
        BY <1>4, <1>7, <2>1, RowStays
    <2>4. \A x \in CronEditType : EditSound(x) /\ x.cron = c => EditSound(x)'
        BY <1>4, <1>7, <2>1, EditStays
    <2> QED
        BY <1>8, <2>2, <2>3, <2>4
<1>10. CASE row[c].is = "there"
    <2>1. /\ row[c].is = "there" /\ Wanted(c, d.kind)
          /\ IF d.kind = "delete"
             THEN /\ row' = [row EXCEPT ![c] = [NoRow EXCEPT !.is = "gone"]]
                  /\ record' = [record EXCEPT ![c] = {}]
                  /\ UNCHANGED <<why, linked>>
             ELSE /\ row' = [row EXCEPT ![c] = d.new]
                  /\ linked' = [linked EXCEPT ![c] = IF d.kind = "chat" THEN 0 ELSE @]
                  /\ why' = [why EXCEPT ![c] = @ \cup ((IF Overwrites(e) \/ Racing(e)
                                                        THEN {"overlap"} ELSE {})
                                                       \cup IF d.new.fires THEN {} ELSE {"never"})]
                  /\ UNCHANGED record
        BY <1>2, <1>3, <1>10 DEF WriteEdit, There, Explain, NoChat
    <2>2. /\ quiet' \in [Crons -> 0 .. 2] /\ \A b \in Crons \ {c} : quiet'[b] = quiet[b]
          /\ quiet'[c] = 2 => quiet[c] = 2
          /\ d.kind = "enable" => quiet'[c] = 0
          /\ d.kind \notin {"enable", "disable", "delete"} => quiet'[c] = quiet[c]
        <3> DEFINE z == CASE d.kind = "enable" -> 0
                          [] d.kind \in {"disable", "delete"} /\ quiet[c] = 0 -> 1
                          [] OTHER -> quiet[c]
        <3>1. quiet[c] \in 0 .. 2
            BY <1>1 DEF CronCounts
        <3>2. quiet' = [quiet EXCEPT ![c] = z]
            BY <2>1 DEF Wanted
        <3>3. z \in 0 .. 2
            BY <3>1
        <3>4. /\ z = 2 => quiet[c] = 2
              /\ d.kind = "enable" => z = 0
              /\ d.kind \notin {"enable", "disable", "delete"} => z = quiet[c]
            OBVIOUS
        <3> HIDE DEF z
        <3> QED
            BY <1>1, <3>2, <3>3, <3>4 DEF CronCounts
    <2>3. CASE d.kind = "delete"
        <3> DEFINE g == [NoRow EXCEPT !.is = "gone"]
        <3>1. row' = [row EXCEPT ![c] = g] /\ record' = [record EXCEPT ![c] = {}] /\ UNCHANGED <<why, linked>>
            BY <2>1, <2>3
        <3>2. g \in Rows /\ g.is = "gone" /\ g.next = 0
            <4> DEFINE no == FALSE
                       yes == TRUE
            <4>1. no \in BOOLEAN /\ yes \in BOOLEAN /\ LastTime \in Nat /\ MaxChats \in Nat
                BY <1>1 DEF CronTypes
            <4>2. NoRow = [is |-> "none", enabled |-> no, next |-> 0, session |-> 0, fires |-> yes]
                BY DEF NoRow, Null, NoChat
            <4> HIDE DEF no, yes
            <4> QED
                BY <4>1, <4>2 DEF Rows
        <3> HIDE DEF g
        <3>3. /\ row'[c] = g /\ row' \in [Crons -> Rows] /\ \A b \in Crons \ {c} : row'[b] = row[b]
              /\ record'[c] = {} /\ record' \in [Crons -> SUBSET {"success", "failed"}]
              /\ \A b \in Crons \ {c} : record'[b] = record[b]
            BY <1>1, <3>1, <3>2 DEF CronCounts
        <3>4. OnlyJob(c) /\ CronCounts' /\ why' \in [Crons -> SUBSET {"overlap", "never"}]
            BY <1>1, <1>4, <2>2, <3>1, <3>2, <3>3 DEF OnlyJob, CronCounts
        <3>5. RowSound(c)'
            <4>1. RowSound(c) /\ now[c] \in Int /\ now[c] >= 1
                BY <1>1, CronHas DEF CronInv, CronTypes
            <4> QED
                BY <1>4, <3>2, <3>3, <4>1 DEF RowSound
        <3>6. \A x \in CronEditType : EditSound(x) /\ x.cron = c => EditSound(x)'
            BY <1>4, <3>2, <3>3 DEF EditSound
        <3> QED
            BY <1>8, <3>4, <3>5, <3>6
    <2>4. CASE d.kind # "delete"
        <3>1. PICK s \in SUBSET {"overlap", "never"} :
              /\ why' = [why EXCEPT ![c] = @ \cup s]
              /\ Overwrites(e) \/ Racing(e) => "overlap" \in s
              /\ ~d.new.fires => "never" \in s
            <4> DEFINE s == (IF Overwrites(e) \/ Racing(e) THEN {"overlap"} ELSE {})
                            \cup IF d.new.fires THEN {} ELSE {"never"}
            <4>1. why' = [why EXCEPT ![c] = @ \cup s]
                BY <2>1, <2>4
            <4>2. /\ s \in SUBSET {"overlap", "never"}
                  /\ Overwrites(e) \/ Racing(e) => "overlap" \in s
                  /\ ~d.new.fires => "never" \in s
                OBVIOUS
            <4> HIDE DEF s
            <4> QED
                BY <4>1, <4>2
        <3>2. /\ row' = [row EXCEPT ![c] = d.new] /\ UNCHANGED record
              /\ linked' = [linked EXCEPT ![c] = IF d.kind = "chat" THEN 0 ELSE @]
            BY <2>1, <2>4
        <3>2a. /\ linked' \in [Crons -> 0 .. MaxChats]
               /\ linked'[c] = IF d.kind = "chat" THEN 0 ELSE linked[c]
               /\ \A b \in Crons \ {c} : linked'[b] = linked[b]
            BY <1>1, <3>2 DEF CronCounts, CronTypes
        <3>3. d.new \in Rows /\ d.new.is = "there" /\ d.new.next <= now[c] + 1
            BY <1>2, <1>3 DEF CronEditType, EditSound
        <3>4. /\ row'[c] = d.new /\ row' \in [Crons -> Rows]
              /\ \A b \in Crons \ {c} : row'[b] = row[b]
            BY <1>1, <3>2, <3>3 DEF CronCounts
        <3>5. /\ why'[c] = why[c] \cup s /\ why' \in [Crons -> SUBSET {"overlap", "never"}]
              /\ \A b \in Crons \ {c} : why'[b] = why[b]
            BY <1>1, <3>1
        <3>6. OnlyJob(c) /\ CronCounts'
            BY <1>1, <1>4, <1>10, <2>2, <3>2, <3>2a, <3>3, <3>4, <3>5 DEF OnlyJob, CronCounts
        <3>7. /\ "overlap" \notin why'[c] =>
                    /\ row[c].enabled = d.seen.enabled \/ d.kind \in {"enable", "disable"}
                    /\ row[c].next = d.seen.next
                    /\ row[c].session = d.seen.session \/ d.kind = "chat"
              /\ "overlap" \notin why'[c] => "overlap" \notin why[c]
              /\ why'[c] = {} => d.new.fires /\ why[c] = {}
            BY <1>2, <1>3, <3>1, <3>5 DEF Overwrites
        <3>8. RowSound(c)'
            <4>1. RowSound(c)
                BY DEF CronInv
            <4>2. row'[c].next <= now'[c] + 1 /\ ran'[c] <= now'[c]
                BY <1>4, <3>3, <3>4, <4>1 DEF RowSound
            <4>3. d.new.enabled <=> (d.kind = "enable" \/ (d.kind # "disable" /\ d.seen.enabled))
                BY <1>2 DEF EditSound
            <4>4. ASSUME d.new.enabled, "overlap" \notin why'[c] PROVE quiet'[c] = 0
                <5>1. CASE d.kind = "enable"
                    BY <2>2, <5>1
                <5>2. CASE d.kind # "enable"
                    <6>1. d.kind \notin {"enable", "disable", "delete"} /\ row[c].enabled
                        BY <2>4, <3>7, <4>3, <4>4, <5>2
                    <6> QED
                        BY <1>10, <2>2, <3>7, <4>1, <4>4, <6>1 DEF RowSound
                <5> QED
                    BY <5>1, <5>2
            <4>5. ASSUME linked'[c] # 0, "overlap" \notin why'[c] PROVE d.new.session = linked'[c]
                <5>0. d.kind # "chat" /\ linked'[c] = linked[c]
                    BY <3>2a, <4>5
                <5>1. row[c].session = linked[c] /\ row[c].session = d.seen.session
                    BY <1>10, <3>7, <4>1, <4>5, <5>0 DEF RowSound
                <5>2. d.new.session = d.seen.session
                    BY <1>2, <5>0 DEF EditSound
                <5> QED
                    BY <5>0, <5>1, <5>2
            <4>6. ASSUME why'[c] = {} PROVE NewTimeSound(d, c) /\ row[c].next = d.seen.next
                BY <1>2, <1>3, <1>10, <3>7, <4>6 DEF EditSound
            <4>7. why'[c] = {} => d.new.fires /\ (d.new.next = 0 => ~d.new.enabled)
                BY <3>7, <4>6 DEF NewTimeSound
            <4>8. RunsNow(c)' <=> RunsNow(c)
                BY <1>4 DEF RunsNow
            <4>9. ASSUME faults = 0, ~RunsNow(c), why'[c] = {}, d.new.next # 0
                  PROVE  d.new.next > ran[c]
                BY <4>6, <4>9 DEF NewTimeSound
            <4>10. faults = 0 /\ ~RunsNow(c) /\ ran[c] > 0 => \E s2 \in record[c] : record[c] = {s2}
                BY <1>10, <4>1 DEF RowSound
            <4> QED
                BY <1>4, <3>2, <3>3, <3>4, <4>2, <4>4, <4>5, <4>7, <4>8, <4>9, <4>10 DEF RowSound
        <3>9. ASSUME NEW x \in CronEditType, EditSound(x), x.cron = c, NEW f \in Editors \ {e}, edit[f] = x
              PROVE  EditSound(x)'
            <4>1. Racing(e)
                BY <1>2, <1>3, <3>9 DEF Racing
            <4>2. why'[c] # {}
                BY <3>1, <3>5, <4>1
            <4> QED
                BY <1>4, <3>3, <3>4, <3>9, <4>2 DEF EditSound
        <3> QED
            BY <1>8, <3>5, <3>6, <3>8, <3>9
    <2> QED
        BY <2>3, <2>4
<1> QED
    BY <1>9, <1>10

\* What names a chat session of job c names none any more.
LEMMA DeleteChatKeeps ==
    ASSUME CronInv, NEW c \in Crons, DeleteChat(c)
    PROVE  CronInv'
<1>1. PICK x \in ChatsOf(c) \ {NoChat} :
          /\ row' = [row EXCEPT ![c] = WithoutChat(@, x)]
          /\ linked' = [linked EXCEPT ![c] = Without(@, x)]
          /\ cronPoll' = [p \in CronPolls |-> [cronPoll[p] EXCEPT !.chat[c] = Without(@, x)]]
          /\ edit' = [e \in Editors |->
                         IF edit[e].cron # c THEN edit[e]
                         ELSE [edit[e] EXCEPT !.seen = WithoutChat(@, x),
                                              !.new = WithoutChat(@, x)]]
    BY DEF DeleteChat
<1>2. /\ edits < MaxEdits /\ edits' = edits + 1
      /\ UNCHANGED <<polling, now, phase, ran, quiet, record, why, faults>>
    BY DEF DeleteChat, Request, Times
<1>3. /\ CronCounts /\ why \in [Crons -> SUBSET {"overlap", "never"}] /\ MaxEdits \in Nat
      /\ cronPoll \in [CronPolls -> CronPollType] /\ edit \in [Editors -> CronEditType] /\ CronTypes
    BY CronHas, CronAssumption DEF CronInv, CronTypeOK, CronTyped, CronCounts
<1>4. \A y \in 0 .. MaxChats : Without(y, x) \in {y, 0} /\ (y # x => Without(y, x) = y)
                               /\ (y = x => Without(y, x) = 0)
    BY DEF Without, NoChat
<1>5. \A r \in Rows : /\ WithoutChat(r, x) \in Rows /\ WithoutChat(r, x).is = r.is
                      /\ WithoutChat(r, x).enabled = r.enabled /\ WithoutChat(r, x).next = r.next
                      /\ WithoutChat(r, x).fires = r.fires
                      /\ WithoutChat(r, x).session = Without(r.session, x)
    <2>1. ASSUME NEW r \in Rows
          PROVE  /\ WithoutChat(r, x) \in Rows /\ WithoutChat(r, x).is = r.is
                 /\ WithoutChat(r, x).enabled = r.enabled /\ WithoutChat(r, x).next = r.next
                 /\ WithoutChat(r, x).fires = r.fires
                 /\ WithoutChat(r, x).session = Without(r.session, x)
        <3>1. r.session \in 0 .. MaxChats
            BY DEF Rows
        <3>2. Without(r.session, x) \in 0 .. MaxChats
            BY <1>3, <1>4, <3>1 DEF CronTypes
        <3> QED
            BY <3>2 DEF WithoutChat, Rows
    <2> QED
        BY <2>1
<1>6. /\ row' \in [Crons -> Rows] /\ \A d \in Crons \ {c} : row'[d] = row[d]
      /\ row'[c].is = row[c].is /\ row'[c].next = row[c].next
      /\ row'[c].enabled = row[c].enabled /\ row'[c].fires = row[c].fires
      /\ row'[c].session = Without(row[c].session, x) /\ row[c].session \in 0 .. MaxChats
    <2>1. row[c] \in Rows /\ row'[c] = WithoutChat(row[c], x)
        BY <1>1, <1>3 DEF CronCounts
    <2>2. row[c].session \in 0 .. MaxChats
        BY <2>1 DEF Rows
    <2>3. row' \in [Crons -> Rows] /\ \A d \in Crons \ {c} : row'[d] = row[d]
        <3> DEFINE r == WithoutChat(row[c], x)
        <3>1. r \in Rows /\ row' = [row EXCEPT ![c] = r]
            BY <1>1, <1>5, <2>1
        <3> HIDE DEF r
        <3> QED
            BY <1>3, <3>1 DEF CronCounts
    <2> QED
        BY <1>5, <2>1, <2>2, <2>3
<1>7. /\ linked' \in [Crons -> 0 .. MaxChats] /\ \A d \in Crons \ {c} : linked'[d] = linked[d]
      /\ linked'[c] = Without(linked[c], x) /\ linked[c] \in 0 .. MaxChats
    <2> DEFINE y == Without(linked[c], x)
    <2>1. linked[c] \in 0 .. MaxChats /\ 0 \in 0 .. MaxChats
        BY <1>3 DEF CronCounts, CronTypes
    <2>2. y \in 0 .. MaxChats /\ linked' = [linked EXCEPT ![c] = y]
        BY <1>1, <1>4, <2>1
    <2> HIDE DEF y
    <2>3. /\ linked' \in [Crons -> 0 .. MaxChats] /\ \A d \in Crons \ {c} : linked'[d] = linked[d]
          /\ linked'[c] = y
        BY <1>3, <2>2 DEF CronCounts
    <2> QED
        BY <2>1, <2>3 DEF y
<1>8. ASSUME NEW p \in CronPolls
      PROVE  \E v \in CronPollType :
                /\ cronPoll'[p] = v /\ v.pc = cronPoll[p].pc /\ v.todo = cronPoll[p].todo
                /\ v.time = cronPoll[p].time /\ v.cron = cronPoll[p].cron
                /\ v.next = cronPoll[p].next /\ v.enabled = cronPoll[p].enabled
                /\ v.chat[c] = Without(cronPoll[p].chat[c], x)
                /\ \A d \in Crons \ {c} : v.chat[d] = cronPoll[p].chat[d]
    <2> DEFINE q == cronPoll[p]
               chat == [q.chat EXCEPT ![c] = Without(@, x)]
               v == [q EXCEPT !.chat = chat]
    <2>1. q \in CronPollType /\ q.chat \in [Crons -> 0 .. MaxChats]
        BY <1>3 DEF CronPollType
    <2>2. /\ chat \in [Crons -> 0 .. MaxChats] /\ chat[c] = Without(q.chat[c], x)
          /\ \A d \in Crons \ {c} : chat[d] = q.chat[d]
        BY <1>3, <1>4, <2>1 DEF CronTypes
    <2>3. cronPoll'[p] = v
        BY <1>1, <2>1
    <2> HIDE DEF chat
    <2>4. /\ v \in CronPollType /\ v.pc = q.pc /\ v.todo = q.todo /\ v.time = q.time
          /\ v.cron = q.cron /\ v.next = q.next /\ v.enabled = q.enabled /\ v.chat = chat
        BY <2>1, <2>2 DEF CronPollType
    <2> HIDE DEF v
    <2> QED
        BY <2>2, <2>3, <2>4
<1>9. \A d \in Crons : RunsNow(d)' <=> RunsNow(d)
    BY <1>8 DEF RunsNow
<1>10. ASSUME NEW d \in Crons PROVE RowSound(d)'
    <2>1. RowSound(d)
        BY DEF CronInv
    <2>2. CASE d = c
        <3>1. linked'[c] # 0 => linked'[c] = linked[c] /\ linked[c] # x
            BY <1>4, <1>7
        <3>2. linked'[c] # 0 /\ row[c].session = linked[c] => row'[c].session = linked'[c]
            BY <1>4, <1>6, <3>1
        <3>3. linked[c] = 0 => linked'[c] = 0
            BY <1>7, <3>1
        <3> QED
            BY <1>2, <1>6, <1>9, <2>1, <2>2, <3>1, <3>2, <3>3 DEF RowSound
    <2>3. CASE d # c
        <3>1. row'[d] = row[d] /\ linked'[d] = linked[d]
            BY <1>6, <1>7, <2>3
        <3> QED
            BY <1>2, <1>9, <2>1, <3>1 DEF RowSound
    <2> QED
        BY <2>2, <2>3
<1>11. ASSUME NEW p \in CronPolls PROVE PollSound(cronPoll[p])'
    <2>1. PICK v \in CronPollType :
                /\ cronPoll'[p] = v /\ v.pc = cronPoll[p].pc /\ v.todo = cronPoll[p].todo
                /\ v.time = cronPoll[p].time /\ v.cron = cronPoll[p].cron
                /\ v.next = cronPoll[p].next /\ v.enabled = cronPoll[p].enabled
                /\ v.chat[c] = Without(cronPoll[p].chat[c], x)
                /\ \A d \in Crons \ {c} : v.chat[d] = cronPoll[p].chat[d]
        BY <1>8
    <2>2. PICK q \in CronPollType : q = cronPoll[p] /\ PollSound(q)
        BY CronHas
    <2>3. ASSUME NEW d \in v.todo PROVE ListedSound(v, d)'
        <3>1. d \in Crons /\ ListedSound(q, d)
            BY <2>1, <2>2 DEF PollSound, CronPollType
        <3>2. linked'[d] # 0 => linked'[d] = linked[d] /\ (q.chat[d] = linked[d] => v.chat[d] = linked[d])
            BY <1>4, <1>7, <2>1, <2>2, <3>1
        <3>3. row'[d].is = row[d].is
            BY <1>6, <3>1
        <3> QED
            BY <1>2, <2>1, <2>2, <3>1, <3>2, <3>3 DEF ListedSound
    <2>4. ASSUME v.cron # NoCron PROVE AtJobSound(v)'
        <3>1. v.cron \in Crons /\ AtJobSound(q)
            BY <2>1, <2>2, <2>4 DEF PollSound, CronPollType
        <3>2. row'[v.cron].is = row[v.cron].is
            BY <1>6, <3>1
        <3> QED
            BY <1>2, <2>1, <2>2, <3>1, <3>2 DEF AtJobSound
    <2>5. PollSound(v)'
        BY <2>1, <2>2, <2>3, <2>4 DEF PollSound
    <2> QED
        BY <2>1, <2>5, PollIsSound
<1>12. ASSUME NEW e \in Editors PROVE edit'[e] \in CronEditType /\ EditSound(edit[e])'
    <2>1. PICK y \in CronEditType : y = edit[e] /\ EditSound(y)
        BY CronHas
    <2>2. CASE y.cron # c
        <3>1. edit'[e] = y
            BY <1>1, <2>1, <2>2
        <3>2. CASE y.pc # "write"
            BY <3>1, <3>2 DEF EditSound
        <3>3. CASE y.pc = "write"
            <4>1. PICK d \in Crons \ {c} : d = y.cron
                BY <1>3, <2>1, <2>2, <3>3 DEF EditSound, CronTypes
            <4>2. row'[d] = row[d] /\ now'[d] \in Nat /\ now'[d] >= now[d]
                BY <1>2, <1>6, CronHas
            <4>3. \A p \in CronPolls : cronPoll'[p].todo = cronPoll[p].todo
                                       /\ cronPoll'[p].time = cronPoll[p].time
                BY <1>8
            <4>4. EditSound(y)'
                BY <1>2, <1>9, <2>1, <4>1, <4>2, <4>3, EditStays DEF FaultsGrow
            <4> QED
                BY <3>1, <4>4, EditIsSound
        <3> QED
            BY <3>1, <3>2, <3>3
    <2>3. CASE y.cron = c
        <3> DEFINE seen == WithoutChat(y.seen, x)
                   new == WithoutChat(y.new, x)
                   w == [y EXCEPT !.seen = seen, !.new = new]
        <3>1. edit'[e] = w
            BY <1>1, <2>1, <2>3
        <3>2. y.seen \in Rows /\ y.new \in Rows
            BY DEF CronEditType
        <3>3. /\ seen \in Rows /\ new \in Rows /\ new.is = y.new.is
              /\ seen.enabled = y.seen.enabled /\ new.enabled = y.new.enabled
              /\ seen.next = y.seen.next /\ new.next = y.new.next /\ new.fires = y.new.fires
              /\ seen.session = Without(y.seen.session, x) /\ new.session = Without(y.new.session, x)
            BY <1>5, <3>2
        <3> HIDE DEF seen, new
        <3>4. PICK z \in CronEditType :
                 /\ z = w /\ z.pc = y.pc /\ z.kind = y.kind /\ z.cron = c /\ z.seen = seen /\ z.new = new
            <4>1. /\ w \in CronEditType /\ w.pc = y.pc /\ w.kind = y.kind /\ w.cron = y.cron
                  /\ w.seen = seen /\ w.new = new
                BY <3>3 DEF CronEditType
            <4> QED
                BY <2>3, <4>1
        <3> HIDE DEF w
        <3>5. \A p \in CronPolls : cronPoll'[p].todo = cronPoll[p].todo
                                   /\ cronPoll'[p].time = cronPoll[p].time
            BY <1>8
        <3>6. ASSUME NewTimeSound(y, c) PROVE NewTimeSound(z, c)'
            BY <1>2, <1>6, <1>9, <3>3, <3>4, <3>5, <3>6 DEF NewTimeSound
        <3>7. z.pc = "write" => y.new.session = y.seen.session \/ z.kind = "chat"
            BY <2>1, <3>4 DEF EditSound
        <3>8. EditSound(z)'
            BY <1>2, <1>6, <2>1, <2>3, <3>3, <3>4, <3>6, <3>7 DEF EditSound
        <3>9. edit'[e] = z
            BY <3>1, <3>4
        <3> QED
            BY <3>8, <3>9, EditIsSound
    <2> QED
        BY <2>2, <2>3
<1>13. CronTyped' /\ CronCounts'
    <2>1. edits' \in 0 .. MaxEdits
        BY <1>2, <1>3 DEF CronCounts
    <2>2. cronPoll' \in [CronPolls -> CronPollType] /\ edit' \in [Editors -> CronEditType]
        <3>1. cronPoll' = [p \in CronPolls |-> cronPoll'[p]] /\ edit' = [e \in Editors |-> edit'[e]]
            BY <1>1
        <3>2. \A p \in CronPolls : cronPoll'[p] \in CronPollType
            BY <1>8
        <3> QED
            BY <1>12, <3>1, <3>2
    <2> QED
        BY <1>2, <1>3, <1>6, <1>7, <2>1, <2>2 DEF CronTyped, CronCounts
<1>14. \A p \in CronPolls : cronPoll'[p].pc = cronPoll[p].pc
    BY <1>8
<1>15. \A d \in Crons : row'[d].is = row[d].is
    BY <1>6
<1>16. PollsAlone' /\ StaysUp' /\ QuietWhenStopped'
    BY <1>2, <1>14, <1>15 DEF CronInv, PollsAlone, StaysUp, QuietWhenStopped
<1>17. CronTypeOK'
    <2>1. /\ phase' \in {"up", "stopping", "stopped", "down"} /\ polling' \in BOOLEAN
          /\ Up' => (polling' <=> \E p \in CronPolls : cronPoll'[p].pc # "idle")
        BY <1>2, <1>14 DEF CronInv, CronTypeOK, Up
    <2> QED
        BY <1>11, <1>13, <2>1, CronIsTyped
<1> QED
    BY <1>10, <1>11, <1>12, <1>13, <1>16, <1>17 DEF CronInv

\* The jobs, polls and edits are left alone, though the clock may go on.
LEMMA NothingMoves ==
    ASSUME CronInv, FaultsGrow,
           UNCHANGED <<row, cronPoll, edit, ran, quiet, linked, record, why>>,
           \A c \in Crons : now'[c] \in Nat /\ now'[c] >= now[c]
    PROVE  /\ \A c \in Crons : RowSound(c)'
           /\ \A p \in CronPolls : PollSound(cronPoll[p])'
           /\ \A e \in Editors : EditSound(edit[e])'
<1>1. /\ CronTypes /\ \A c \in Crons : RunsNow(c) => RunsNow(c)'
      /\ \A p \in CronPolls : cronPoll'[p] = cronPoll[p]
    BY CronHas DEF RunsNow
<1>2. ASSUME NEW c \in Crons PROVE RowSound(c)'
    BY <1>1, RowStays
<1>3. ASSUME NEW p \in CronPolls PROVE PollSound(cronPoll[p])'
    BY <1>1, PollStays
<1>4. ASSUME NEW e \in Editors PROVE EditSound(edit[e])'
    <2>1. PICK x \in CronEditType : x = edit[e] /\ EditSound(edit[e])
        BY CronHas
    <2>2. EditSound(x)'
        <3>1. CASE x.pc # "write"
            BY <3>1 DEF EditSound
        <3>2. CASE x.pc = "write"
            <4>1. EditSound(x) /\ x.cron \in Crons
                BY <1>1, <2>1, <3>2 DEF EditSound, CronTypes
            <4>2. PICK c \in Crons : c = x.cron
                BY <4>1
            <4> QED
                BY <1>1, <4>1, <4>2, EditStays
        <3> QED
            BY <3>1, <3>2
    <2>3. edit'[e] = x
        BY <2>1
    <2> QED
        BY <2>2, <2>3, EditIsSound
<1> QED
    BY <1>2, <1>3, <1>4

\* The clock, the phase or the count of faults goes on, and nothing else.
LEMMA ProcessKeeps ==
    ASSUME CronInv, FaultsGrow, faults' \in 0 .. MaxFaults,
           UNCHANGED <<row, cronPoll, polling, edit, edits, ran, quiet, linked, record, why>>,
           \A c \in Crons : now'[c] \in Nat /\ now'[c] >= now[c], now' \in [Crons -> 1 .. LastTime],
           phase' \in {"up", "stopping", "stopped", "down"},
           phase' = phase \/ Up,
           phase' = "down" /\ phase # "down" => faults' # 0,
           phase' = "stopped" /\ phase # "stopped" => ~polling
    PROVE  CronInv'
<1>1. /\ \A c \in Crons : RowSound(c)'
      /\ \A p \in CronPolls : PollSound(cronPoll[p])'
      /\ \A e \in Editors : EditSound(edit[e])'
    BY NothingMoves
<1>2. CronTyped' /\ CronCounts'
    BY DEF CronInv, CronTyped, CronTypeOK, CronCounts
<1>3. polling' \in BOOLEAN /\ (Up' => (polling' <=> \E p \in CronPolls : cronPoll'[p].pc # "idle"))
    BY DEF CronInv, CronTypeOK, Up
<1>4. CronTypeOK'
    BY <1>1, <1>2, <1>3, CronIsTyped
<1>5. PollsAlone' /\ StaysUp' /\ QuietWhenStopped'
    <2>1. faults' = 0 => faults = 0
        BY DEF FaultsGrow
    <2>2. PollsAlone'
        BY <2>1 DEF CronInv, PollsAlone
    <2>3. StaysUp'
        <3>1. faults' \in Nat /\ faults \in Nat
            BY CronAssumption DEF CronInv, CronTypeOK
        <3> QED
            BY <2>1, <3>1 DEF CronInv, StaysUp
    <2>4. QuietWhenStopped'
        BY DEF CronInv, QuietWhenStopped, CronTypeOK, Up
    <2> QED
        BY <2>2, <2>3, <2>4
<1> QED
    BY <1>1, <1>2, <1>4, <1>5 DEF CronInv

LEMMA ElapseKeeps ==
    ASSUME CronInv, NEW c \in Crons, Elapse(c)
    PROVE  CronInv'
<1>1. /\ now[c] < LastTime /\ now' = [now EXCEPT ![c] = @ + 1]
      /\ UNCHANGED <<row, cronPoll, polling, phase, edit, edits, ran, quiet, linked, record, why, faults>>
    BY DEF Elapse, Edits, Runs
<1>2. /\ now \in [Crons -> 1 .. LastTime] /\ LastTime \in Nat /\ faults \in 0 .. MaxFaults
      /\ phase \in {"up", "stopping", "stopped", "down"}
    BY CronAssumption DEF CronInv, CronTypeOK
<1>3. now' \in [Crons -> 1 .. LastTime] /\ \A b \in Crons : now'[b] \in Nat /\ now'[b] >= now[b]
    BY <1>1, <1>2
<1> QED
    BY <1>1, <1>2, <1>3, ProcessKeeps DEF FaultsGrow

LEMMA PhaseKeeps ==
    ASSUME CronInv, Stop \/ Stopped \/ Kill
    PROVE  CronInv'
<1>1. UNCHANGED <<row, now, cronPoll, polling, edit, edits, ran, quiet, linked, record, why>>
    BY DEF Stop, Stopped, Kill, Edits, Runs
<1>2. /\ now \in [Crons -> 1 .. LastTime] /\ LastTime \in Nat /\ faults \in 0 .. MaxFaults
      /\ MaxFaults \in Nat
    BY CronAssumption DEF CronInv, CronTypeOK
<1>3. now' \in [Crons -> 1 .. LastTime] /\ \A b \in Crons : now'[b] \in Nat /\ now'[b] >= now[b]
    BY <1>1, <1>2
<1>4. FaultsGrow /\ faults' \in 0 .. MaxFaults
    BY <1>2 DEF Stop, Stopped, Kill, Fault, FaultsGrow
<1>5. /\ phase' \in {"up", "stopping", "stopped", "down"} /\ Up
      /\ phase' = "down" /\ phase # "down" => faults' # 0
      /\ phase' = "stopped" /\ phase # "stopped" => ~polling
    BY <1>2 DEF Stop, Stopped, Kill, Fault, Up
<1> QED
    BY <1>1, <1>3, <1>4, <1>5, ProcessKeeps

LEMMA RestartKeeps ==
    ASSUME CronInv, Restart
    PROVE  CronInv'
<1>1. /\ phase = "down" /\ phase' = "up" /\ cronPoll' = [p \in CronPolls |-> IdleCronPoll]
      /\ polling' = FALSE /\ edit' = [e \in Editors |-> NoEdit]
      /\ UNCHANGED <<row, now, edits, ran, quiet, linked, record, why, faults>>
    BY DEF Restart, Runs
<1>2. /\ \A p \in CronPolls : cronPoll'[p] = IdleCronPoll /\ cronPoll'[p].pc = "idle"
      /\ \A e \in Editors : edit'[e] = NoEdit
    BY <1>1, IdleCron
<1>3. CronTyped' /\ CronCounts'
    BY <1>1, IdleCron DEF CronInv, CronTyped, CronTypeOK, CronCounts
<1>4. \A p \in CronPolls : PollSound(cronPoll[p])'
    <2>1. IdleCronPoll.pc = "idle" /\ IdleCronPoll.cron = NoCron /\ IdleCronPoll.todo = {}
        BY IdleCron
    <2> QED
        BY <1>2, <2>1 DEF PollSound, AtJob
<1>5. \A e \in Editors : EditSound(edit[e])'
    <2>1. NoEdit.pc = "idle"
        BY DEF NoEdit
    <2> QED
        BY <1>2, <2>1 DEF EditSound
<1>6. ASSUME NEW c \in Crons PROVE RowSound(c)'
    <2>1. faults = 0 => ~RunsNow(c)
        <3>1. ASSUME faults = 0, NEW p \in CronPolls PROVE cronPoll[p].cron # c
            <4>1. cronPoll[p].pc = "idle" /\ PollSound(cronPoll[p]) /\ c # NoCron
                BY <1>1, <3>1, CronHas DEF CronInv, PollsAlone, CronTypes
            <4> QED
                BY <4>1 DEF PollSound, AtJob
        <3> QED
            BY <3>1 DEF RunsNow
    <2>2. RowSound(c)
        BY DEF CronInv
    <2> QED
        BY <1>1, <2>1, <2>2 DEF RowSound
<1>7. PollsAlone' /\ StaysUp' /\ QuietWhenStopped'
    BY <1>1, <1>2 DEF PollsAlone, StaysUp, QuietWhenStopped
<1>8. CronTypeOK'
    <2>1. /\ phase' \in {"up", "stopping", "stopped", "down"} /\ polling' \in BOOLEAN
          /\ Up' => (polling' <=> \E p \in CronPolls : cronPoll'[p].pc # "idle")
        BY <1>1, <1>2
    <2> QED
        BY <1>3, <1>4, <2>1, CronIsTyped
<1> QED
    BY <1>3, <1>4, <1>5, <1>6, <1>7, <1>8 DEF CronInv

LEMMA CronBegins ==
    ASSUME CronInit
    PROVE  CronInv
<1>1. /\ row \in [Crons -> {NoRow, NewRow(TRUE, TRUE, 1)}]
      /\ now = [c \in Crons |-> 1] /\ cronPoll = [p \in CronPolls |-> IdleCronPoll]
      /\ polling = FALSE /\ phase = "up" /\ edit = [e \in Editors |-> NoEdit]
      /\ record = [c \in Crons |-> {}] /\ ran = [c \in Crons |-> 0]
      /\ quiet = [c \in Crons |-> 0] /\ linked = [c \in Crons |-> 0]
      /\ why = [c \in Crons |-> {}] /\ edits = 0 /\ faults = 0
    BY DEF CronInit, NoChat
<1>2. LastTime \in Nat \ {0} /\ MaxChats \in Nat /\ MaxEdits \in Nat /\ MaxFaults \in Nat
    BY CronAssumption
<1> DEFINE no == FALSE
           yes == TRUE
<1>3. no \in BOOLEAN /\ yes \in BOOLEAN /\ ~no /\ yes
    OBVIOUS
<1> DEFINE none == NoRow
           new == NewRow(TRUE, TRUE, 1)
<1>5. /\ none \in Rows /\ none.is = "none" /\ none.next = 0
      /\ new \in Rows /\ new.is = "there" /\ new.next = 1
      /\ new.enabled = yes /\ new.fires = yes
    <2>1. /\ none = [is |-> "none", enabled |-> no, next |-> 0, session |-> 0, fires |-> yes]
          /\ new = [is |-> "there", enabled |-> yes, next |-> 1, session |-> 0, fires |-> yes]
        BY DEF NoRow, NewRow, Null, NoChat
    <2>2. 0 \in 0 .. (LastTime + 1) /\ 1 \in 0 .. (LastTime + 1) /\ 0 \in 0 .. MaxChats
        BY <1>2
    <2> HIDE DEF no, yes, none, new
    <2> QED
        BY <1>3, <2>1, <2>2 DEF Rows
<1>5a. row \in [Crons -> {none, new}]
    BY <1>1
<1> HIDE DEF no, yes, none, new
<1>6. \A p \in CronPolls : /\ cronPoll[p] = IdleCronPoll /\ cronPoll[p].pc = "idle"
                           /\ cronPoll[p].cron = NoCron /\ cronPoll[p].todo = {}
    BY <1>1, IdleCron
<1>7. CronTyped
    BY <1>1, IdleCron DEF CronTyped
<1>8. \A p \in CronPolls : PollSound(cronPoll[p])
    BY <1>6 DEF PollSound, AtJob
<1>9. \A e \in Editors : EditSound(edit[e])
    <2>1. NoEdit.pc = "idle"
        BY DEF NoEdit
    <2> QED
        BY <1>1, <2>1 DEF EditSound
<1>10. ASSUME NEW c \in Crons PROVE RowSound(c)
    <2>1. row[c] = none \/ row[c] = new
        BY <1>5a
    <2>2. /\ now[c] = 1 /\ ran[c] = 0 /\ linked[c] = 0 /\ why[c] = {} /\ quiet[c] = 0
        BY <1>1
    <2>3. CASE row[c] = none
        <3>1. row[c].is = "none" /\ row[c].next = 0
            BY <1>5, <2>3
        <3> QED
            BY <1>3, <2>2, <3>1 DEF RowSound
    <2>4. CASE row[c] = new
        <3>1. /\ row[c].is = "there" /\ row[c].next = 1 /\ row[c].enabled = yes
              /\ row[c].fires = yes
            BY <1>5, <2>4
        <3> QED
            BY <1>3, <2>2, <3>1 DEF RowSound
    <2> QED
        BY <2>1, <2>3, <2>4
<1>11. PollsAlone /\ StaysUp /\ QuietWhenStopped
    BY <1>1, <1>6 DEF PollsAlone, StaysUp, QuietWhenStopped
<1>12. CronTypeOK
    <2>1. row \in [Crons -> Rows] /\ now \in [Crons -> 1 .. LastTime]
        BY <1>1, <1>2, <1>5, <1>5a
    <2>2. ran \in [Crons -> 0 .. LastTime] /\ quiet \in [Crons -> 0 .. 2]
          /\ record \in [Crons -> SUBSET {"success", "failed"}] /\ linked \in [Crons -> 0 .. MaxChats]
        BY <1>1, <1>2, <1>3
    <2>3. \A e \in Editors : edit[e].new \in Rows
        BY <1>7 DEF CronTyped, CronEditType
    <2>4. edits \in 0 .. MaxEdits /\ faults \in 0 .. MaxFaults
        BY <1>1, <1>2
    <2>5. phase \in {"up", "stopping", "stopped", "down"} /\ polling \in BOOLEAN
        BY <1>1
    <2>6. Up => (polling <=> \E p \in CronPolls : cronPoll[p].pc # "idle")
        BY <1>1, <1>6
    <2>7. \A p \in CronPolls :
            cronPoll[p].cron # NoCron <=> cronPoll[p].pc \in {"run", "record", "session", "mark", "write"}
        BY <1>6
    <2> QED
        BY <2>1, <2>2, <2>3, <2>4, <2>5, <2>6, <2>7 DEF CronTypeOK
<1> QED
    BY <1>7, <1>8, <1>9, <1>10, <1>11, <1>12 DEF CronInv

\* Every step keeps the invariant.
LEMMA CronStep ==
    ASSUME CronInv, [CronNext]_cronVars
    PROVE  CronInv'
<1>1. CASE UNCHANGED cronVars
    <2>1. /\ now \in [Crons -> 1 .. LastTime] /\ faults \in 0 .. MaxFaults
          /\ phase \in {"up", "stopping", "stopped", "down"}
          /\ \A c \in Crons : now[c] \in Nat
        BY DEF CronInv, CronTypeOK
    <2>2. \A c \in Crons : now'[c] \in Nat /\ now'[c] >= now[c]
        BY <1>1, <2>1 DEF cronVars
    <2> QED
        BY <1>1, <2>1, <2>2, ProcessKeeps DEF cronVars, FaultsGrow
<1>2. CASE Poll \/ BeginEdit \/ Stop \/ Stopped \/ Kill \/ Restart
    BY <1>2, PollStarts, EditBegins, PhaseKeeps, RestartKeeps
<1>3. ASSUME NEW p \in CronPolls, Step(p) PROVE CronInv'
    BY <1>3, ListDueKeeps, EndPollKeeps, BeginRunKeeps, EndRunKeeps, RecordRunKeeps,
       SetSessionKeeps, MarkReadKeeps, MarkWriteKeeps DEF Step
<1>4. ASSUME NEW e \in Editors, WriteEdit(e) PROVE CronInv'
    BY <1>4, WriteEditKeeps
<1>5. ASSUME NEW c \in Crons, Create(c) \/ DeleteChat(c) \/ Elapse(c) PROVE CronInv'
    BY <1>5, CreateKeeps, DeleteChatKeeps, ElapseKeeps
<1> QED
    BY <1>1, <1>2, <1>3, <1>4, <1>5 DEF CronNext

\* Whatever founder, polls, faults and restarts do, the scheduler keeps its
\* rows, polls and edits consistent (cron-runtime.service.ts, cron.service.ts).
THEOREM CronInvariant == CronSpec => []CronInv
<1>1. CronInit => CronInv
    BY CronBegins
<1>2. CronInv /\ [CronNext]_cronVars => CronInv'
    BY CronStep
<1> QED
    BY <1>1, <1>2, PTL DEF CronSpec

\* CronTypeOK, StaysUp and QuietWhenStopped: the guard of the polls
\* is closed exactly while one is at work, only a failed database call or a
\* deleted job takes the process down, and nothing runs once stop has returned
\* (CronRuntimeService.pollNow, stop; index.ts).
THEOREM RuntimeIsSound == CronSpec => []RuntimeSound
<1>1. CronInv => RuntimeSound
    BY DEF CronInv, RuntimeSound
<1> QED
    BY <1>1, CronInvariant, PTL

\* A run that begins is one the poll had listed, and no other is at work.
LEMMA RunIsListed ==
    ASSUME CronInv, [CronNext]_cronVars,
           NEW p \in CronPolls, NEW c \in Crons, Begins(p, c)
    PROVE  ListedSound(cronPoll[p], c) /\ RowSound(c) /\ ~RunsNow(c)
<1>1. /\ Up /\ cronPoll[p].pc = "next" /\ cronPoll'[p].pc = "run" /\ cronPoll'[p].cron = c
      /\ cronPoll \in [CronPolls -> CronPollType] /\ CronTypes /\ RowSound(c)
    BY CronHas DEF Begins, At, CronInv, CronTyped
<1>2. ASSUME NEW q \in CronPolls, q # p PROVE cronPoll[q].pc = "idle"
    BY <1>1, <1>2 DEF CronInv, PollsAlone
<1>3. ~RunsNow(c)
    <2>1. ASSUME NEW q \in CronPolls PROVE cronPoll[q].cron = NoCron
        BY <1>1, <1>2, CronHas DEF PollSound, AtJob
    <2> QED
        BY <1>1, <2>1 DEF RunsNow, CronTypes
<1>4. CASE cronPoll' = cronPoll
    BY <1>1, <1>4
<1>5. CASE Poll
    <2> DEFINE q == CHOOSE r \in CronPolls : At(r, "idle")
    <2>1. q \in CronPolls /\ At(q, "idle") /\ StartCronPoll(q)
        BY <1>5 DEF Poll
    <2> HIDE DEF q
    <2>2. q # p /\ cronPoll' = [cronPoll EXCEPT ![q].pc = "list"]
        BY <1>1, <2>1 DEF At, StartCronPoll, Goto
    <2> QED
        BY <1>1, <2>2
<1>6. ASSUME NEW q \in CronPolls, Step(q), q # p PROVE FALSE
    <2>1. cronPoll[q].pc = "idle"
        BY <1>2, <1>6
    <2> QED
        BY <1>6, <2>1 DEF Step, ListDue, EndCronPoll, BeginRun, EndCronRun,
           RecordRun, SetSession, MarkRead, MarkWrite, At
<1>7. CASE Step(p)
    <2>1. EndCronPoll(p) \/ BeginRun(p)
        BY <1>1, <1>7 DEF Step, ListDue, EndCronRun,
           RecordRun, SetSession, MarkRead, MarkWrite, At
    <2>2. CASE EndCronPoll(p)
        BY <1>1, <2>2, IdleCron DEF EndCronPoll
    <2>3. CASE BeginRun(p)
        <3>1. PICK d \in cronPoll[p].todo : \E x :
                 cronPoll' = [cronPoll EXCEPT ![p].pc = "run", ![p].todo = @ \ {d}, ![p].cron = d,
                                              ![p].time[d] = Null, ![p].chat[d] = x]
            BY <2>3 DEF BeginRun
        <3>2. cronPoll'[p].cron = d
            BY <1>1, <3>1 DEF CronPollType
        <3> QED
            BY <1>1, <1>3, <3>2, CronHas DEF PollSound
    <2> QED
        BY <2>1, <2>2, <2>3
<1>8. CASE Restart
    <2>1. cronPoll'[p] = IdleCronPoll
        BY <1>8 DEF Restart
    <2> QED
        BY <1>1, <2>1, IdleCron
<1>8a. ASSUME NEW d \in Crons, DeleteChat(d) PROVE FALSE
    <2>1. \E y : cronPoll' = [q \in CronPolls |-> [cronPoll[q] EXCEPT !.chat[d] = Without(@, y)]]
        BY <1>8a DEF DeleteChat
    <2>2. PICK chat : cronPoll'[p] = [cronPoll[p] EXCEPT !.chat = chat]
        BY <2>1
    <2>3. cronPoll'[p].pc = "next"
        BY <1>1, <2>2 DEF CronPollType
    <2> QED
        BY <1>1, <2>3
<1>9. (\E d \in Crons : DeleteChat(d)) \/ cronPoll' = cronPoll \/ Poll \/ (\E q \in CronPolls : Step(q)) \/ Restart
    BY DEF CronNext, cronVars, BeginEdit, ReadForEdit, WriteEdit, Create,
       Elapse, Stop, Stopped, Kill
<1> QED
    BY <1>4, <1>5, <1>6, <1>7, <1>8, <1>8a, <1>9

\* OncePerTime, OneChat and OneRecordPerRun: a job is run once
\* for each time its schedule fires, its runs talk in the chat session that was
\* linked last until the founder gives the job another or deletes it, and each is
\* in the history once, unless a fault or an edit written over another explains
\* it (CronRuntimeService.executeSingleJob, CronService).
THEOREM JobsRunOnce == CronSpec => RunsOnce
<1> DEFINE Once == \A p \in CronPolls, c \in Crons :
                       Begins(p, c) =>
                           (cronPoll[p].time[c] <= ran[c] => faults > 0 \/ why[c] # {})
           Chat == \A p \in CronPolls, c \in Crons :
                       Begins(p, c) =>
                           (linked[c] # NoChat =>
                               cronPoll[p].chat[c] = linked[c] \/ "overlap" \in why[c])
           Record == \A p \in CronPolls, c \in Crons :
                       Begins(p, c) =>
                           (ran[c] > 0 /\ There(c) =>
                               (\E s \in record[c] : record[c] = {s}) \/ faults > 0)
<1>1. CronInv /\ [CronNext]_cronVars => Once /\ Chat /\ Record
    <2> SUFFICES ASSUME CronInv, [CronNext]_cronVars, NEW p \in CronPolls, NEW c \in Crons,
                        Begins(p, c)
                 PROVE  /\ cronPoll[p].time[c] <= ran[c] => faults > 0 \/ why[c] # {}
                        /\ linked[c] # NoChat =>
                               cronPoll[p].chat[c] = linked[c] \/ "overlap" \in why[c]
                        /\ ran[c] > 0 /\ There(c) =>
                               (\E s \in record[c] : record[c] = {s}) \/ faults > 0
        OBVIOUS
    <2>1. ListedSound(cronPoll[p], c) /\ RowSound(c) /\ ~RunsNow(c)
        BY RunIsListed
    <2>2. faults \in Nat /\ ran[c] \in Int /\ cronPoll[p].time[c] \in Int
        BY CronHas, CronAssumption DEF CronInv, CronTypeOK, CronPollType
    <2>3. cronPoll[p].time[c] <= ran[c] => faults > 0 \/ why[c] # {}
        BY <2>1, <2>2 DEF ListedSound
    <2>4. linked[c] # NoChat =>
                               cronPoll[p].chat[c] = linked[c] \/ "overlap" \in why[c]
        BY <2>1 DEF ListedSound, NoChat
    <2>5. ran[c] > 0 /\ There(c) => (\E s \in record[c] : record[c] = {s}) \/ faults > 0
        BY <2>1, <2>2 DEF RowSound, There
    <2> QED
        BY <2>3, <2>4, <2>5
<1>2. CronSpec => [][Once]_cronVars /\ [][Chat]_cronVars /\ [][Record]_cronVars
    BY <1>1, CronInvariant, PTL DEF CronSpec
<1> QED
    BY <1>2 DEF RunsOnce, OncePerTime, OneChat, OneRecordPerRun, EveryRun

\* QuietWhenUnwanted: after the founder has disabled or deleted a job one
\* more run of it begins at the most, unless an update of something else wrote
\* the row back as enabled (cron.controller.ts, CronService.updateJob).
THEOREM UnwantedJobsAreQuiet == CronSpec => QuietWhenUnwanted
<1> DEFINE OneMore == \A p \in CronPolls, c \in Crons :
                         Begins(p, c) => (quiet[c] = 2 => "overlap" \in why[c])
<1>1. CronInv /\ [CronNext]_cronVars => OneMore
    BY RunIsListed DEF ListedSound
<1>2. CronSpec => [][OneMore]_cronVars
    BY <1>1, CronInvariant, PTL DEF CronSpec
<1> QED
    BY <1>2 DEF QuietWhenUnwanted, EveryRun
=============================================================================
