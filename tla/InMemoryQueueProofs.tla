------------------------ MODULE InMemoryQueueProofs ------------------------
(***************************************************************************)
(* Proofs about the job queue, for any agents, tasks, options and bound.   *)
(*                                                                         *)
(* The argument rests on NoIdleSlot: because a job waits only while every  *)
(* slot is taken, a pump starts at most one job.  So an Enqueue either     *)
(* starts its own job or appends it (StartNow, Wait), and a Release either *)
(* frees the slot or hands it to the first waiting job (FreeSlot,          *)
(* HandOver).  Each of the four is then compared with the invariant.       *)
(***************************************************************************)
EXTENDS InMemoryQueue, FiniteSetTheorems, SequenceTheorems, TLAPS

(* The inductive invariant *)

\* A waiting job is of its list's type, not started, and holds no slot.
PendingOK ==
    \A t \in JobTypes : \A n \in 1 .. Len(pendingByType[t]) :
        /\ jobs[pendingByType[t][n]].type = t
        /\ jobs[pendingByType[t][n]].status = "queued"
        /\ pendingByType[t][n] \notin holding

\* Waiting lists are in order of acceptance.
PendingSorted ==
    \A t \in JobTypes : \A m, n \in 1 .. Len(pendingByType[t]) :
        m < n => pendingByType[t][m] < pendingByType[t][n]

\* A running job holds a slot.
RunningHeld ==
    \A i \in 1 .. Len(jobs) : jobs[i].status = "running" => i \in holding

\* The state of the close promise follows the flag and the counters.
PromiseOK ==
    /\ (closePromise = "none") <=> ~closed
    /\ closePromise = "resolved" => Drained(runningByType, pendingByType)

\* A job that is not finished is somewhere: waiting, or holding a slot.
Covered ==
    \A i \in 1 .. Len(jobs) :
        \/ \E n \in 1 .. Len(pendingByType[jobs[i].type]) :
              pendingByType[jobs[i].type][n] = i
        \/ i \in holding
        \/ Finished(i)
        \/ jobs[i].type \notin Handled

\* A job that holds a slot was started by process(), unless no handler is
\* installed for its type: then it keeps the status "queued".
HeldStarted ==
    \A i \in holding : jobs[i].status = "queued" => jobs[i].type \notin Handled

HeldOf(t) == {i \in holding : jobs[i].type = t}

IInv ==
    /\ TypeOK
    /\ ConcurrencyBound
    /\ NoIdleSlot
    /\ SlotsAccounted
    /\ PendingOK
    /\ PendingSorted
    /\ RunningHeld
    /\ PromiseOK
    /\ HeldStarted
    /\ Covered
-----------------------------------------------------------------------------
(* Facts about the constants *)

\* Whatever options the constructor is given, each limit is at least one.
LEMMA LimitPositive ==
    ASSUME NEW t \in JobTypes
    PROVE  maxConcurrencyByType[t] \in Nat /\ maxConcurrencyByType[t] >= 1
<1>1. Fallback[t] \in Nat /\ Fallback[t] >= 1
    BY DEF Fallback, JobTypes
<1>2. Options[t] = Undefined \/ Options[t] \in Int
    BY QueueAssumption
<1>3. NormalizeConcurrency(Options[t], Fallback[t]) \in Nat
      /\ NormalizeConcurrency(Options[t], Fallback[t]) >= 1
    BY <1>1, <1>2, QueueAssumption DEF NormalizeConcurrency
<1>4. QED
    BY <1>3 DEF maxConcurrencyByType

-----------------------------------------------------------------------------
(* The two outcomes of an enqueue and of a release *)

StartNow(t, a, k) ==
    /\ runningByType[t] < maxConcurrencyByType[t]
    /\ pendingByType[t] = <<>>
    /\ jobs' \in Seq(Job) /\ Len(jobs') = Len(jobs) + 1
    /\ \A i \in 1 .. Len(jobs) : jobs'[i] = jobs[i]
    /\ jobs'[Len(jobs) + 1] = Process(t, NewJob(t, a, k))
    /\ pendingByType' = pendingByType
    /\ runningByType' = [runningByType EXCEPT ![t] = @ + 1]
    /\ holding' = holding \cup {Len(jobs) + 1}
    /\ UNCHANGED <<closed, closePromise>>

Wait(t, a, k) ==
    /\ runningByType[t] = maxConcurrencyByType[t]
    /\ jobs' = Append(jobs, NewJob(t, a, k))
    /\ pendingByType' = [pendingByType EXCEPT ![t] = Append(@, Len(jobs) + 1)]
    /\ UNCHANGED <<runningByType, holding, closed, closePromise>>

FreeSlot(i) ==
    /\ MayRelease(i)
    /\ pendingByType[jobs[i].type] = <<>>
    /\ runningByType' = [runningByType EXCEPT ![jobs[i].type] = @ - 1]
    /\ holding' = holding \ {i}
    /\ UNCHANGED <<jobs, pendingByType, closed>>
    /\ CheckIfDrained(closePromise, runningByType', pendingByType')

HandOver(i, t, next) ==
    /\ MayRelease(i) /\ t = jobs[i].type
    /\ pendingByType[t] # <<>> /\ next = Head(pendingByType[t])
    /\ jobs' = [jobs EXCEPT ![next] = Process(t, @)]
    /\ pendingByType' = [pendingByType EXCEPT ![t] = Tail(@)]
    /\ holding' = (holding \ {i}) \cup {next}
    /\ UNCHANGED <<runningByType, closed>>
    /\ CheckIfDrained(closePromise, runningByType', pendingByType')

\* An enqueue starts its own job or leaves it waiting, nothing else.
LEMMA EnqueueCases ==
    ASSUME IInv, NEW t \in JobTypes, NEW a \in Agents, NEW k \in TaskIds,
           Enqueue(t, a, k)
    PROVE  StartNow(t, a, k) \/ Wait(t, a, k)
<1> DEFINE id == Len(jobs) + 1
           js == Append(jobs, NewJob(t, a, k))
           p  == Append(pendingByType[t], id)
           r  == runningByType[t]
<1>1. /\ jobs \in Seq(Job) /\ Len(jobs) \in Nat
      /\ pendingByType \in [JobTypes -> Seq(1 .. Len(jobs))]
      /\ runningByType \in [JobTypes -> Nat]
    BY DEF IInv, TypeOK
<1>2. NewJob(t, a, k) \in Job
    BY DEF NewJob, Job, Status
<1>3. /\ js \in Seq(Job) /\ Len(js) = id /\ js[id] = NewJob(t, a, k)
      /\ \A i \in 1 .. Len(jobs) : js[i] = jobs[i]
    BY <1>1, <1>2
<1>4. /\ p \in Seq(1 .. id) /\ Len(p) = Len(pendingByType[t]) + 1
      /\ p[Len(p)] = id
    BY <1>1
<1>5. /\ maxConcurrencyByType[t] \in Nat /\ r \in Nat /\ r <= maxConcurrencyByType[t]
      /\ pendingByType[t] # <<>> => r = maxConcurrencyByType[t]
    BY <1>1, LimitPositive DEF IInv, ConcurrencyBound, NoIdleSlot
<1>6. /\ Pump(t, js, p, r, holding)
      /\ UNCHANGED <<closed, closePromise>>
    BY DEF Enqueue
<1>7. CASE r < maxConcurrencyByType[t]
  <2>1. pendingByType[t] = <<>>
      BY <1>5, <1>7
  <2>2. Len(p) = 1 /\ p[1] = id /\ p = <<id>>
      BY <2>1, <1>4
  <2>3. StartCount(t, p, r) = 1
      BY <2>2, <1>5, <1>7 DEF StartCount, FreeSlots
  <2>4. Started(t, p, r) = {id}
      BY <2>2, <2>3 DEF Started
  <2>5. SubSeq(p, 2, 1) = <<>>
      BY <2>2
  <2>6. pendingByType' = [pendingByType EXCEPT ![t] = <<>>]
    <3>1. SubSeq(p, StartCount(t, p, r) + 1, Len(p)) = <<>>
        BY <2>2, <2>3, <2>5
    <3>2. pendingByType' = [pendingByType EXCEPT
                               ![t] = SubSeq(p, StartCount(t, p, r) + 1, Len(p))]
        BY <1>6 DEF Pump
    <3>3. QED
        BY <3>1, <3>2
  <2>7. pendingByType' = pendingByType
      BY <2>6, <2>1, <1>1
  <2>8. jobs' = [i \in 1 .. id |-> IF i = id THEN Process(t, js[i]) ELSE js[i]]
      BY <2>4, <1>3, <1>6 DEF Pump
  <2>9. Process(t, NewJob(t, a, k)) \in Job
      BY <1>2 DEF Process, Job, Status
  <2>10. /\ jobs' \in Seq(Job) /\ Len(jobs') = id
         /\ \A i \in 1 .. Len(jobs) : jobs'[i] = jobs[i]
         /\ jobs'[id] = Process(t, NewJob(t, a, k))
      BY <2>8, <2>9, <1>1, <1>3
  <2>11. /\ runningByType' = [runningByType EXCEPT ![t] = @ + 1]
         /\ holding' = holding \cup {id}
      BY <2>3, <2>4, <1>6 DEF Pump
  <2>12. QED
      BY <2>1, <2>7, <2>10, <2>11, <1>6, <1>7 DEF StartNow
<1>8. CASE r = maxConcurrencyByType[t]
  <2>1. StartCount(t, p, r) = 0
      BY <1>4, <1>5, <1>8, <1>1 DEF StartCount, FreeSlots
  <2>2. Started(t, p, r) = {}
      BY <2>1 DEF Started
  <2>3. SubSeq(p, 1, Len(p)) = p
      BY <1>4
  <2>4. jobs' = [i \in 1 .. Len(js) |-> js[i]]
      BY <2>2, <1>6 DEF Pump
  <2>5. jobs' = js
    <3> HIDE DEF js
    <3>1. js = [i \in 1 .. Len(js) |-> js[i]]
        BY <1>3
    <3>2. QED
        BY <2>4, <3>1
  <2>6. /\ pendingByType' = [pendingByType EXCEPT ![t] = p]
        /\ runningByType' = runningByType
        /\ holding' = holding
    <3> HIDE DEF p
    <3>1. pendingByType' = [pendingByType EXCEPT
                               ![t] = SubSeq(p, StartCount(t, p, r) + 1, Len(p))]
        BY <1>6 DEF Pump
    <3>2. SubSeq(p, StartCount(t, p, r) + 1, Len(p)) = p
        BY <2>1, <2>3
    <3>3. runningByType' = [runningByType EXCEPT ![t] = r + StartCount(t, p, r)]
        BY <1>6 DEF Pump
    <3>4. r + StartCount(t, p, r) = runningByType[t]
        BY <2>1, <1>1
    <3>5. runningByType' = runningByType
        BY <3>3, <3>4, <1>1
    <3>6. holding' = holding
        BY <2>2, <1>6 DEF Pump
    <3>7. QED
        BY <3>1, <3>2, <3>5, <3>6
  <2>7. QED
      BY <2>5, <2>6, <1>6, <1>8 DEF Wait
<1>9. QED
    BY <1>5, <1>7, <1>8

\* The slots of a type are finitely many, so their number can be compared.
LEMMA HeldFinite ==
    ASSUME IInv, NEW t \in JobTypes
    PROVE  /\ IsFiniteSet(HeldOf(t))
           /\ Cardinality(HeldOf(t)) \in Nat
           /\ runningByType[t] = Cardinality(HeldOf(t))
<1>1. Len(jobs) \in Nat /\ HeldOf(t) \subseteq 1 .. Len(jobs)
  <2>1. jobs \in Seq(Job) /\ holding \subseteq 1 .. Len(jobs)
      BY DEF IInv, TypeOK
  <2>2. Len(jobs) \in Nat
      BY <2>1
  <2>3. HeldOf(t) \subseteq holding
      BY DEF HeldOf
  <2>4. QED
      BY <2>1, <2>2, <2>3
<1>2. IsFiniteSet(1 .. Len(jobs))
    BY <1>1, FS_Interval
<1>3. IsFiniteSet(HeldOf(t))
    BY <1>1, <1>2, FS_Subset
<1>4. QED
    BY <1>3, FS_CardinalityType DEF IInv, SlotsAccounted, HeldOf

\* A release frees the slot or hands it to the first waiting job.
LEMMA ReleaseCases ==
    ASSUME IInv, NEW i \in 1 .. Len(jobs), Release(i)
    PROVE  \/ FreeSlot(i)
           \/ HandOver(i, jobs[i].type, Head(pendingByType[jobs[i].type]))
<1> DEFINE t == jobs[i].type
           p == pendingByType[t]
           r == runningByType[t] - 1
<1>1. /\ jobs \in Seq(Job) /\ Len(jobs) \in Nat
      /\ t \in JobTypes
      /\ pendingByType \in [JobTypes -> Seq(1 .. Len(jobs))]
      /\ runningByType \in [JobTypes -> Nat]
      /\ p \in Seq(1 .. Len(jobs))
      /\ i \in holding /\ holding \subseteq 1 .. Len(jobs)
  <2>1. /\ jobs \in Seq(Job) /\ Len(jobs) \in Nat
        /\ pendingByType \in [JobTypes -> Seq(1 .. Len(jobs))]
        /\ runningByType \in [JobTypes -> Nat]
        /\ holding \subseteq 1 .. Len(jobs)
      BY DEF IInv, TypeOK
  <2>2. jobs[i] \in Job
      BY <2>1
  <2>3. t \in JobTypes
      BY <2>2 DEF Job
  <2>4. i \in holding
      BY DEF Release, MayRelease
  <2>5. QED
      BY <2>1, <2>3, <2>4
<1>2. runningByType[t] >= 1
  <2>1. i \in HeldOf(t)
      BY <1>1 DEF HeldOf
  <2>2. Cardinality(HeldOf(t)) # 0
      BY <2>1, <1>1, HeldFinite, FS_EmptySet
  <2>3. QED
      BY <2>2, <1>1, HeldFinite
<1>3. /\ maxConcurrencyByType[t] \in Nat /\ r \in Nat
      /\ r < maxConcurrencyByType[t]
      /\ p # <<>> => r + 1 = maxConcurrencyByType[t]
    BY <1>1, <1>2, LimitPositive DEF IInv, ConcurrencyBound, NoIdleSlot
<1>4. /\ MayRelease(i)
      /\ Pump(t, jobs, p, r, holding \ {i})
      /\ CheckIfDrained(closePromise, runningByType', pendingByType')
      /\ UNCHANGED closed
    BY DEF Release, ReturnSlot
<1>5. CASE p = <<>>
  <2>1. StartCount(t, p, r) = 0
      BY <1>3, <1>5 DEF StartCount, FreeSlots
  <2>2. Started(t, p, r) = {}
      BY <2>1 DEF Started
  <2>3. jobs' = [n \in 1 .. Len(jobs) |-> jobs[n]]
      BY <2>2, <1>4 DEF Pump
  <2>4. jobs' = jobs
    <3>1. jobs = [n \in 1 .. Len(jobs) |-> jobs[n]]
        BY <1>1
    <3>2. QED
        BY <2>3, <3>1
  <2>5. SubSeq(p, StartCount(t, p, r) + 1, Len(p)) = p
      BY <2>1, <1>5
  <2>6. pendingByType' = [pendingByType EXCEPT
                             ![t] = SubSeq(p, StartCount(t, p, r) + 1, Len(p))]
      BY <1>4 DEF Pump
  <2>7. pendingByType' = pendingByType
      BY <2>5, <2>6, <1>1
  <2>8. runningByType' = [runningByType EXCEPT ![t] = @ - 1]
    <3>1. runningByType' = [runningByType EXCEPT ![t] = r + StartCount(t, p, r)]
        BY <1>4 DEF Pump
    <3>2. r + StartCount(t, p, r) = runningByType[t] - 1
        BY <2>1, <1>1
    <3>3. QED
        BY <3>1, <3>2
  <2>9. holding' = holding \ {i}
      BY <2>2, <1>4 DEF Pump
  <2>10. QED
      BY <2>4, <2>7, <2>8, <2>9, <1>4, <1>5 DEF FreeSlot
<1>6. CASE p # <<>>
  <2>1. Len(p) \in Nat /\ Len(p) >= 1 /\ p[1] = Head(p)
      BY <1>1, <1>6
  <2>2. StartCount(t, p, r) = 1
      BY <1>3, <1>6, <2>1 DEF StartCount, FreeSlots
  <2>3. Started(t, p, r) = {Head(p)}
      BY <2>1, <2>2 DEF Started
  <2>4. Head(p) \in 1 .. Len(jobs)
      BY <1>1, <2>1
  <2>5. jobs' = [n \in 1 .. Len(jobs) |->
                    IF n = Head(p) THEN Process(t, jobs[n]) ELSE jobs[n]]
      BY <2>3, <1>4 DEF Pump
  <2>6. jobs' = [jobs EXCEPT ![Head(p)] = Process(t, @)]
    <3>1. jobs = [n \in 1 .. Len(jobs) |-> jobs[n]]
        BY <1>1
    <3>2. DOMAIN jobs = 1 .. Len(jobs)
        BY <1>1
    <3>3. QED
        BY <2>5, <2>4, <3>1, <3>2
  <2>7. SubSeq(p, StartCount(t, p, r) + 1, Len(p)) = Tail(p)
    <3>1. StartCount(t, p, r) + 1 = 2
        BY <2>2
    <3>2. QED
        BY <3>1, <1>1, <1>6, TailIsSubSeq
  <2>8. pendingByType' = [pendingByType EXCEPT
                             ![t] = SubSeq(p, StartCount(t, p, r) + 1, Len(p))]
      BY <1>4 DEF Pump
  <2>9. pendingByType' = [pendingByType EXCEPT ![t] = Tail(@)]
      BY <2>7, <2>8, <1>1
  <2>10. runningByType' = [runningByType EXCEPT ![t] = r + StartCount(t, p, r)]
      BY <1>4 DEF Pump
  <2>11. r + StartCount(t, p, r) = runningByType[t]
      BY <2>2, <1>1
  <2>12. runningByType' = runningByType
      BY <2>10, <2>11, <1>1
  <2>13. holding' = (holding \ {i}) \cup {Head(p)}
      BY <2>3, <1>4 DEF Pump
  <2>14. QED
      BY <2>6, <2>9, <2>12, <2>13, <1>4, <1>6 DEF HandOver
<1>7. QED
    BY <1>5, <1>6

-----------------------------------------------------------------------------
(* Each outcome keeps the invariant *)

\* The facts of the invariant every step below starts from.
LEMMA Facts ==
    ASSUME IInv
    PROVE  /\ jobs \in Seq(Job) /\ Len(jobs) \in Nat
           /\ \A i \in 1 .. Len(jobs) : jobs[i] \in Job /\ jobs[i].type \in JobTypes
           /\ pendingByType \in [JobTypes -> Seq(1 .. Len(jobs))]
           /\ \A t \in JobTypes : /\ Len(pendingByType[t]) \in Nat
                                  /\ pendingByType[t] \in Seq(1 .. Len(jobs))
           /\ \A t \in JobTypes : \A n \in 1 .. Len(pendingByType[t]) :
                 pendingByType[t][n] \in 1 .. Len(jobs)
           /\ runningByType \in [JobTypes -> Nat]
           /\ holding \subseteq 1 .. Len(jobs)
           /\ closed \in BOOLEAN
           /\ closePromise \in {"none", "pending", "resolved"}
<1>1. TypeOK
    BY DEF IInv
<1>2. jobs \in Seq(Job) /\ Len(jobs) \in Nat
    BY <1>1 DEF TypeOK
<1>3. \A i \in 1 .. Len(jobs) : jobs[i] \in Job
    BY <1>2
<1>4. \A i \in 1 .. Len(jobs) : jobs[i].type \in JobTypes
    BY <1>3 DEF Job
<1>5. pendingByType \in [JobTypes -> Seq(1 .. Len(jobs))]
    BY <1>1 DEF TypeOK
<1>6. \A t \in JobTypes : /\ Len(pendingByType[t]) \in Nat
                          /\ pendingByType[t] \in Seq(1 .. Len(jobs))
    BY <1>5
<1>7. \A t \in JobTypes : \A n \in 1 .. Len(pendingByType[t]) :
         pendingByType[t][n] \in 1 .. Len(jobs)
    BY <1>6
<1>8. QED
    BY <1>1, <1>2, <1>3, <1>4, <1>5, <1>6, <1>7 DEF TypeOK

\* A job whose promise is settled holds its slot until its own release, so
\* the new job's position is fresh everywhere.
LEMMA StartNowInv ==
    ASSUME IInv, NEW t \in JobTypes, NEW a \in Agents, NEW k \in TaskIds,
           StartNow(t, a, k), ~closed
    PROVE  IInv'
<1> DEFINE id == Len(jobs) + 1
<1>1. /\ jobs' \in Seq(Job) /\ Len(jobs') = id
      /\ \A i \in 1 .. Len(jobs) : jobs'[i] = jobs[i]
      /\ jobs'[id] = Process(t, NewJob(t, a, k))
      /\ pendingByType' = pendingByType /\ pendingByType[t] = <<>>
      /\ runningByType' = [runningByType EXCEPT ![t] = @ + 1]
      /\ runningByType[t] < maxConcurrencyByType[t]
      /\ holding' = holding \cup {id}
      /\ closed' = closed /\ closePromise' = closePromise
    BY DEF StartNow
<1>2. Len(jobs) \in Nat /\ id \notin holding /\ Len(jobs') \in Nat
    BY Facts, <1>1
<1>3. jobs'[id].type = t
    BY <1>1 DEF Process, NewJob
<1>4. maxConcurrencyByType[t] \in Nat
    BY LimitPositive
<1>5. TypeOK'
  <2>1. pendingByType' \in [JobTypes -> Seq(1 .. Len(jobs'))]
      BY <1>1, <1>2, Facts
  <2>2. runningByType' \in [JobTypes -> Nat]
      BY <1>1, Facts
  <2>3. holding' \subseteq 1 .. Len(jobs')
      BY <1>1, <1>2, Facts
  <2>4. QED
      BY <2>1, <2>2, <2>3, <1>1, Facts DEF TypeOK
<1>6. ConcurrencyBound'
  <2> SUFFICES ASSUME NEW u \in JobTypes
               PROVE  runningByType'[u] <= maxConcurrencyByType[u]
      BY DEF ConcurrencyBound, maxConcurrencyByType
  <2>1. CASE u = t
      BY <2>1, <1>1, <1>4, Facts
  <2>2. CASE u # t
      BY <2>2, <1>1, Facts DEF IInv, ConcurrencyBound
  <2>3. QED
      BY <2>1, <2>2
<1>7. NoIdleSlot'
  <2> SUFFICES ASSUME NEW u \in JobTypes, pendingByType[u] # <<>>
               PROVE  runningByType'[u] = maxConcurrencyByType[u]
      BY <1>1 DEF NoIdleSlot, maxConcurrencyByType
  <2>1. u # t
      BY <1>1
  <2>2. QED
      BY <2>1, <1>1, Facts DEF IInv, NoIdleSlot
<1>8. SlotsAccounted'
  <2> SUFFICES ASSUME NEW u \in JobTypes
               PROVE  runningByType'[u] = Cardinality(HeldOf(u)')
      BY DEF SlotsAccounted, HeldOf
  <2>1. CASE u = t
    <3>1. HeldOf(u)' = HeldOf(u) \cup {id}
        BY <2>1, <1>1, <1>2, <1>3, Facts DEF HeldOf
    <3>2. id \notin HeldOf(u)
        BY <1>2 DEF HeldOf
    <3>3. Cardinality(HeldOf(u) \cup {id}) = Cardinality(HeldOf(u)) + 1
        BY <3>2, HeldFinite, FS_AddElement
    <3>4. QED
        BY <2>1, <3>1, <3>3, <1>1, HeldFinite, Facts
  <2>2. CASE u # t
    <3>1. HeldOf(u)' = HeldOf(u)
        BY <2>2, <1>1, <1>2, <1>3, Facts DEF HeldOf
    <3>2. QED
        BY <2>2, <3>1, <1>1, HeldFinite, Facts
  <2>3. QED
      BY <2>1, <2>2
<1>9. PendingOK'
  <2> SUFFICES ASSUME NEW u \in JobTypes, NEW n \in 1 .. Len(pendingByType[u])
               PROVE  /\ jobs'[pendingByType[u][n]].type = u
                      /\ jobs'[pendingByType[u][n]].status = "queued"
                      /\ pendingByType[u][n] \notin holding'
      BY <1>1 DEF PendingOK
  <2>1. pendingByType[u][n] \in 1 .. Len(jobs)
      BY Facts
  <2>2. pendingByType[u][n] # id
      BY <2>1, <1>2
  <2>3. QED
      BY <2>1, <2>2, <1>1 DEF IInv, PendingOK
<1>10. PendingSorted'
    BY <1>1 DEF IInv, PendingSorted
<1>11. RunningHeld'
  <2> SUFFICES ASSUME NEW i \in 1 .. id, jobs'[i].status = "running"
               PROVE  i \in holding'
      BY <1>1 DEF RunningHeld
  <2>1. i = id \/ i \in 1 .. Len(jobs)
      BY <1>2
  <2>2. QED
      BY <2>1, <1>1 DEF IInv, RunningHeld
<1>12. PromiseOK'
    BY <1>1, Facts DEF IInv, PromiseOK
<1>13. Covered'
  <2> SUFFICES ASSUME NEW i \in 1 .. id
               PROVE \/ \E n \in 1 .. Len(pendingByType[jobs'[i].type]) :
                           pendingByType[jobs'[i].type][n] = i
                     \/ i \in holding'
                     \/ jobs'[i].status \in {"completed", "failed"}
                     \/ jobs'[i].type \notin Handled
      BY <1>1 DEF Covered, Finished
  <2>1. CASE i = id
      BY <2>1, <1>1
  <2>2. CASE i \in 1 .. Len(jobs)
      BY <2>2, <1>1 DEF IInv, Covered, Finished
  <2>3. QED
      BY <2>1, <2>2, <1>2
<1>14. HeldStarted'
  <2>1. jobs'[id].status = "queued" => jobs'[id].type \notin Handled
      BY <1>1, <1>3 DEF Process, NewJob
  <2>2. QED
      BY <2>1, <1>1, Facts DEF IInv, HeldStarted
<1>15. QED
    BY <1>5, <1>6, <1>7, <1>8, <1>9, <1>10, <1>11, <1>12, <1>13, <1>14 DEF IInv

\* A job that has to wait is appended behind the others of its type.
LEMMA WaitInv ==
    ASSUME IInv, NEW t \in JobTypes, NEW a \in Agents, NEW k \in TaskIds,
           Wait(t, a, k), ~closed
    PROVE  IInv'
<1> DEFINE id == Len(jobs) + 1
           p  == pendingByType[t]
<1>1. /\ jobs' = Append(jobs, NewJob(t, a, k))
      /\ pendingByType' = [pendingByType EXCEPT ![t] = Append(@, id)]
      /\ runningByType[t] = maxConcurrencyByType[t]
      /\ UNCHANGED <<runningByType, holding, closed, closePromise>>
    BY DEF Wait
<1>2. NewJob(t, a, k) \in Job
    BY DEF NewJob, Job, Status
<1>3. /\ jobs' \in Seq(Job) /\ Len(jobs') = id /\ Len(jobs') \in Nat
      /\ jobs'[id] = NewJob(t, a, k)
      /\ \A i \in 1 .. Len(jobs) : jobs'[i] = jobs[i]
    BY <1>1, <1>2, Facts
<1>4. /\ jobs'[id].type = t /\ jobs'[id].status = "queued"
      /\ id \notin holding /\ id \notin 1 .. Len(jobs)
    BY <1>3, Facts DEF NewJob
<1>5. /\ pendingByType'[t] = Append(p, id)
      /\ \A u \in JobTypes \ {t} : pendingByType'[u] = pendingByType[u]
      /\ Len(p) \in Nat /\ Len(pendingByType'[t]) = Len(p) + 1
      /\ pendingByType'[t][Len(p) + 1] = id
      /\ \A n \in 1 .. Len(p) : pendingByType'[t][n] = p[n]
    BY <1>1, Facts
<1>6. TypeOK'
  <2>1. pendingByType' \in [JobTypes -> Seq(1 .. Len(jobs'))]
    <3>1. \A u \in JobTypes : pendingByType[u] \in Seq(1 .. id)
        BY Facts
    <3>2. Append(p, id) \in Seq(1 .. id)
        BY <3>1, Facts
    <3>3. QED
        BY <3>1, <3>2, <1>1, <1>3, <1>5, Facts
  <2>2. holding' \subseteq 1 .. Len(jobs')
      BY <1>1, <1>3, Facts
  <2>3. QED
      BY <2>1, <2>2, <1>1, <1>3, Facts DEF TypeOK
<1>7. ConcurrencyBound'
    BY <1>1 DEF IInv, ConcurrencyBound, maxConcurrencyByType
<1>8. NoIdleSlot'
  <2> SUFFICES ASSUME NEW u \in JobTypes, pendingByType'[u] # <<>>
               PROVE  runningByType[u] = maxConcurrencyByType[u]
      BY <1>1 DEF NoIdleSlot, maxConcurrencyByType
  <2>1. CASE u = t
      BY <2>1, <1>1
  <2>2. CASE u # t
      BY <2>2, <1>5 DEF IInv, NoIdleSlot
  <2>3. QED
      BY <2>1, <2>2
<1>9. SlotsAccounted'
  <2> SUFFICES ASSUME NEW u \in JobTypes
               PROVE  runningByType[u] = Cardinality(HeldOf(u)')
      BY <1>1 DEF SlotsAccounted, HeldOf
  <2>1. HeldOf(u)' = HeldOf(u)
      BY <1>1, <1>3, Facts DEF HeldOf
  <2>2. QED
      BY <2>1, HeldFinite
<1>10. PendingOK'
  <2> SUFFICES ASSUME NEW u \in JobTypes, NEW n \in 1 .. Len(pendingByType'[u])
               PROVE  /\ jobs'[pendingByType'[u][n]].type = u
                      /\ jobs'[pendingByType'[u][n]].status = "queued"
                      /\ pendingByType'[u][n] \notin holding
      BY <1>1 DEF PendingOK
  <2>1. CASE u = t /\ n = Len(p) + 1
      BY <2>1, <1>4, <1>5
  <2>2. CASE u # t \/ n \in 1 .. Len(p)
    <3>1. /\ n \in 1 .. Len(pendingByType[u])
          /\ pendingByType'[u][n] = pendingByType[u][n]
        BY <2>2, <1>5
    <3>2. pendingByType[u][n] \in 1 .. Len(jobs)
        BY <3>1, Facts
    <3>3. QED
        BY <3>1, <3>2, <1>3 DEF IInv, PendingOK
  <2>3. QED
      BY <2>1, <2>2, <1>5
<1>11. PendingSorted'
  <2> SUFFICES ASSUME NEW u \in JobTypes,
                      NEW m \in 1 .. Len(pendingByType'[u]),
                      NEW n \in 1 .. Len(pendingByType'[u]), m < n
               PROVE  pendingByType'[u][m] < pendingByType'[u][n]
      BY DEF PendingSorted
  <2>1. CASE u = t /\ n = Len(p) + 1
    <3>1. m \in 1 .. Len(p) /\ pendingByType'[u][m] = p[m]
        BY <2>1, <1>5
    <3>2. p[m] \in 1 .. Len(jobs) /\ Len(jobs) \in Nat
        BY <3>1, Facts
    <3>3. QED
        BY <2>1, <3>1, <3>2, <1>5
  <2>2. CASE u # t \/ n \in 1 .. Len(p)
    <3>1. /\ m \in 1 .. Len(pendingByType[u]) /\ n \in 1 .. Len(pendingByType[u])
          /\ pendingByType'[u][m] = pendingByType[u][m]
          /\ pendingByType'[u][n] = pendingByType[u][n]
        BY <2>2, <1>5, SMTT(30)
    <3>2. QED
        BY <3>1 DEF IInv, PendingSorted
  <2>3. QED
      BY <2>1, <2>2, <1>5
<1>12. RunningHeld'
  <2> SUFFICES ASSUME NEW i \in 1 .. id, jobs'[i].status = "running"
               PROVE  i \in holding
      BY <1>1, <1>3 DEF RunningHeld
  <2>1. i \in 1 .. Len(jobs)
      BY <1>4, Facts
  <2>2. QED
      BY <2>1, <1>3 DEF IInv, RunningHeld
<1>13. PromiseOK'
    BY <1>1, Facts DEF IInv, PromiseOK
<1>14. Covered'
  <2> SUFFICES ASSUME NEW i \in 1 .. id
               PROVE \/ \E n \in 1 .. Len(pendingByType'[jobs'[i].type]) :
                           pendingByType'[jobs'[i].type][n] = i
                     \/ i \in holding
                     \/ jobs'[i].status \in {"completed", "failed"}
                     \/ jobs'[i].type \notin Handled
      BY <1>1, <1>3 DEF Covered, Finished
  <2>1. CASE i = id
      BY <2>1, <1>4, <1>5
  <2>2. CASE i \in 1 .. Len(jobs)
    <3>1. jobs'[i] = jobs[i] /\ jobs[i].type \in JobTypes
        BY <2>2, <1>3, Facts
    <3>2. CASE i \in holding \/ Finished(i) \/ jobs[i].type \notin Handled
        BY <3>1, <3>2 DEF Finished
    <3>3. ASSUME NEW n \in 1 .. Len(pendingByType[jobs[i].type]),
                 pendingByType[jobs[i].type][n] = i
          PROVE  \E q \in 1 .. Len(pendingByType'[jobs'[i].type]) :
                     pendingByType'[jobs'[i].type][q] = i
      <4>1. /\ n \in 1 .. Len(pendingByType'[jobs[i].type])
            /\ pendingByType'[jobs[i].type][n] = i
          BY <3>1, <3>3, <1>5
      <4>2. QED
          BY <4>1, <3>1
    <3>4. QED
        BY <2>2, <3>2, <3>3 DEF IInv, Covered
  <2>3. QED
      BY <2>1, <2>2, Facts
<1>15. HeldStarted'
    BY <1>1, <1>3, Facts DEF IInv, HeldStarted
<1>16. QED
    BY <1>6, <1>7, <1>8, <1>9, <1>10, <1>11, <1>12, <1>13, <1>14, <1>15 DEF IInv

\* A slot that nobody waits for is returned, once: its holder is removed.
LEMMA FreeSlotInv ==
    ASSUME IInv, NEW i \in 1 .. Len(jobs), FreeSlot(i)
    PROVE  IInv'
<1> DEFINE t == jobs[i].type
<1>1. /\ i \in holding /\ jobs[i].status # "running"
      /\ pendingByType[t] = <<>>
      /\ runningByType' = [runningByType EXCEPT ![t] = @ - 1]
      /\ holding' = holding \ {i}
      /\ jobs' = jobs /\ pendingByType' = pendingByType /\ closed' = closed
      /\ CheckIfDrained(closePromise, runningByType', pendingByType')
    BY DEF FreeSlot, MayRelease
<1>2. t \in JobTypes
    BY Facts
<1>3. i \in HeldOf(t)
    BY <1>1 DEF HeldOf
<1>4. /\ Cardinality(HeldOf(t) \ {i}) = Cardinality(HeldOf(t)) - 1
      /\ Cardinality(HeldOf(t)) \in Nat /\ Cardinality(HeldOf(t)) # 0
      /\ runningByType[t] = Cardinality(HeldOf(t))
  <2>1. HeldOf(t) # {}
      BY <1>3
  <2>2. QED
      BY <2>1, <1>2, <1>3, HeldFinite, FS_RemoveElement, FS_EmptySet
<1>5. runningByType' \in [JobTypes -> Nat]
    BY <1>1, <1>2, <1>4, Facts
<1>6. /\ closePromise' \in {"none", "pending", "resolved"}
      /\ closePromise' = "none" <=> closePromise = "none"
      /\ closePromise' = "resolved" =>
            closePromise = "resolved" \/ Drained(runningByType', pendingByType')
    BY <1>1, Facts DEF CheckIfDrained
<1>7. TypeOK'
    BY <1>1, <1>5, <1>6, Facts DEF TypeOK
<1>8. ConcurrencyBound'
  <2> SUFFICES ASSUME NEW u \in JobTypes
               PROVE  runningByType'[u] <= maxConcurrencyByType[u]
      BY DEF ConcurrencyBound, maxConcurrencyByType
  <2>1. /\ runningByType[u] \in Nat /\ maxConcurrencyByType[u] \in Nat
        /\ runningByType[u] <= maxConcurrencyByType[u]
      BY Facts, LimitPositive DEF IInv, ConcurrencyBound
  <2>2. runningByType'[u] <= runningByType[u]
      BY <2>1, <1>1, <1>2, Facts
  <2>3. QED
      BY <2>1, <2>2, <1>5
<1>9. NoIdleSlot'
  <2> SUFFICES ASSUME NEW u \in JobTypes, pendingByType[u] # <<>>
               PROVE  runningByType'[u] = maxConcurrencyByType[u]
      BY <1>1 DEF NoIdleSlot, maxConcurrencyByType
  <2>1. u # t
      BY <1>1
  <2>2. QED
      BY <2>1, <1>1, Facts DEF IInv, NoIdleSlot
<1>10. SlotsAccounted'
  <2> SUFFICES ASSUME NEW u \in JobTypes
               PROVE  runningByType'[u] = Cardinality(HeldOf(u)')
      BY DEF SlotsAccounted, HeldOf
  <2>1. CASE u = t
    <3>1. HeldOf(u)' = HeldOf(u) \ {i}
        BY <2>1, <1>1 DEF HeldOf
    <3>2. QED
        BY <2>1, <3>1, <1>1, <1>2, <1>4, Facts
  <2>2. CASE u # t
    <3>1. HeldOf(u)' = HeldOf(u)
        BY <2>2, <1>1 DEF HeldOf
    <3>2. QED
        BY <2>2, <3>1, <1>1, HeldFinite, Facts
  <2>3. QED
      BY <2>1, <2>2
<1>11. PendingOK'
    BY <1>1 DEF IInv, PendingOK
<1>12. PendingSorted'
    BY <1>1 DEF IInv, PendingSorted
<1>13. RunningHeld'
    BY <1>1 DEF IInv, RunningHeld
<1>14. PromiseOK'
  <2>1. (closePromise' = "none") <=> ~closed'
      BY <1>1, <1>6 DEF IInv, PromiseOK
  <2>2. closePromise # "resolved"
    <3>1. runningByType[t] # 0
        BY <1>4
    <3>2. QED
        BY <3>1, <1>2 DEF IInv, PromiseOK, Drained
  <2>3. QED
      BY <2>1, <2>2, <1>6 DEF PromiseOK
<1>15. Covered'
  <2>1. Finished(i) \/ t \notin Handled
    <3>1. jobs[i].status = "queued" => t \notin Handled
        BY <1>1 DEF IInv, HeldStarted
    <3>2. jobs[i].status \in Status
        BY Facts DEF Job
    <3>3. QED
        BY <3>1, <3>2, <1>1 DEF Status, Finished
  <2>2. QED
      BY <2>1, <1>1 DEF IInv, Covered, Finished
<1>16. HeldStarted'
    BY <1>1 DEF IInv, HeldStarted
<1>17. QED
    BY <1>7, <1>8, <1>9, <1>10, <1>11, <1>12, <1>13, <1>14, <1>15, <1>16 DEF IInv

\* A slot handed over changes hands within one type: the count stays, the
\* head of the waiting list becomes the holder.
LEMMA HandOverInv ==
    ASSUME IInv, NEW i \in 1 .. Len(jobs), NEW t, NEW next, HandOver(i, t, next)
    PROVE  IInv'
<1> DEFINE p == pendingByType[t]
<1>1. /\ i \in holding /\ jobs[i].status # "running"
      /\ t = jobs[i].type /\ t \in JobTypes
      /\ p # <<>> /\ next = Head(p)
      /\ jobs' = [jobs EXCEPT ![next] = Process(t, @)]
      /\ pendingByType' = [pendingByType EXCEPT ![t] = Tail(@)]
      /\ holding' = (holding \ {i}) \cup {next}
      /\ runningByType' = runningByType /\ closed' = closed
      /\ CheckIfDrained(closePromise, runningByType', pendingByType')
    BY Facts DEF HandOver, MayRelease
<1>2. /\ p \in Seq(1 .. Len(jobs)) /\ Len(p) \in Nat /\ Len(p) >= 1
      /\ next = p[1] /\ next \in 1 .. Len(jobs)
    BY <1>1, Facts
<1>3. jobs[next].type = t /\ jobs[next].status = "queued" /\ next \notin holding
    BY <1>1, <1>2 DEF IInv, PendingOK
<1>4. /\ Process(t, jobs[next]) \in Job
      /\ Process(t, jobs[next]).type = t
      /\ t \in Handled => Process(t, jobs[next]).status = "running"
    BY <1>2, <1>3, Facts DEF Process, Job, Status
<1>5. /\ jobs' \in Seq(Job) /\ Len(jobs') = Len(jobs)
      /\ jobs'[next] = Process(t, jobs[next])
      /\ \A j \in 1 .. Len(jobs) : j # next => jobs'[j] = jobs[j]
      /\ \A j \in 1 .. Len(jobs) : jobs'[j].type = jobs[j].type
  <2>1. jobs' \in Seq(Job) /\ Len(jobs') = Len(jobs)
      BY <1>1, <1>2, <1>4, Facts, ExceptSeq, SMTT(60)
  <2>2. /\ jobs'[next] = Process(t, jobs[next])
        /\ \A j \in 1 .. Len(jobs) : j # next => jobs'[j] = jobs[j]
      BY <1>1, <1>2, Facts
  <2>3. QED
      BY <2>1, <2>2, <1>3, <1>4
<1>6. /\ Tail(p) \in Seq(1 .. Len(jobs)) /\ Len(Tail(p)) = Len(p) - 1
      /\ \A n \in 1 .. Len(p) - 1 : Tail(p)[n] = p[n + 1]
  <2> HIDE DEF p
  <2>1. QED
      BY <1>1, <1>2, HeadTailProperties
<1>7. /\ pendingByType'[t] = Tail(p)
      /\ \A u \in JobTypes : u # t => pendingByType'[u] = pendingByType[u]
    BY <1>1, Facts
<1>8. \A u \in JobTypes : \A n \in 1 .. Len(pendingByType'[u]) :
         \E m \in 1 .. Len(pendingByType[u]) :
            /\ pendingByType'[u][n] = pendingByType[u][m]
            /\ u = t => m = n + 1
            /\ u # t => m = n
  <2> SUFFICES ASSUME NEW u \in JobTypes, NEW n \in 1 .. Len(pendingByType'[u])
               PROVE  \E m \in 1 .. Len(pendingByType[u]) :
                         /\ pendingByType'[u][n] = pendingByType[u][m]
                         /\ u = t => m = n + 1
                         /\ u # t => m = n
      OBVIOUS
  <2>1. CASE u = t
    <3>1. n + 1 \in 1 .. Len(p) /\ pendingByType'[t][n] = p[n + 1]
        BY <2>1, <1>2, <1>6, <1>7
    <3>2. QED
        BY <2>1, <3>1
  <2>2. CASE u # t
      BY <2>2, <1>7
  <2>3. QED
      BY <2>1, <2>2
<1>9. closePromise # "resolved" /\ closePromise' = closePromise
  <2>1. runningByType[t] = maxConcurrencyByType[t] /\ runningByType[t] # 0
      BY <1>1, LimitPositive DEF IInv, NoIdleSlot
  <2>2. ~Drained(runningByType', pendingByType')
      BY <2>1, <1>1 DEF Drained
  <2>3. ~Drained(runningByType, pendingByType)
      BY <2>1, <1>1 DEF Drained
  <2>4. QED
      BY <2>2, <2>3, <1>1 DEF IInv, PromiseOK, CheckIfDrained
<1>10. TypeOK'
  <2>1. pendingByType' \in [JobTypes -> Seq(1 .. Len(jobs'))]
      BY <1>1, <1>5, <1>6, Facts
  <2>2. holding' \subseteq 1 .. Len(jobs')
      BY <1>1, <1>2, <1>5, Facts
  <2>3. QED
      BY <2>1, <2>2, <1>1, <1>5, <1>9, Facts DEF TypeOK
<1>11. ConcurrencyBound'
    BY <1>1 DEF IInv, ConcurrencyBound, maxConcurrencyByType
<1>12. NoIdleSlot'
    BY <1>1, <1>7 DEF IInv, NoIdleSlot, maxConcurrencyByType
<1>13. SlotsAccounted'
  <2> SUFFICES ASSUME NEW u \in JobTypes
               PROVE  runningByType[u] = Cardinality(HeldOf(u)')
      BY <1>1 DEF SlotsAccounted, HeldOf
  <2> DEFINE ids == 1 .. Len(jobs)
  <2>0. /\ holding \subseteq ids /\ i \in holding /\ jobs[i].type = t
        /\ next \in ids /\ jobs[next].type = t /\ holding' = (holding \ {i}) \cup {next}
        /\ \A j \in ids : jobs'[j].type = jobs[j].type
      BY <1>1, <1>2, <1>3, <1>5, Facts
  <2> HIDE DEF ids
  <2>1. CASE u = t
    <3>1. HeldOf(u)' = (HeldOf(u) \ {i}) \cup {next}
        BY <2>0, <2>1 DEF HeldOf
    <3>2. i \in HeldOf(u) /\ next \notin HeldOf(u) \ {i}
        BY <2>1, <1>1, <1>3 DEF HeldOf
    <3>3. /\ IsFiniteSet(HeldOf(u) \ {i})
          /\ Cardinality(HeldOf(u) \ {i}) = Cardinality(HeldOf(u)) - 1
        BY <3>2, HeldFinite, FS_RemoveElement
    <3>4. Cardinality((HeldOf(u) \ {i}) \cup {next})
             = Cardinality(HeldOf(u) \ {i}) + 1
        BY <3>2, <3>3, FS_AddElement
    <3>5. QED
        BY <3>1, <3>3, <3>4, HeldFinite
  <2>2. CASE u # t
    <3>1. HeldOf(u)' = HeldOf(u)
        BY <2>0, <2>2 DEF HeldOf
    <3>2. QED
        BY <3>1, HeldFinite
  <2>3. QED
      BY <2>1, <2>2
<1>14. PendingOK'
  <2> SUFFICES ASSUME NEW u \in JobTypes, NEW n \in 1 .. Len(pendingByType'[u])
               PROVE  /\ jobs'[pendingByType'[u][n]].type = u
                      /\ jobs'[pendingByType'[u][n]].status = "queued"
                      /\ pendingByType'[u][n] \notin holding'
      BY DEF PendingOK
  <2>1. PICK m \in 1 .. Len(pendingByType[u]) :
            /\ pendingByType'[u][n] = pendingByType[u][m]
            /\ u = t => m = n + 1
            /\ u # t => m = n
      BY <1>8
  <2>2. /\ pendingByType[u][m] \in 1 .. Len(jobs)
        /\ jobs[pendingByType[u][m]].type = u
        /\ jobs[pendingByType[u][m]].status = "queued"
        /\ pendingByType[u][m] \notin holding
      BY Facts DEF IInv, PendingOK
  <2>3. pendingByType[u][m] # next
    <3>1. CASE u = t
      <4>1. 1 < m /\ 1 \in 1 .. Len(pendingByType[u])
          BY <3>1, <2>1, <1>2
      <4>2. pendingByType[u][1] < pendingByType[u][m]
          BY <4>1 DEF IInv, PendingSorted
      <4>3. QED
          BY <3>1, <4>2, <2>2, <1>2
    <3>2. CASE u # t
        BY <3>2, <2>2, <1>3
    <3>3. QED
        BY <3>1, <3>2
  <2>4. jobs'[pendingByType[u][m]] = jobs[pendingByType[u][m]]
      BY <2>2, <2>3, <1>5
  <2>5. pendingByType[u][m] \notin holding'
      BY <2>2, <2>3, <1>1
  <2>6. QED
      BY <2>1, <2>2, <2>4, <2>5
<1>15. PendingSorted'
  <2> SUFFICES ASSUME NEW u \in JobTypes,
                      NEW m \in 1 .. Len(pendingByType'[u]),
                      NEW n \in 1 .. Len(pendingByType'[u]), m < n
               PROVE  pendingByType'[u][m] < pendingByType'[u][n]
      BY DEF PendingSorted
  <2>1. PICK x \in 1 .. Len(pendingByType[u]) :
            /\ pendingByType'[u][m] = pendingByType[u][x]
            /\ u = t => x = m + 1
            /\ u # t => x = m
      BY <1>8
  <2>2. PICK y \in 1 .. Len(pendingByType[u]) :
            /\ pendingByType'[u][n] = pendingByType[u][y]
            /\ u = t => y = n + 1
            /\ u # t => y = n
      BY <1>8
  <2>3. x < y
      BY <2>1, <2>2
  <2>4. QED
      BY <2>1, <2>2, <2>3 DEF IInv, PendingSorted
<1>16. RunningHeld'
  <2> SUFFICES ASSUME NEW j \in 1 .. Len(jobs), jobs'[j].status = "running"
               PROVE  j \in holding'
      BY <1>5 DEF RunningHeld
  <2>1. CASE j = next
      BY <2>1, <1>1
  <2>2. CASE j # next
      BY <2>2, <1>1, <1>5 DEF IInv, RunningHeld
  <2>3. QED
      BY <2>1, <2>2
<1>17. PromiseOK'
  <2>1. closePromise' = closePromise /\ closed' = closed
      BY <1>1, <1>9
  <2>2. (closePromise = "none") <=> ~closed
      BY DEF IInv, PromiseOK
  <2>3. closePromise' # "resolved"
      BY <1>9
  <2>4. QED
      BY <2>1, <2>2, <2>3 DEF PromiseOK
<1>18. HeldStarted'
  <2> SUFFICES ASSUME NEW j \in holding', jobs'[j].status = "queued"
               PROVE  jobs'[j].type \notin Handled
      BY DEF HeldStarted
  <2>1. CASE j = next
      BY <2>1, <1>4, <1>5
  <2>2. CASE j # next
      BY <2>2, <1>1, <1>5, Facts DEF IInv, HeldStarted
  <2>3. QED
      BY <2>1, <2>2
<1>19. Covered'
  <2> SUFFICES ASSUME NEW j \in 1 .. Len(jobs)
               PROVE \/ \E n \in 1 .. Len(pendingByType'[jobs[j].type]) :
                           pendingByType'[jobs[j].type][n] = j
                     \/ j \in holding'
                     \/ jobs'[j].status \in {"completed", "failed"}
                     \/ jobs[j].type \notin Handled
      BY <1>5 DEF Covered, Finished
  <2>1. CASE j = next
      BY <2>1, <1>1
  <2>2. CASE j = i
    <3>1. jobs[i].status \in Status
        BY Facts DEF Job
    <3>2. jobs[i].status = "queued" => t \notin Handled
        BY <1>1 DEF IInv, HeldStarted
    <3>3. QED
        BY <2>2, <3>1, <3>2, <1>1, <1>3, <1>5 DEF Status
  <2>3. CASE j # next /\ j # i
    <3>1. CASE j \in holding \/ Finished(j) \/ jobs[j].type \notin Handled
        BY <2>3, <3>1, <1>1, <1>5 DEF Finished
    <3>2. ASSUME NEW n \in 1 .. Len(pendingByType[jobs[j].type]),
                 pendingByType[jobs[j].type][n] = j
          PROVE  \E m \in 1 .. Len(pendingByType'[jobs[j].type]) :
                    pendingByType'[jobs[j].type][m] = j
      <4>1. CASE jobs[j].type = t
        <5>1. n # 1
            BY <4>1, <3>2, <2>3, <1>2
        <5>2. n - 1 \in 1 .. Len(Tail(p)) /\ Tail(p)[n - 1] = j
            BY <4>1, <5>1, <3>2, <1>2, <1>6
        <5>3. QED
            BY <4>1, <5>2, <1>7
      <4>2. CASE jobs[j].type # t
          BY <4>2, <3>2, <1>7, Facts
      <4>3. QED
          BY <4>1, <4>2
    <3>3. QED
        BY <3>1, <3>2 DEF IInv, Covered
  <2>4. QED
      BY <2>1, <2>2, <2>3
<1>20. QED
    BY <1>10, <1>11, <1>12, <1>13, <1>14, <1>15, <1>16, <1>17, <1>18, <1>19 DEF IInv

\* A handler settles: only the status of its job changes.
LEMMA SettleInv ==
    ASSUME IInv, NEW i \in 1 .. Len(jobs),
           NEW outcome \in {"completed", "failed"}, Settle(i, outcome)
    PROVE  IInv'
<1>1. /\ jobs[i].status = "running"
      /\ jobs' = [jobs EXCEPT ![i].status = outcome]
      /\ UNCHANGED <<pendingByType, runningByType, holding, closed, closePromise>>
    BY DEF Settle
<1>2. [jobs[i] EXCEPT !.status = outcome] \in Job
    BY Facts DEF Job, Status
<1>3. /\ jobs' \in Seq(Job) /\ Len(jobs') = Len(jobs)
      /\ jobs'[i].status = outcome
      /\ \A j \in 1 .. Len(jobs) : jobs'[j].type = jobs[j].type
      /\ \A j \in 1 .. Len(jobs) : j # i => jobs'[j] = jobs[j]
  <2>1. jobs' \in Seq(Job) /\ Len(jobs') = Len(jobs)
    <3>1. jobs' = [jobs EXCEPT ![i] = [jobs[i] EXCEPT !.status = outcome]]
        BY <1>1, Facts
    <3>2. QED
        BY <3>1, <1>2, Facts, ExceptSeq
  <2>2. jobs'[i] = [jobs[i] EXCEPT !.status = outcome]
    <3>1. DOMAIN jobs = 1 .. Len(jobs) /\ i \in DOMAIN jobs
        BY Facts
    <3>2. QED
        BY <3>1, <1>1
  <2>3. jobs'[i].status = outcome /\ jobs'[i].type = jobs[i].type
    <3>1. jobs[i] \in Job
        BY Facts
    <3>2. /\ [jobs[i] EXCEPT !.status = outcome].status = outcome
          /\ [jobs[i] EXCEPT !.status = outcome].type = jobs[i].type
        BY <3>1 DEF Job
    <3>3. QED
        BY <2>2, <3>2
  <2>4. \A j \in 1 .. Len(jobs) : j # i => jobs'[j] = jobs[j]
      BY <1>1, Facts
  <2>5. QED
      BY <2>1, <2>3, <2>4
<1>4. i \in holding
    BY <1>1 DEF IInv, RunningHeld
<1>5. TypeOK'
    BY <1>1, <1>3, Facts DEF TypeOK
<1>6. ConcurrencyBound' /\ NoIdleSlot' /\ PendingSorted'
    BY <1>1 DEF IInv, ConcurrencyBound, NoIdleSlot, PendingSorted, maxConcurrencyByType
<1>7. SlotsAccounted'
  <2> SUFFICES ASSUME NEW u \in JobTypes
               PROVE  runningByType[u] = Cardinality(HeldOf(u)')
      BY <1>1 DEF SlotsAccounted, HeldOf
  <2>1. HeldOf(u)' = HeldOf(u)
      BY <1>1, <1>3, Facts DEF HeldOf
  <2>2. QED
      BY <2>1, HeldFinite
<1>8. PendingOK'
  <2> SUFFICES ASSUME NEW u \in JobTypes, NEW n \in 1 .. Len(pendingByType[u])
               PROVE  /\ jobs'[pendingByType[u][n]].type = u
                      /\ jobs'[pendingByType[u][n]].status = "queued"
                      /\ pendingByType[u][n] \notin holding
      BY <1>1 DEF PendingOK
  <2>1. /\ pendingByType[u][n] \in 1 .. Len(jobs)
        /\ pendingByType[u][n] # i
      BY <1>4, Facts DEF IInv, PendingOK
  <2>2. QED
      BY <2>1, <1>3 DEF IInv, PendingOK
<1>9. RunningHeld' /\ HeldStarted'
  <2>1. RunningHeld'
      BY <1>1, <1>3 DEF IInv, RunningHeld
  <2>2. HeldStarted'
      BY <1>1, <1>3, Facts DEF IInv, HeldStarted
  <2>3. QED
      BY <2>1, <2>2
<1>10. PromiseOK'
    BY <1>1 DEF IInv, PromiseOK, Drained
<1>11. Covered'
  <2> SUFFICES ASSUME NEW j \in 1 .. Len(jobs)
               PROVE \/ \E n \in 1 .. Len(pendingByType[jobs[j].type]) :
                           pendingByType[jobs[j].type][n] = j
                     \/ j \in holding
                     \/ jobs'[j].status \in {"completed", "failed"}
                     \/ jobs[j].type \notin Handled
      BY <1>1, <1>3 DEF Covered, Finished
  <2>1. CASE j = i
      BY <2>1, <1>4
  <2>2. CASE j # i
      BY <2>2, <1>3 DEF IInv, Covered, Finished
  <2>3. QED
      BY <2>1, <2>2
<1>12. QED
    BY <1>5, <1>6, <1>7, <1>8, <1>9, <1>10, <1>11 DEF IInv

\* close() raises the flag; the promise is resolved at once only if drained.
LEMMA CloseInv == IInv /\ Close => IInv'
<1> SUFFICES ASSUME IInv, Close PROVE IInv'
    OBVIOUS
<1>1. /\ closed' = TRUE
      /\ UNCHANGED <<jobs, pendingByType, runningByType, holding>>
      /\ closePromise' \in {"pending", "resolved"}
      /\ closePromise' = "resolved" => Drained(runningByType, pendingByType)
    BY DEF Close, CheckIfDrained
<1>2. TypeOK'
    BY <1>1, Facts DEF TypeOK
<1>3. ConcurrencyBound' /\ NoIdleSlot' /\ SlotsAccounted' /\ PendingOK'
      /\ PendingSorted' /\ RunningHeld' /\ HeldStarted'
    BY <1>1 DEF IInv, ConcurrencyBound, NoIdleSlot, SlotsAccounted, PendingOK,
                PendingSorted, RunningHeld, HeldStarted, maxConcurrencyByType
<1>4. PromiseOK'
    BY <1>1 DEF PromiseOK, Drained
<1>5. Covered'
    BY <1>1 DEF IInv, Covered, Finished
<1>6. QED
    BY <1>2, <1>3, <1>4, <1>5 DEF IInv

\* The records are dropped when no slot is held and nobody waits.
LEMMA ForgetInv == IInv /\ Forget => IInv'
<1> SUFFICES ASSUME IInv, Forget PROVE IInv'
    OBVIOUS
<1>1. /\ closePromise = "resolved" /\ jobs' = <<>>
      /\ pendingByType' = [t \in JobTypes |-> <<>>]
      /\ UNCHANGED <<runningByType, holding, closed, closePromise>>
    BY DEF Forget
<1>2. \A t \in JobTypes : runningByType[t] = 0 /\ pendingByType[t] = <<>>
    BY <1>1 DEF IInv, PromiseOK, Drained
<1>3. holding = {}
  <2> SUFFICES ASSUME NEW i \in holding PROVE FALSE
      OBVIOUS
  <2>1. i \in 1 .. Len(jobs) /\ jobs[i].type \in JobTypes
      BY Facts
  <2>2. HeldOf(jobs[i].type) # {}
      BY DEF HeldOf
  <2>3. QED
      BY <2>1, <2>2, <1>2, HeldFinite, FS_EmptySet
<1>4. \A t \in JobTypes : pendingByType'[t] = <<>> /\ Len(pendingByType'[t]) = 0
    BY <1>1
<1>5. Len(jobs') = 0 /\ jobs' \in Seq(Job)
    BY <1>1
<1>6. TypeOK'
  <2>1. pendingByType' \in [JobTypes -> Seq(1 .. Len(jobs'))]
      BY <1>1
  <2>2. QED
      BY <2>1, <1>1, <1>3, <1>5, Facts DEF TypeOK
<1>7. ConcurrencyBound' /\ NoIdleSlot'
    BY <1>1, <1>4 DEF IInv, ConcurrencyBound, NoIdleSlot, maxConcurrencyByType
<1>8. SlotsAccounted'
  <2> SUFFICES ASSUME NEW t \in JobTypes
               PROVE  runningByType'[t] = Cardinality(HeldOf(t)')
      BY DEF SlotsAccounted, HeldOf
  <2>1. HeldOf(t)' = {}
      BY <1>1, <1>3 DEF HeldOf
  <2>2. QED
      BY <2>1, <1>1, <1>2, FS_EmptySet
<1>9. PendingOK' /\ PendingSorted'
    BY <1>4 DEF PendingOK, PendingSorted
<1>10. RunningHeld' /\ HeldStarted' /\ Covered'
    BY <1>1, <1>3, <1>5 DEF RunningHeld, HeldStarted, Covered
<1>11. PromiseOK'
    BY <1>1, <1>2, <1>4 DEF IInv, PromiseOK, Drained
<1>12. QED
    BY <1>6, <1>7, <1>8, <1>9, <1>10, <1>11 DEF IInv

-----------------------------------------------------------------------------
(* The theorems *)

LEMMA InitInv == Init => IInv
<1> SUFFICES ASSUME Init PROVE IInv
    OBVIOUS
<1>1. /\ jobs = <<>> /\ Len(jobs) = 0 /\ jobs \in Seq(Job)
      /\ pendingByType = [t \in JobTypes |-> <<>>]
      /\ \A t \in JobTypes : pendingByType[t] = <<>> /\ Len(pendingByType[t]) = 0
      /\ runningByType = [t \in JobTypes |-> 0] /\ holding = {}
      /\ closed = FALSE /\ closePromise = "none"
    BY DEF Init
<1>2. TypeOK
  <2>1. pendingByType \in [JobTypes -> Seq(1 .. Len(jobs))]
      BY <1>1
  <2>2. runningByType \in [JobTypes -> Nat]
      BY <1>1
  <2>3. QED
      BY <2>1, <2>2, <1>1 DEF TypeOK
<1>3. ConcurrencyBound
    BY <1>1, LimitPositive DEF ConcurrencyBound
<1>4. SlotsAccounted
  <2> SUFFICES ASSUME NEW t \in JobTypes
               PROVE  runningByType[t] = Cardinality({i \in holding : jobs[i].type = t})
      BY DEF SlotsAccounted
  <2>1. {i \in holding : jobs[i].type = t} = {}
      BY <1>1
  <2>2. QED
      BY <2>1, <1>1, FS_EmptySet
<1>5. NoIdleSlot /\ PendingOK /\ PendingSorted /\ RunningHeld /\ PromiseOK
      /\ HeldStarted /\ Covered
    BY <1>1 DEF NoIdleSlot, PendingOK, PendingSorted, RunningHeld, PromiseOK,
                HeldStarted, Covered
<1>6. QED
    BY <1>2, <1>3, <1>4, <1>5 DEF IInv

LEMMA NextInv == IInv /\ [Next]_vars => IInv'
<1> SUFFICES ASSUME IInv, [Next]_vars PROVE IInv'
    OBVIOUS
<1>1. ASSUME NEW t \in JobTypes, NEW a \in Agents, NEW k \in TaskIds,
             Enqueue(t, a, k)
      PROVE  IInv'
  <2>1. ~closed
      BY <1>1 DEF Enqueue
  <2>2. QED
      BY <1>1, <2>1, EnqueueCases, StartNowInv, WaitInv
<1>2. ASSUME NEW i \in 1 .. Len(jobs), Release(i)
      PROVE  IInv'
    BY <1>2, ReleaseCases, FreeSlotInv, HandOverInv
<1>3. CASE UNCHANGED vars
  <2>1. /\ jobs' = jobs /\ pendingByType' = pendingByType
        /\ runningByType' = runningByType /\ holding' = holding
        /\ closed' = closed /\ closePromise' = closePromise
      BY <1>3 DEF vars
  <2>2. TypeOK' /\ ConcurrencyBound' /\ NoIdleSlot' /\ SlotsAccounted'
      BY <2>1 DEF IInv, TypeOK, ConcurrencyBound, NoIdleSlot, SlotsAccounted,
                  maxConcurrencyByType
  <2>3. PendingOK' /\ PendingSorted' /\ RunningHeld' /\ HeldStarted'
      BY <2>1 DEF IInv, PendingOK, PendingSorted, RunningHeld, HeldStarted
  <2>4. PromiseOK' /\ Covered'
      BY <2>1 DEF IInv, PromiseOK, Drained, Covered, Finished
  <2>5. QED
      BY <2>2, <2>3, <2>4 DEF IInv
<1>4. NoTask \in TaskIds /\ "task.execute" \in JobTypes
    BY DEF TaskIds, JobTypes
<1>5. QED
    BY <1>1, <1>2, <1>3, <1>4, SettleInv, CloseInv, ForgetInv DEF Next

\* The strengthened invariant holds in every reachable state, for every set
\* of agents and tasks, every options object and any number of jobs.
THEOREM QueueInvariant == Spec => []IInv
<1>1. QED
    BY InitInv, NextInv, PTL DEF Spec

\* Type correctness of the queue.
THEOREM TypeCorrect == Spec => []TypeOK
<1>1. IInv => TypeOK
    BY DEF IInv
<1>2. QED
    BY <1>1, QueueInvariant, PTL

\* runningByType never exceeds the limit, whatever jobs finish or fail.
THEOREM BoundedConcurrency == Spec => []ConcurrencyBound
<1>1. IInv => ConcurrencyBound
    BY DEF IInv
<1>2. QED
    BY <1>1, QueueInvariant, PTL

\* pump never leaves a job waiting beside a free slot.
THEOREM WorkConserving == Spec => []NoIdleSlot
<1>1. IInv => NoIdleSlot
    BY DEF IInv
<1>2. QED
    BY <1>1, QueueInvariant, PTL

\* The slot counter always equals the number of unfinished promises.
THEOREM SlotAccounting == Spec => []SlotsAccounted
<1>1. IInv => SlotsAccounted
    BY DEF IInv
<1>2. QED
    BY <1>1, QueueInvariant, PTL

\* close() never resolves before every accepted job has finished.
THEOREM ShutdownDrains == Spec => []CloseDrains
<1>1. IInv => CloseDrains
  <2> SUFFICES ASSUME IInv, closePromise = "resolved"
               PROVE  /\ holding = {}
                      /\ \A i \in 1 .. Len(jobs) :
                             jobs[i].type \in Handled => Finished(i)
      BY DEF CloseDrains
  <2>1. \A t \in JobTypes : runningByType[t] = 0 /\ pendingByType[t] = <<>>
      BY DEF IInv, PromiseOK, Drained
  <2>2. holding = {}
    <3> SUFFICES ASSUME NEW i \in holding PROVE FALSE
        OBVIOUS
    <3>1. i \in 1 .. Len(jobs) /\ jobs[i].type \in JobTypes
        BY Facts
    <3>2. HeldOf(jobs[i].type) # {}
        BY DEF HeldOf
    <3>3. QED
        BY <2>1, <3>1, <3>2, HeldFinite, FS_EmptySet
  <2>3. \A i \in 1 .. Len(jobs) : Len(pendingByType[jobs[i].type]) = 0
      BY <2>1, Facts
  <2>4. QED
      BY <2>2, <2>3 DEF IInv, Covered
<1>2. QED
    BY <1>1, QueueInvariant, PTL

-----------------------------------------------------------------------------
(* Work items: executions of the same (agent, task)                         *)

\* The executions at work, those that wait, and what they name.
Running == {i \in 1 .. Len(jobs) : /\ jobs[i].type = "task.execute"
                                   /\ jobs[i].status = "running"}
Waiting == PendingIds("task.execute")
ItemOf(i) == <<jobs[i].agentId, jobs[i].taskId>>

\* No two of them name the same.
Unique == \A i, j \in Running \cup Waiting : ItemOf(i) = ItemOf(j) => i = j

\* What a step does to them.  The records of accepted jobs go on naming what
\* they name, and the identifier of a new one is fresh.
Names(i, w) == i \in 1 .. Len(jobs') /\ <<jobs'[i].agentId, jobs'[i].taskId>> = w
Keeps == \A i \in 1 .. Len(jobs) : Names(i, ItemOf(i))

Requested(a, k) ==
    LET n == Len(jobs) + 1 IN
    /\ Keeps /\ Names(n, <<a, k>>) /\ ~AlreadyQueued(a, k)
    /\ \/ Running' = Running /\ Waiting' = Waiting /\ "task.execute" \notin Handled
       \/ Running' = Running /\ Waiting' = Waiting \cup {n}
       \/ /\ runningByType["task.execute"] < maxConcurrencyByType["task.execute"]
          /\ Running' = Running \cup {n} /\ Waiting' = Waiting

Begun(i) ==
    /\ Keeps /\ i \in Waiting
    /\ Waiting' = Waiting \ {i}
    /\ Running' = IF "task.execute" \in Handled THEN Running \cup {i} ELSE Running

Ended(i) == Keeps /\ i \in Running /\ Running' = Running \ {i} /\ Waiting' = Waiting

LEMMA ElementsOfAppend ==
    ASSUME NEW S, NEW s \in Seq(S), NEW e \in S
    PROVE  {Append(s, e)[n] : n \in 1 .. Len(Append(s, e))} = {s[n] : n \in 1 .. Len(s)} \cup {e}
<1>1. /\ Len(s) \in Nat /\ Len(Append(s, e)) = Len(s) + 1
      /\ Append(s, e)[Len(s) + 1] = e
      /\ \A n \in 1 .. Len(s) : Append(s, e)[n] = s[n]
    OBVIOUS
<1>2. 1 .. Len(s) + 1 = (1 .. Len(s)) \cup {Len(s) + 1}
    BY <1>1
<1>3. QED
    BY <1>1, <1>2, Zenon

LEMMA ElementsOfTail ==
    ASSUME NEW S, NEW s \in Seq(S), s # <<>>,
           \A m, n \in 1 .. Len(s) : m # n => s[m] # s[n]
    PROVE  /\ Head(s) \in {s[n] : n \in 1 .. Len(s)}
           /\ {Tail(s)[n] : n \in 1 .. Len(Tail(s))} = {s[n] : n \in 1 .. Len(s)} \ {Head(s)}
<1>1. /\ Len(s) \in Nat /\ Len(s) >= 1 /\ Head(s) = s[1] /\ Len(Tail(s)) = Len(s) - 1
      /\ \A n \in 1 .. Len(s) - 1 : Tail(s)[n] = s[n + 1]
    OBVIOUS
<1>2. 1 \in 1 .. Len(s)
    BY <1>1
<1>3. \A n \in 1 .. Len(s) - 1 : n + 1 \in 1 .. Len(s) /\ n + 1 # 1
    BY <1>1
<1>4. \A n \in 1 .. Len(s) : n # 1 => n - 1 \in 1 .. Len(s) - 1 /\ (n - 1) + 1 = n
    BY <1>1
<1>5. ASSUME NEW x \in {Tail(s)[n] : n \in 1 .. Len(Tail(s))}
      PROVE  x \in {s[n] : n \in 1 .. Len(s)} \ {Head(s)}
    <2>1. PICK n \in 1 .. Len(s) - 1 : x = s[n + 1]
        BY <1>1
    <2> QED
        BY <1>1, <1>2, <1>3, <2>1
<1>6. ASSUME NEW x \in {s[n] : n \in 1 .. Len(s)}, x # Head(s)
      PROVE  x \in {Tail(s)[n] : n \in 1 .. Len(Tail(s))}
    <2>1. PICK n \in 1 .. Len(s) : x = s[n]
        OBVIOUS
    <2>2. n # 1
        BY <1>1, <1>6, <2>1
    <2>3. n - 1 \in 1 .. Len(Tail(s)) /\ Tail(s)[n - 1] = x
        BY <1>1, <1>4, <2>1, <2>2
    <2> QED
        BY <2>3
<1>7. Head(s) \in {s[n] : n \in 1 .. Len(s)}
    BY <1>1, <1>2
<1> QED
    BY <1>5, <1>6, <1>7

\* Where they are, and how the test of enqueue reads.
LEMMA ItemFacts ==
    ASSUME IInv
    PROVE  /\ Running \subseteq 1 .. Len(jobs) /\ Waiting \subseteq 1 .. Len(jobs)
           /\ Running \subseteq HeldOf("task.execute")
           /\ \A i \in Waiting : jobs[i].type = "task.execute" /\ jobs[i].status = "queued"
           /\ Running \cap Waiting = {}
           /\ \A i \in Running \cup Waiting : ItemOf(i) \in WorkItems
           /\ \A a, k : AlreadyQueued(a, k) <=> \E i \in Running \cup Waiting : ItemOf(i) = <<a, k>>
<1>1. "task.execute" \in JobTypes
    BY DEF JobTypes
<1>2. Waiting \subseteq 1 .. Len(jobs)
    BY <1>1, Facts DEF Waiting, PendingIds
<1>3. \A i \in Waiting : jobs[i].type = "task.execute" /\ jobs[i].status = "queued"
    BY <1>1 DEF Waiting, PendingIds, IInv, PendingOK
<1>4. Running \subseteq 1 .. Len(jobs) /\ Running \subseteq HeldOf("task.execute")
    BY DEF Running, HeldOf, IInv, RunningHeld
<1>5. \A i \in Running \cup Waiting : ItemOf(i) \in WorkItems
    <2>1. \A i \in 1 .. Len(jobs) : jobs[i] \in Job
        BY Facts
    <2> QED
        BY <1>2, <1>4, <2>1 DEF ItemOf, WorkItems, Job
<1>6. \A a, k : AlreadyQueued(a, k) <=> \E i \in Running \cup Waiting : ItemOf(i) = <<a, k>>
    BY DEF AlreadyQueued, IsSameJob, Running, Waiting, ItemOf
<1> QED
    BY <1>2, <1>3, <1>4, <1>5, <1>6 DEF Running

Quiet == Keeps /\ Running' = Running /\ Waiting' = Waiting

LEMMA EnqueueItems ==
    ASSUME IInv, NEW t \in JobTypes, NEW a \in Agents, NEW k \in TaskIds, Enqueue(t, a, k)
    PROVE  /\ t = "task.execute" => Requested(a, k)
           /\ t # "task.execute" => Quiet
<1> DEFINE n == Len(jobs) + 1
           new == Process(t, NewJob(t, a, k))
<1>0. /\ jobs \in Seq(Job) /\ Len(jobs) \in Nat
      /\ pendingByType \in [JobTypes -> Seq(1 .. Len(jobs))] /\ pendingByType[t] \in Seq(Nat)
      /\ "task.execute" \in JobTypes
    BY Facts DEF JobTypes
<1>1. 1 .. n = (1 .. Len(jobs)) \cup {n} /\ n \notin 1 .. Len(jobs) /\ n \in Nat
    BY <1>0
<1>2. /\ NewJob(t, a, k).type = t /\ NewJob(t, a, k).agentId = a
      /\ NewJob(t, a, k).taskId = k /\ NewJob(t, a, k).status = "queued"
    BY DEF NewJob
<1>3. /\ new.type = t /\ new.agentId = a /\ new.taskId = k
      /\ new.status = IF t \in Handled THEN "running" ELSE "queued"
    BY DEF Process, NewJob
<1>4. t = "task.execute" => ~AlreadyQueued(a, k)
    BY DEF Enqueue
<1> HIDE DEF new
<1>5. CASE StartNow(t, a, k)
    <2>1. /\ Len(jobs') = n /\ jobs'[n] = new /\ pendingByType' = pendingByType
          /\ \A i \in 1 .. Len(jobs) : jobs'[i] = jobs[i]
          /\ runningByType[t] < maxConcurrencyByType[t]
        BY <1>5 DEF StartNow, new
    <2>2. Keeps /\ Names(n, <<a, k>>)
        BY <1>1, <1>3, <2>1 DEF Keeps, Names, ItemOf
    <2>3. Waiting' = Waiting
        BY <2>1 DEF Waiting, PendingIds
    <2>4. Running' = IF t = "task.execute" /\ t \in Handled THEN Running \cup {n} ELSE Running
        BY <1>1, <1>3, <2>1 DEF Running
    <2> QED
        BY <1>4, <2>1, <2>2, <2>3, <2>4 DEF Requested, Quiet
<1>6. CASE Wait(t, a, k)
    <2>1. /\ Len(jobs') = n /\ jobs'[n] = NewJob(t, a, k)
          /\ \A i \in 1 .. Len(jobs) : jobs'[i] = jobs[i]
        BY <1>0, <1>6 DEF Wait
    <2>2. Keeps /\ Names(n, <<a, k>>)
        BY <1>1, <1>2, <2>1 DEF Keeps, Names, ItemOf
    <2>3. Running' = Running
        BY <1>1, <1>2, <2>1 DEF Running
    <2>4. CASE t = "task.execute"
        <3>1. pendingByType'["task.execute"] = Append(pendingByType["task.execute"], n)
            BY <1>0, <1>6, <2>4 DEF Wait
        <3>2. {Append(pendingByType["task.execute"], n)[m] :
                   m \in 1 .. Len(Append(pendingByType["task.execute"], n))} = Waiting \cup {n}
            BY <1>0, <1>1, <2>4, ElementsOfAppend DEF Waiting, PendingIds
        <3>3. Waiting' = Waiting \cup {n}
            BY <3>1, <3>2 DEF Waiting, PendingIds
        <3> QED
            BY <1>4, <2>2, <2>3, <2>4, <3>3 DEF Requested
    <2>5. CASE t # "task.execute"
        <3>1. pendingByType'["task.execute"] = pendingByType["task.execute"]
            BY <1>0, <1>6, <2>5 DEF Wait
        <3> QED
            BY <2>2, <2>3, <2>5, <3>1 DEF Waiting, PendingIds, Quiet
    <2> QED
        BY <2>4, <2>5
<1> QED
    BY <1>5, <1>6, EnqueueCases

LEMMA ReleaseItems ==
    ASSUME IInv, NEW i \in 1 .. Len(jobs), Release(i)
    PROVE  Quiet \/ \E next : Begun(next) /\ HandOver(i, "task.execute", next)
<1> DEFINE t == jobs[i].type
           next == Head(pendingByType[t])
<1>0. /\ jobs \in Seq(Job) /\ Len(jobs) \in Nat /\ t \in JobTypes
      /\ pendingByType \in [JobTypes -> Seq(1 .. Len(jobs))]
      /\ pendingByType[t] \in Seq(1 .. Len(jobs))
      /\ "task.execute" \in JobTypes
    BY Facts DEF JobTypes
<1>1. CASE FreeSlot(i)
    <2>1. jobs' = jobs /\ pendingByType' = pendingByType
        BY <1>1 DEF FreeSlot
    <2> QED
        BY <2>1 DEF Quiet, Keeps, Names, Running, Waiting, PendingIds, ItemOf
<1>2. CASE HandOver(i, t, next)
    <2>1. /\ pendingByType[t] # <<>>
          /\ jobs' = [jobs EXCEPT ![next] = Process(t, jobs[next])]
          /\ pendingByType' = [pendingByType EXCEPT ![t] = Tail(pendingByType[t])]
        BY <1>2 DEF HandOver
    <2>2. \A m, n \in 1 .. Len(pendingByType[t]) :
              m # n => pendingByType[t][m] # pendingByType[t][n]
        <3>1. \A m, n \in 1 .. Len(pendingByType[t]) :
                  m < n => pendingByType[t][m] < pendingByType[t][n]
            BY <1>0 DEF IInv, PendingSorted
        <3>2. \A m \in 1 .. Len(pendingByType[t]) : pendingByType[t][m] \in Nat /\ m \in Nat
            BY <1>0
        <3> QED
            BY <3>1, <3>2
    <2>3. next \in PendingIds(t)
        BY <1>0, <2>1, <2>2, ElementsOfTail DEF PendingIds
    <2>4. next \in 1 .. Len(jobs) /\ jobs[next].type = t /\ jobs[next].status = "queued"
        BY <1>0, <2>3, Facts, SMTT(30) DEF PendingIds, IInv, PendingOK
    <2>5. {Tail(pendingByType[t])[m] : m \in 1 .. Len(Tail(pendingByType[t]))}
              = PendingIds(t) \ {next}
        BY <1>0, <2>1, <2>2, ElementsOfTail DEF PendingIds
    <2>6. /\ Len(jobs') = Len(jobs)
          /\ \A j \in 1 .. Len(jobs) : j # next => jobs'[j] = jobs[j]
          /\ jobs'[next] = Process(t, jobs[next])
        BY <1>0, <2>1, <2>4
    <2>7. jobs[next] \in Job
        BY <2>4, Facts
    <2>8. /\ Process(t, jobs[next]).type = t
          /\ Process(t, jobs[next]).agentId = jobs[next].agentId
          /\ Process(t, jobs[next]).taskId = jobs[next].taskId
          /\ Process(t, jobs[next]).status = IF t \in Handled THEN "running" ELSE "queued"
        BY <2>4, <2>7 DEF Process, Job
    <2>9. \A j \in 1 .. Len(jobs) : /\ jobs'[j].agentId = jobs[j].agentId
                                    /\ jobs'[j].taskId = jobs[j].taskId
        BY <2>6, <2>8
    <2>10. Keeps
        BY <2>6, <2>9 DEF Keeps, Names, ItemOf
    <2>11. Running' = IF t = "task.execute" /\ t \in Handled THEN Running \cup {next} ELSE Running
        BY <2>4, <2>6, <2>8 DEF Running
    <2>12. CASE t = "task.execute"
        <3>1. pendingByType'["task.execute"] = Tail(pendingByType[t])
            BY <1>0, <2>1, <2>12
        <3>2. Waiting' = Waiting \ {next} /\ next \in Waiting
            BY <2>3, <2>5, <2>12, <3>1 DEF Waiting, PendingIds
        <3> QED
            BY <1>2, <2>10, <2>11, <2>12, <3>2 DEF Begun
    <2>13. CASE t # "task.execute"
        <3>1. pendingByType'["task.execute"] = pendingByType["task.execute"]
            BY <1>0, <2>1, <2>13
        <3> QED
            BY <2>10, <2>11, <2>13, <3>1 DEF Waiting, PendingIds, Quiet
    <2> QED
        BY <2>12, <2>13
<1> QED
    BY <1>1, <1>2, ReleaseCases

LEMMA SettleItems ==
    ASSUME IInv, NEW i \in 1 .. Len(jobs), NEW outcome \in {"completed", "failed"},
           Settle(i, outcome)
    PROVE  Quiet \/ Ended(i)
<1>0. jobs \in Seq(Job) /\ jobs[i] \in Job
    BY Facts
<1>1. /\ Len(jobs') = Len(jobs)
      /\ \A j \in 1 .. Len(jobs) : j # i => jobs'[j] = jobs[j]
      /\ jobs'[i].type = jobs[i].type /\ jobs'[i].agentId = jobs[i].agentId
      /\ jobs'[i].taskId = jobs[i].taskId /\ jobs'[i].status = outcome
      /\ jobs[i].status = "running" /\ pendingByType' = pendingByType
    BY <1>0 DEF Settle, Job
<1>2. \A j \in 1 .. Len(jobs) : jobs'[j].agentId = jobs[j].agentId /\ jobs'[j].taskId = jobs[j].taskId
    BY <1>1
<1>3. Keeps /\ Waiting' = Waiting
    BY <1>1, <1>2 DEF Keeps, Names, ItemOf, Waiting, PendingIds
<1>4. Running' = Running \ {i}
    BY <1>1 DEF Running
<1> QED
    BY <1>3, <1>4 DEF Quiet, Ended

LEMMA StepItems ==
    ASSUME IInv, Next
    PROVE  \/ Quiet
           \/ \E a \in Agents, k \in TaskIds : Requested(a, k) /\ Enqueue("task.execute", a, k)
           \/ \E i \in 1 .. Len(jobs) : \E next :
                 Begun(next) /\ Release(i) /\ HandOver(i, "task.execute", next)
           \/ \E i \in 1 .. Len(jobs) :
                 Ended(i) /\ \E outcome \in {"completed", "failed"} : Settle(i, outcome)
           \/ Forget /\ Running' = {} /\ Waiting' = {}
<1>1. "task.execute" \in JobTypes /\ NoTask \in TaskIds
    BY DEF JobTypes, TaskIds
<1>2. Close => Quiet
    BY DEF Close, Quiet, Keeps, Names, Running, Waiting, PendingIds, ItemOf
<1>3. Forget => Running' = {} /\ Waiting' = {}
    BY <1>1 DEF Forget, Running, Waiting, PendingIds
<1> QED
    BY <1>1, <1>2, <1>3, EnqueueItems, ReleaseItems, SettleItems DEF Next

-----------------------------------------------------------------------------
(* No work twice                                                            *)

LEMMA UniqueIs == IInv => (NoDuplicateWork <=> Unique)
<1> SUFFICES ASSUME IInv PROVE NoDuplicateWork <=> Unique
    OBVIOUS
<1>1. \A i \in 1 .. Len(jobs) :
          jobs[i].type = "task.execute" /\ Live(i) <=> i \in Running \cup Waiting
    BY ItemFacts DEF Live, Running, Waiting
<1>2. Running \cup Waiting \subseteq 1 .. Len(jobs)
    BY ItemFacts
<1>3. \A i, j : IsSameJob(jobs[i], jobs[j].agentId, jobs[j].taskId) <=> ItemOf(i) = ItemOf(j)
    BY DEF IsSameJob, ItemOf
<1> HIDE DEF Live
<1> QED
    BY <1>1, <1>2, <1>3 DEF NoDuplicateWork, Unique

\* A request adds the only execution that names its item; no other step adds one.
LEMMA UniqueKept == ASSUME IInv, Unique, Next PROVE Unique'
<1> DEFINE n == Len(jobs) + 1
<1>0. /\ Running \cup Waiting \subseteq 1 .. Len(jobs) /\ n \notin 1 .. Len(jobs)
      /\ Len(jobs) \in Nat
    BY ItemFacts, Facts
<1> HIDE DEF n
<1>1. Keeps => \A i \in Running \cup Waiting : ItemOf(i)' = ItemOf(i)
    BY <1>0 DEF Keeps, Names, ItemOf
<1>2. ASSUME Keeps, (Running \cup Waiting)' \subseteq Running \cup Waiting PROVE Unique'
    BY <1>1, <1>2 DEF Unique
<1>3. ASSUME NEW a \in Agents, NEW k \in TaskIds, Requested(a, k) PROVE Unique'
    <2>1. \A i \in Running \cup Waiting : ItemOf(i) # <<a, k>>
        BY <1>3, ItemFacts DEF Requested
    <2>2. (Running \cup Waiting)' \subseteq Running \cup Waiting \cup {n}
        BY <1>3 DEF Requested, n
    <2>3. Keeps /\ <<jobs'[n].agentId, jobs'[n].taskId>> = <<a, k>>
        BY <1>3 DEF Requested, n, Names
    <2>4. \A i, j \in Running \cup Waiting \cup {n} : ItemOf(i)' = ItemOf(j)' => i = j
        <3>1. \A i : i = n => ItemOf(i)' = <<a, k>>
            BY <2>3 DEF ItemOf
        <3> QED
            BY <1>1, <2>1, <2>3, <3>1 DEF Unique
    <2> QED
        BY <2>2, <2>4 DEF Unique
<1>4. ASSUME Running' = {}, Waiting' = {} PROVE Unique'
    BY <1>4 DEF Unique
<1> QED
    BY <1>2, <1>3, <1>4, StepItems DEF Quiet, Begun, Ended

\* At no time two executions of the same (agent, task) are at work or waiting:
\* the test in enqueue, which looks at the waiting list and at the records that
\* say "running", sees all there are, also beside a handler that has settled.
THEOREM NoWorkTwice == Spec => []NoDuplicateWork
<1>1. Init => Unique
    BY DEF Init, Unique, Running, Waiting, PendingIds, JobTypes
<1>2. UNCHANGED vars => (Unique => Unique')
    BY DEF vars, Unique, Running, Waiting, PendingIds, ItemOf
<1>3. Spec => []Unique
    <2>1. IInv /\ Unique /\ [Next]_vars => Unique'
        BY <1>2, UniqueKept
    <2> QED
        BY <1>1, <2>1, QueueInvariant, PTL DEF Spec
<1> QED
    BY <1>3, UniqueIs, QueueInvariant, PTL

-----------------------------------------------------------------------------
(* The queue implements its abstraction                                     *)

RunItems == {ItemOf(i) : i \in Running}
WaitItems == {ItemOf(i) : i \in Waiting}
PhaseIn(run, wait) ==
    [w \in WorkItems |-> IF w \in run THEN "active" ELSE IF w \in wait THEN "waiting" ELSE "idle"]
Phases == [w \in WorkItems |-> Phase(w)]

PhasesFollow == Phases = PhaseIn(RunItems, WaitItems) /\ RunItems \subseteq WorkItems

LEMMA PhasesAre == IInv => PhasesFollow
<1> SUFFICES ASSUME IInv
             PROVE  Phases = PhaseIn(RunItems, WaitItems) /\ RunItems \subseteq WorkItems
    BY DEF PhasesFollow
<1>1. ASSUME NEW w \in WorkItems
      PROVE  /\ (\E i \in JobsFor(w) : jobs[i].status = "running") <=> w \in RunItems
             /\ (\E i \in JobsFor(w) : i \in PendingIds("task.execute")) <=> w \in WaitItems
    <2>1. \A i : IsSameJob(jobs[i], w[1], w[2]) <=> ItemOf(i) = w
        BY DEF IsSameJob, ItemOf, WorkItems
    <2> QED
        BY <2>1, ItemFacts DEF JobsFor, RunItems, WaitItems, Running, Waiting
<1>2. \A w \in WorkItems :
          Phase(w) = IF w \in RunItems THEN "active" ELSE IF w \in WaitItems THEN "waiting" ELSE "idle"
    BY <1>1 DEF Phase
<1>3. RunItems \subseteq WorkItems
    BY ItemFacts DEF RunItems
<1> QED
    BY <1>2, <1>3 DEF Phases, PhaseIn

LEMMA PhasesAreLater == IInv' => PhasesFollow'
BY PhasesAre, PTL

\* As many items are at work as executions, and each of those holds a slot.
LEMMA ItemsAtWork ==
    ASSUME IInv, NEW H, H \subseteq HeldOf("task.execute"), Running \subseteq H
    PROVE  /\ Cardinality(RunItems) \in Nat
           /\ Cardinality(RunItems) <= Cardinality(H)
<1>1. IsFiniteSet(HeldOf("task.execute"))
    BY HeldFinite DEF JobTypes
<1>2. IsFiniteSet(H)
    BY <1>1, FS_Subset
<1>3. IsFiniteSet(Running) /\ Cardinality(Running) <= Cardinality(H)
    BY <1>2, FS_Subset
<1> DEFINE f == [i \in Running |-> ItemOf(i)]
<1>4. f \in Surjection(Running, RunItems)
    BY DEF Surjection, RunItems
<1>5. IsFiniteSet(RunItems) /\ Cardinality(RunItems) <= Cardinality(Running)
    BY <1>3, <1>4, FS_Surjection
<1>6. /\ Cardinality(RunItems) \in Nat /\ Cardinality(Running) \in Nat /\ Cardinality(H) \in Nat
    BY <1>2, <1>3, <1>5, FS_CardinalityType
<1> QED
    BY <1>3, <1>5, <1>6

\* After a shutdown there are none.
NoneIfResolved == closePromise = "resolved" => Running = {} /\ Waiting = {}

LEMMA IdleWhenResolved == IInv => NoneIfResolved
<1> SUFFICES ASSUME IInv, closePromise = "resolved" PROVE Running = {} /\ Waiting = {}
    BY DEF NoneIfResolved
<1>1. "task.execute" \in JobTypes
    BY DEF JobTypes
<1>2. runningByType["task.execute"] = 0 /\ pendingByType["task.execute"] = <<>>
    BY <1>1 DEF IInv, PromiseOK, Drained
<1>3. HeldOf("task.execute") = {}
    BY <1>1, <1>2, HeldFinite, FS_EmptySet
<1>4. Running = {}
    BY <1>3, ItemFacts
<1>5. Waiting = {}
    BY <1>2 DEF Waiting, PendingIds
<1> QED
    BY <1>4, <1>5

LEMMA IdleWhenResolvedLater == IInv' => NoneIfResolved'
BY IdleWhenResolved, PTL

\* The instance has a Cardinality of its own, which is this one.
LEMMA SameCardinality == \A S : Requests!Cardinality(S) = Cardinality(S)
BY DEF Requests!Cardinality, Cardinality

LEMMA StepsImplement ==
    ASSUME IInv, IInv', Unique, Next, "task.execute" \in Handled
    PROVE  Requests!Next \/ UNCHANGED Requests!vars
<1> DEFINE capacity == maxConcurrencyByType["task.execute"]
           resolved == closePromise = "resolved"
           Steady == closed' = closed /\ closePromise' = closePromise
<1>0. /\ "task.execute" \in JobTypes
      /\ capacity \in Nat /\ runningByType["task.execute"] \in Nat
      /\ runningByType["task.execute"] <= capacity
      /\ runningByType["task.execute"] = Cardinality(HeldOf("task.execute"))
      /\ IsFiniteSet(HeldOf("task.execute"))
    BY LimitPositive, Facts, HeldFinite DEF JobTypes, IInv, ConcurrencyBound
<1>1. /\ Phases = PhaseIn(RunItems, WaitItems) /\ RunItems \subseteq WorkItems
      /\ Phases' = PhaseIn(RunItems', WaitItems')
    BY PhasesAre, PhasesAreLater DEF PhasesFollow, PhaseIn, WorkItems
<1>2. Requests!Active = RunItems
    BY <1>1 DEF Requests!Active, Phases, PhaseIn
<1>3. Keeps => \A i \in Running \cup Waiting : ItemOf(i)' = ItemOf(i)
    BY ItemFacts DEF Keeps, Names, ItemOf
<1>4. \A i, j \in Running \cup Waiting : ItemOf(i) = ItemOf(j) => i = j
    BY DEF Unique
\* Requests
<1>5. ASSUME NEW a \in Agents, NEW k \in TaskIds, Requested(a, k), Enqueue("task.execute", a, k)
      PROVE  Requests!Next
    <2> DEFINE w == <<a, k>>
               n == Len(jobs) + 1
    <2>1. w \in WorkItems /\ w \notin RunItems /\ w \notin WaitItems
        BY <1>5, ItemFacts DEF Requested, RunItems, WaitItems, WorkItems
    <2>2. ~closed /\ Steady
        BY <1>5 DEF Enqueue
    <2>3. \A i : i = n => ItemOf(i)' = w
        BY <1>5 DEF Requested, Names, ItemOf
    <2>4. CASE Running' = Running /\ Waiting' = Waiting \cup {n}
        <3>1. RunItems' = RunItems
            BY <1>3, <1>5, <2>4 DEF Requested, RunItems
        <3>2. WaitItems' = WaitItems \cup {w}
            BY <1>3, <1>5, <2>3, <2>4 DEF Requested, WaitItems
        <3>3. Phases' = [Phases EXCEPT ![w] = "waiting"] /\ Phases[w] = "idle"
            BY <1>1, <2>1, <3>1, <3>2 DEF PhaseIn
        <3> QED
            BY <2>1, <2>2, <3>3 DEF Requests!Next, Requests!Request, Phases
    <2>5. CASE /\ runningByType["task.execute"] < capacity
               /\ Running' = Running \cup {n} /\ Waiting' = Waiting
        <3>1. RunItems' = RunItems \cup {w}
            BY <1>3, <1>5, <2>3, <2>5 DEF Requested, RunItems
        <3>2. WaitItems' = WaitItems
            BY <1>3, <1>5, <2>5 DEF Requested, WaitItems
        <3>3. Phases' = [Phases EXCEPT ![w] = "active"] /\ Phases[w] = "idle"
            BY <1>1, <2>1, <3>1, <3>2 DEF PhaseIn
        <3>4. Cardinality(Requests!Active) < capacity
            BY <1>0, <1>2, <2>5, ItemsAtWork, ItemFacts
        <3>5. Requests!Request(w)
            BY <2>2, <3>3, <3>4, SameCardinality DEF Requests!Request, Phases
        <3> QED
            BY <2>1, <3>5 DEF Requests!Next
    <2> QED
        BY <1>5, <2>4, <2>5 DEF Requested
\* A release hands its slot over
<1>6. ASSUME NEW i \in 1 .. Len(jobs), NEW next, Begun(next), Release(i),
             HandOver(i, "task.execute", next)
      PROVE  Requests!Next
    <2> DEFINE w == ItemOf(next)
    <2>1. /\ next \in Waiting /\ next \notin Running
          /\ Running' = Running \cup {next} /\ Waiting' = Waiting \ {next}
        BY <1>6, ItemFacts DEF Begun
    <2>2. w \in WorkItems /\ w \notin RunItems /\ w \in WaitItems
        BY <1>4, <2>1, ItemFacts DEF RunItems, WaitItems
    <2>3. RunItems' = RunItems \cup {w}
        BY <1>3, <1>6, <2>1 DEF Begun, RunItems
    <2>4. \A v : v # w => (v \in WaitItems' <=> v \in WaitItems)
        BY <1>3, <1>6, <2>1 DEF Begun, WaitItems
    <2>5. Phases' = [Phases EXCEPT ![w] = "active"] /\ Phases[w] = "waiting"
        BY <1>1, <2>2, <2>3, <2>4 DEF PhaseIn
    <2>6. i \in HeldOf("task.execute") /\ i \notin Running
        BY <1>6 DEF HandOver, MayRelease, HeldOf, Running
    <2>7. Cardinality(Requests!Active) < capacity
        <3>1. Cardinality(HeldOf("task.execute") \ {i}) = Cardinality(HeldOf("task.execute")) - 1
            BY <1>0, <2>6, FS_RemoveElement
        <3>2. Running \subseteq HeldOf("task.execute") \ {i}
            BY <2>6, ItemFacts
        <3>3. Cardinality(RunItems) <= Cardinality(HeldOf("task.execute") \ {i})
              /\ Cardinality(RunItems) \in Nat
            BY <3>2, ItemsAtWork
        <3> QED
            BY <1>0, <1>2, <3>1, <3>3
    <2>8. Steady
        <3>1. runningByType' = runningByType /\ closed' = closed
            BY <1>6 DEF HandOver
        <3>2. runningByType["task.execute"] # 0
            BY <1>0, <2>6, FS_EmptySet
        <3> QED
            BY <1>0, <1>6, <3>1, <3>2 DEF HandOver, CheckIfDrained, Drained
    <2> QED
        <3>1. Requests!Begin(w)
            BY <2>5, <2>7, <2>8, SameCardinality DEF Requests!Begin, Phases
        <3> QED
            BY <2>2, <3>1 DEF Requests!Next
\* A handler settles
<1>7. ASSUME NEW i \in 1 .. Len(jobs), Ended(i),
             NEW outcome \in {"completed", "failed"}, Settle(i, outcome)
      PROVE  Requests!Next
    <2> DEFINE w == ItemOf(i)
    <2>1. i \in Running /\ i \notin Waiting /\ Running' = Running \ {i} /\ Waiting' = Waiting
        BY <1>7, ItemFacts DEF Ended
    <2>2. w \in WorkItems /\ w \in RunItems /\ w \notin WaitItems
        BY <1>4, <2>1, ItemFacts DEF RunItems, WaitItems
    <2>3. WaitItems' = WaitItems
        BY <1>3, <1>7, <2>1 DEF Ended, WaitItems
    <2>4. w \notin RunItems' /\ \A v : v # w => (v \in RunItems' <=> v \in RunItems)
        BY <1>3, <1>4, <1>7, <2>1 DEF Ended, RunItems
    <2>5. Phases' = [Phases EXCEPT ![w] = "idle"] /\ Phases[w] = "active"
        BY <1>1, <2>2, <2>3, <2>4 DEF PhaseIn
    <2>6. Steady
        BY <1>7 DEF Settle
    <2> QED
        BY <2>2, <2>5, <2>6 DEF Requests!Next, Requests!Finish, Phases
\* The other steps leave the items alone; some are steps of the shutdown.
<1>8. Forget /\ Running' = {} /\ Waiting' = {} => Phases' = Phases /\ Steady
    <2>1. Forget => Running = {} /\ Waiting = {}
        BY IdleWhenResolved DEF Forget, NoneIfResolved
    <2> QED
        BY <1>1, <2>1 DEF Forget, RunItems, WaitItems, PhaseIn
<1>9. Quiet => Phases' = Phases
    BY <1>1, <1>3 DEF Quiet, RunItems, WaitItems, PhaseIn
<1>10. ASSUME Phases' = Phases, ~Steady PROVE Requests!Shutdown
    <2>1. /\ resolved => resolved'
          /\ closePromise' = closePromise \/ closePromise' \in {"pending", "resolved"}
          /\ closed' = closed \/ closed'
        BY DEF Next, Enqueue, Settle, Release, Close, Forget, CheckIfDrained
    <2>2. closed' = TRUE
        BY <1>10, <2>1, Facts DEF IInv, PromiseOK, TypeOK
    <2>3. resolved' => Running' = {} /\ Waiting' = {}
        BY IdleWhenResolvedLater DEF NoneIfResolved
    <2>4. resolved' => RunItems' = {} /\ WaitItems' = {}
        BY <2>3 DEF RunItems, WaitItems
    <2>5. resolved' => \A w \in WorkItems : Phases[w] = "idle"
        BY <1>1, <1>10, <2>4 DEF PhaseIn
    <2> QED
        BY <1>10, <2>1, <2>2, <2>5
           DEF Requests!Shutdown, Requests!AllIdle, Phases
<1>11. Phases' = Phases => Requests!Next \/ UNCHANGED Requests!vars
    BY <1>10 DEF Requests!Next, Requests!vars, Phases
<1> QED
    BY <1>5, <1>6, <1>7, <1>8, <1>9, <1>11, StepItems

\* Every behaviour of the queue is one of ExecutionRequests, fairness apart,
\* when a handler for task executions is installed (setHandlers): a request
\* for an item at work is absorbed, an item runs once at a time and within the
\* capacity, and a shutdown is over only when every item is idle.
THEOREM QueueImplementsRequests ==
    ASSUME "task.execute" \in Handled
    PROVE  Spec => Requests!Init /\ [][Requests!Next]_(Requests!vars)
<1>1. Init => Requests!Init
    <2>1. ASSUME Init PROVE Requests!Init
        <3>1. jobs = <<>> /\ ~closed /\ closePromise = "none"
            BY <2>1 DEF Init
        <3>2. \A w \in WorkItems : Phase(w) = "idle"
            BY <3>1 DEF Phase, JobsFor
        <3> QED
            BY <3>1, <3>2 DEF Requests!Init
    <2> QED
        BY <2>1
<1>2. IInv /\ IInv' /\ Unique /\ [Next]_vars => [Requests!Next]_(Requests!vars)
    <2>1. ASSUME UNCHANGED vars PROVE UNCHANGED Requests!vars
        BY <2>1 DEF vars, Requests!vars, Phase, JobsFor, IsSameJob, PendingIds
    <2> QED
        BY <2>1, StepsImplement
<1>3. Spec => []Unique
    <2>1. IInv => (NoDuplicateWork <=> Unique)
        BY UniqueIs
    <2> QED
        BY <2>1, NoWorkTwice, QueueInvariant, PTL
<1> QED
    BY <1>1, <1>2, <1>3, QueueInvariant, PTL DEF Spec
=============================================================================
