------------------------ MODULE MigrationRunnerProofs ------------------------
(***************************************************************************)
(* Proofs about runMigrationsWithSafety, for any number of processes and   *)
(* migrations, any age at which a lock is stale, any crashes and faults.   *)
(*                                                                         *)
(* The argument goes by what has gone wrong so far.  As long as no lock of *)
(* a live process was removed, the lock file is that of the one process    *)
(* that migrates (OwnerMigrates), so no other can spoil what it has read   *)
(* (Upgraded); as long as also nobody was killed, no restore failed and no *)
(* new database was left half made, what it holds is a copy of a sound     *)
(* database (Undamaged).                                                   *)
(***************************************************************************)
EXTENDS MigrationRunner, WellFoundedInduction, TLAPS

(* The inductive invariant *)

NoTheft == events \cap Thefts = {}

Clean == events \cap (Thefts \cup {"killed", "restore", "fresh"}) = {}

\* The stages that hold a backup, and those at which the file may be half done.
Backed == {"apply", "delete", "cleanup", "restore", "overwrite"}
Midway == {"apply", "restore", "overwrite"}

\* The file is written over only from a backup.
CopiesExist ==
    \A p \in Procs : At(p, "overwrite") => proc[p].backup # Absent

\* A lock whose owner does not migrate was left behind, by a killed process or
\* by one that could not remove it.
LockOwned == lock # NoLock => Migrating(lock.owner) \/ events \cap {"killed", "left"} # {}

\* A lock is removed as stale, or was, only after it could have become so.
StealingExplained ==
    /\ \A p \in Procs : At(p, "unlink") => events \cap Openings # {}
    /\ events \cap Thefts # {} => events \cap Openings # {}

OwnerMigrates == NoTheft => \A p \in Procs : Migrating(p) => lock.owner = p

\* What the process with the lock knows of the file, and that no server runs
\* while it changes the file.
Upgraded ==
    NoTheft =>
        \A p \in Procs :
            /\ At(p, "ok") \/ At(p, "delete") \/ At(p, "cleanup") => db = Holding(All)
            /\ At(p, "release") /\ proc[p].result = "ok" => db = Holding(All)
            /\ At(p, "backup") \/ At(p, "apply") =>
                   db = Holding(proc[p].found) /\ proc[p].found # All
            /\ At(p, "backup") \/ proc[p].pc \in Backed =>
                   \A q \in Procs : ~At(q, "ok")

\* The file is sound unless the process with the lock is half-way, and its
\* backup is a copy of a sound file.
Undamaged ==
    Clean =>
        /\ (\A p \in Procs : proc[p].pc \notin Midway) => ~Damaged(db)
        /\ \A p \in Procs :
               /\ proc[p].pc \in Backed /\ proc[p].existed =>
                      proc[p].backup = Absent \/ ~Damaged(proc[p].backup)
               /\ proc[p].pc \in {"restore", "overwrite"} => proc[p].existed

IInv ==
    /\ TypeOK
    /\ CopiesExist
    /\ LockOwned
    /\ StealingExplained
    /\ OwnerMigrates
    /\ Upgraded
    /\ Undamaged

-----------------------------------------------------------------------------
(* Helpers *)

Less == {ss \in Nat \X Nat : ss[1] < ss[2]}

\* Every nonempty set of migrations has a first one.
LEMMA LeastNatural ==
    ASSUME NEW S, S \subseteq Nat, S # {}
    PROVE  \E m \in S : \A n \in S : m <= n
<1>1. IsWellFoundedOn(Less, Nat)
    BY NatLessThanWellFounded DEF OpToRel, Less
<1>2. PICK m \in S : \A n \in S : ~(<<n, m>> \in Less)
    BY <1>1, WFMin
<1>3. ASSUME NEW n \in S PROVE m <= n
    <2>1. ~(<<n, m>> \in Less)
        BY <1>2
    <2>2. n \in Nat /\ m \in Nat
        OBVIOUS
    <2> QED
        BY <2>1, <2>2 DEF Less
<1> QED
    BY <1>3

\* The migration applied next is a pending one.
LEMMA NextIsPending ==
    ASSUME NEW p \in Procs, Pending(p) # {}
    PROVE  NextMigration(p) \in Pending(p)
<1>1. Pending(p) \subseteq Nat
    BY MigrationAssumption DEF Pending, All
<1>2. \E m \in Pending(p) : \A n \in Pending(p) : m <= n
    BY <1>1, LeastNatural
<1> QED
    BY <1>2 DEF NextMigration

Stages == Inside \cup {"off", "lock", "stat", "unlink", "relock", "refused", "ok", "readonly"}

Process == [pc : Stages, found : SUBSET All, existed : BOOLEAN, backup : Database,
            result : {"ok", "readonly"}]

\* Only process p moves, and its record stays one.
Only(p) ==
    /\ proc' \in [Procs -> Process]
    /\ \A q \in Procs \ {p} : proc'[q] = proc[q]

Keeps(p) ==
    /\ proc'[p].found = proc[p].found /\ proc'[p].existed = proc[p].existed
    /\ proc'[p].backup = proc[p].backup /\ proc'[p].result = proc[p].result

LEMMA ProcessType == TypeOK => proc \in [Procs -> Process] /\ db \in Database
BY DEF TypeOK, Process, Stages

\* The three ways a record changes as a whole.
LEMMA GotoChanges ==
    ASSUME TypeOK, NEW p \in Procs, NEW pc \in Stages, Goto(p, pc)
    PROVE  Only(p) /\ proc'[p].pc = pc /\ Keeps(p)
BY ProcessType DEF Goto, Only, Keeps, Process

LEMMA FinishChanges ==
    ASSUME TypeOK, NEW p \in Procs, NEW r \in {"ok", "readonly"}, Finish(p, r)
    PROVE  Only(p) /\ proc'[p].pc = "release" /\ proc'[p].result = r
<1>1. [Off EXCEPT !.pc = "release", !.result = r] \in Process
    BY DEF Off, Process, Stages, Inside, Database
<1>2. [Off EXCEPT !.pc = "release", !.result = r].pc = "release"
      /\ [Off EXCEPT !.pc = "release", !.result = r].result = r
    BY DEF Off
<1> QED
    BY <1>1, <1>2, ProcessType DEF Finish, Only

LEMMA OffChanges ==
    ASSUME TypeOK, NEW p \in Procs, NEW pc \in Stages,
           proc' = [proc EXCEPT ![p] = [Off EXCEPT !.pc = pc]]
    PROVE  Only(p) /\ proc'[p].pc = pc
<1>1. [Off EXCEPT !.pc = pc] \in Process /\ [Off EXCEPT !.pc = pc].pc = pc
    BY DEF Off, Process, Database
<1> QED
    BY <1>1, ProcessType DEF Only

\* The ways two fields of a record change together.
LEMMA ExistedChanges ==
    ASSUME TypeOK, NEW p \in Procs, NEW pc \in Stages, NEW e \in BOOLEAN,
           proc' = [proc EXCEPT ![p].pc = pc, ![p].existed = e]
    PROVE  /\ Only(p) /\ proc'[p].pc = pc /\ proc'[p].existed = e
           /\ proc'[p].backup = proc[p].backup /\ proc'[p].result = proc[p].result
<1>1. [proc[p] EXCEPT !.pc = pc, !.existed = e] \in Process
    BY ProcessType DEF Process
<1> QED
    BY <1>1, ProcessType DEF Only, Process

LEMMA BackupChanges ==
    ASSUME TypeOK, NEW p \in Procs, NEW pc \in Stages, NEW b \in Database,
           proc' = [proc EXCEPT ![p].pc = pc, ![p].backup = b]
    PROVE  /\ Only(p) /\ proc'[p].pc = pc /\ proc'[p].backup = b
           /\ proc'[p].found = proc[p].found /\ proc'[p].existed = proc[p].existed
<1>1. [proc[p] EXCEPT !.pc = pc, !.backup = b] \in Process
    BY ProcessType DEF Process
<1> QED
    BY <1>1, ProcessType DEF Only, Process

LEMMA FoundChanges ==
    ASSUME TypeOK, NEW p \in Procs, NEW pc \in Stages, NEW f \in SUBSET All,
           proc' = [proc EXCEPT ![p].found = f, ![p].pc = pc]
    PROVE  /\ Only(p) /\ proc'[p].pc = pc /\ proc'[p].found = f
           /\ proc'[p].backup = proc[p].backup /\ proc'[p].existed = proc[p].existed
<1>1. [proc[p] EXCEPT !.found = f, !.pc = pc] \in Process
    BY ProcessType DEF Process
<1> QED
    BY <1>1, ProcessType DEF Only, Process
\* A step of a process changes only its own record.
LEMMA StepOnly ==
    ASSUME TypeOK, NEW p \in Procs, Start(p) \/ Step(p) \/ Stop(p) \/ Kill(p)
    PROVE  Only(p)
<1> USE DEF Stages, Inside
<1>1. Off \in Process /\ Absent \in Database
    BY DEF Off, Process, Database
<1>2. Start(p) => Only(p)
    BY OffChanges DEF Start
<1>3. CreateLock(p) => Only(p)
    BY GotoChanges DEF CreateLock
<1>4. OpenLock(p) \/ Relock(p) => Only(p)
    BY <1>3, GotoChanges DEF OpenLock, Relock
<1>5. StatLock(p) => Only(p)
    BY GotoChanges DEF StatLock
<1>6. UnlinkStale(p) => Only(p)
    BY GotoChanges DEF UnlinkStale
<1>7. CheckExists(p) => Only(p)
    <2> DEFINE there == db # Absent
    <2>1. CheckExists(p) => proc' = [proc EXCEPT ![p].pc = "read", ![p].existed = there]
        BY DEF CheckExists
    <2>2. there \in BOOLEAN
        OBVIOUS
    <2> HIDE DEF there
    <2> QED
        BY <2>1, <2>2, ExistedChanges
<1>8. ReadApplied(p) => Only(p)
    <2> DEFINE f == db.has
               s == IF proc[p].existed THEN "backup" ELSE "apply"
    <2>1. f \in SUBSET All /\ s \in Stages
        BY ProcessType DEF Database, Absent, Torn, Holding
    <2>2. ReadApplied(p) => \/ Finish(p, "readonly") \/ Finish(p, "ok")
                            \/ proc' = [proc EXCEPT ![p].found = f, ![p].pc = s]
        BY DEF ReadApplied
    <2> HIDE DEF f, s
    <2> QED
        BY <2>1, <2>2, FoundChanges, FinishChanges
<1>9. Backup(p) => Only(p)
    <2>1. proc' = [proc EXCEPT ![p].pc = "apply", ![p].backup = db] => Only(p)
        BY ProcessType, BackupChanges
    <2> QED
        BY <2>1, FinishChanges DEF Backup
<1>10. ApplyMigration(p) => Only(p)
    <2> DEFINE f == proc[p].found \cup {NextMigration(p)}
               s == IF Pending(p) = {NextMigration(p)} THEN "delete" ELSE "apply"
    <2>1. ApplyMigration(p) => NextMigration(p) \in All
        BY NextIsPending DEF ApplyMigration, Pending
    <2>2. ApplyMigration(p) => f \in SUBSET All /\ s \in Stages
        BY <2>1, ProcessType DEF Process
    <2>3. ApplyMigration(p) => proc' = [proc EXCEPT ![p].found = f, ![p].pc = s]
        BY DEF ApplyMigration
    <2> HIDE DEF f, s
    <2> QED
        BY <2>2, <2>3, FoundChanges
<1>11. Recover(p) => Only(p)
    BY GotoChanges, FinishChanges DEF Recover
<1>12. ApplyFails(p) => Only(p)
    BY <1>11 DEF ApplyFails
<1>13. DeleteBackup(p) => Only(p)
    BY <1>1, BackupChanges, GotoChanges DEF DeleteBackup
<1>14. Cleanup(p) => Only(p)
    BY <1>11, FinishChanges DEF Cleanup
<1>15. RestoreFails(p) \/ RestoreBegins(p) \/ RestoreEnds(p) => Only(p)
    BY GotoChanges, FinishChanges DEF RestoreFails, RestoreBegins, RestoreEnds
<1>16. ReleaseLock(p) \/ ReleaseFails(p) => Only(p)
    BY ProcessType, OffChanges DEF ReleaseLock, ReleaseFails, Process
<1>17. Stop(p) \/ Kill(p) => Only(p)
    BY <1>1, ProcessType DEF Stop, Kill, Only
<1> QED
    BY <1>2, <1>4, <1>5, <1>6, <1>7, <1>8, <1>9, <1>10, <1>12, <1>13, <1>14, <1>15,
       <1>16, <1>17 DEF Step

\* What each step of the upgrade leaves its process with.
LEMMA StageAfterCheck ==
    ASSUME TypeOK, NEW p \in Procs, CheckExists(p)
    PROVE  proc'[p].pc = "read"
<1> DEFINE there == db # Absent
<1>1. proc' = [proc EXCEPT ![p].pc = "read", ![p].existed = there]
    BY DEF CheckExists
<1>2. there \in BOOLEAN /\ "read" \in Stages
    BY DEF Stages, Inside
<1> HIDE DEF there
<1> QED
    BY <1>1, <1>2, ExistedChanges

LEMMA ReadAppliedLeaves ==
    ASSUME TypeOK, NEW p \in Procs, ReadApplied(p)
    PROVE  \/ proc'[p].pc = "release" /\ proc'[p].result = "readonly"
           \/ proc'[p].pc = "release" /\ proc'[p].result = "ok" /\ db = Holding(All)
           \/ /\ db \notin {Torn, Holding(All)} /\ proc'[p].found = db.has
              /\ proc'[p].existed = proc[p].existed
              /\ IF proc[p].existed THEN proc'[p].pc = "backup" ELSE proc'[p].pc = "apply"
<1> DEFINE f == db.has
           s == IF proc[p].existed THEN "backup" ELSE "apply"
<1>1. f \in SUBSET All /\ s \in Stages
    BY ProcessType DEF Database, Absent, Torn, Holding, Stages, Inside
<1>2. \/ Finish(p, "readonly")
      \/ Finish(p, "ok") /\ db = Holding(All)
      \/ /\ db \notin {Torn, Holding(All)}
         /\ proc' = [proc EXCEPT ![p].found = f, ![p].pc = s]
    BY DEF ReadApplied
<1>3. ASSUME proc' = [proc EXCEPT ![p].found = f, ![p].pc = s]
      PROVE  proc'[p].pc = s /\ proc'[p].found = f /\ proc'[p].existed = proc[p].existed
    <2> HIDE DEF f, s
    <2> QED
        BY <1>1, <1>3, FoundChanges, ZenonT(60)
<1> QED
    BY <1>2, <1>3, FinishChanges

LEMMA BackupLeaves ==
    ASSUME TypeOK, NEW p \in Procs, Backup(p)
    PROVE  \/ proc'[p].pc = "release" /\ proc'[p].result = "readonly"
           \/ /\ proc'[p].pc = "apply" /\ proc'[p].backup = db
              /\ proc'[p].found = proc[p].found /\ proc'[p].existed = proc[p].existed
<1>1. ASSUME proc' = [proc EXCEPT ![p].pc = "apply", ![p].backup = db]
      PROVE  /\ proc'[p].pc = "apply" /\ proc'[p].backup = db
             /\ proc'[p].found = proc[p].found /\ proc'[p].existed = proc[p].existed
    <2>1. "apply" \in Stages /\ db \in Database
        BY ProcessType DEF Stages, Inside
    <2> QED
        BY <1>1, <2>1, BackupChanges, ZenonT(60)
<1> QED
    BY <1>1, FinishChanges DEF Backup

LEMMA ApplyMigrationLeaves ==
    ASSUME TypeOK, NEW p \in Procs, ApplyMigration(p)
    PROVE  /\ NextMigration(p) \in Pending(p)
           /\ proc'[p].found = proc[p].found \cup {NextMigration(p)}
           /\ proc'[p].existed = proc[p].existed /\ proc'[p].backup = proc[p].backup
           /\ IF Pending(p) = {NextMigration(p)}
                  THEN proc'[p].pc = "delete" ELSE proc'[p].pc = "apply"
<1> DEFINE f == proc[p].found \cup {NextMigration(p)}
           s == IF Pending(p) = {NextMigration(p)} THEN "delete" ELSE "apply"
<1>1. NextMigration(p) \in Pending(p)
    BY NextIsPending DEF ApplyMigration
<1>2. f \in SUBSET All /\ s \in Stages
    BY <1>1, ProcessType DEF Process, Pending, Stages, Inside
<1>3. proc' = [proc EXCEPT ![p].found = f, ![p].pc = s]
    BY DEF ApplyMigration
<1>4. /\ proc'[p].pc = s /\ proc'[p].found = f
      /\ proc'[p].existed = proc[p].existed /\ proc'[p].backup = proc[p].backup
    <2> HIDE DEF f, s
    <2> QED
        BY <1>2, <1>3, FoundChanges, ZenonT(60)
<1> QED
    BY <1>1, <1>4

LEMMA RecoverLeaves ==
    ASSUME TypeOK, NEW p \in Procs, Recover(p)
    PROVE  \/ proc[p].existed /\ proc'[p].pc = "restore" /\ Keeps(p)
           \/ ~proc[p].existed /\ proc'[p].pc = "release" /\ proc'[p].result = "readonly"
BY GotoChanges, FinishChanges, ProcessType DEF Recover, Stages, Inside, Process

LEMMA DeleteBackupLeaves ==
    ASSUME TypeOK, NEW p \in Procs, DeleteBackup(p)
    PROVE  /\ proc'[p].pc = "cleanup" /\ proc'[p].existed = proc[p].existed
           /\ proc'[p].backup \in {Absent, proc[p].backup}
<1>1. Absent \in Database /\ "cleanup" \in Stages
    BY DEF Database, Stages, Inside
<1> QED
    BY <1>1, BackupChanges, GotoChanges DEF DeleteBackup, Keeps

LEMMA StageAfterRelease ==
    ASSUME TypeOK, NEW p \in Procs, ReleaseLock(p)
    PROVE  proc'[p].pc = proc[p].result /\ proc'[p].pc \in {"ok", "readonly"}
<1>1. proc[p].result \in {"ok", "readonly"} /\ proc[p].result \in Stages
    BY ProcessType DEF Process, Stages
<1>2. proc'[p].pc = proc[p].result
    BY <1>1, OffChanges DEF ReleaseLock
<1> QED
    BY <1>1, <1>2

LEMMA StageAfterFailure ==
    ASSUME TypeOK, NEW p \in Procs, ReleaseFails(p)
    PROVE  /\ proc'[p].pc \in {proc[p].result, "refused"}
           /\ proc'[p].pc \in {"ok", "readonly", "refused"}
<1>1. {proc[p].result, "refused"} \subseteq Stages /\ proc[p].result \in {"ok", "readonly"}
    BY ProcessType DEF Process, Stages
<1> QED
    BY <1>1, OffChanges DEF ReleaseFails

\* The one step, or two or three, that leads to a stage.
LEMMA NewStage ==
    ASSUME TypeOK, NEW p \in Procs, Start(p) \/ Step(p) \/ Stop(p) \/ Kill(p)
    PROVE  /\ proc'[p].pc = "unlink" => StatLock(p) /\ Stale
           /\ proc'[p].pc = "exists" => CreateLock(p)
           /\ proc'[p].pc = "read" => CheckExists(p)
           /\ proc'[p].pc = "backup" => ReadApplied(p)
           /\ proc'[p].pc = "apply" => ReadApplied(p) \/ Backup(p) \/ ApplyMigration(p)
           /\ proc'[p].pc = "delete" => ApplyMigration(p)
           /\ proc'[p].pc = "cleanup" => DeleteBackup(p)
           /\ proc'[p].pc = "restore" => (ApplyFails(p) \/ Cleanup(p)) /\ Recover(p)
           /\ proc'[p].pc = "overwrite" => RestoreBegins(p)
           /\ proc'[p].pc = "release" =>
                  \/ ReadApplied(p) \/ Backup(p) \/ ApplyFails(p) \/ Cleanup(p)
                  \/ RestoreFails(p) \/ RestoreEnds(p)
           /\ proc'[p].pc = "ok" =>
                  (ReleaseLock(p) \/ ReleaseFails(p)) /\ proc[p].result = "ok"
<1> USE DEF Stages, Inside
<1>1. CASE OpenLock(p) \/ Relock(p)
    BY <1>1, GotoChanges DEF OpenLock, Relock, CreateLock
<1>2. CASE StatLock(p)
    BY <1>2, GotoChanges DEF StatLock
<1>3. CASE UnlinkStale(p)
    BY <1>3, GotoChanges DEF UnlinkStale
<1>4. CASE CheckExists(p)
    BY <1>4, StageAfterCheck
<1>5. CASE ReadApplied(p)
    BY <1>5, ReadAppliedLeaves
<1>6. CASE Backup(p)
    BY <1>6, BackupLeaves
<1>7. CASE ApplyMigration(p)
    BY <1>7, ApplyMigrationLeaves
<1>8. CASE ApplyFails(p)
    BY <1>8, RecoverLeaves DEF ApplyFails
<1>9. CASE DeleteBackup(p)
    BY <1>9, DeleteBackupLeaves
<1>10. CASE Cleanup(p)
    BY <1>10, RecoverLeaves, FinishChanges DEF Cleanup
<1>11. CASE RestoreFails(p) \/ RestoreBegins(p) \/ RestoreEnds(p)
    <2>1. CASE RestoreBegins(p)
        BY <1>11, <2>1, GotoChanges DEF RestoreBegins
    <2>2. Finish(p, "readonly") => proc'[p].pc = "release"
        BY FinishChanges
    <2>3. CASE RestoreFails(p) \/ RestoreEnds(p)
        BY <2>2, <2>3 DEF RestoreFails, RestoreEnds
    <2> QED
        BY <1>11, <2>1, <2>3
<1>12. CASE ReleaseLock(p) \/ ReleaseFails(p)
    BY <1>12, StageAfterRelease, StageAfterFailure
<1>13. CASE Start(p)
    <2>1. proc'[p].pc = "lock"
        BY <1>13, OffChanges DEF Start
    <2> QED
        BY <2>1
<1>14. CASE Stop(p) \/ Kill(p)
    <2>1. proc'[p] = Off
        BY <1>14, ProcessType DEF Stop, Kill
    <2>2. proc'[p].pc = "off"
        BY <2>1 DEF Off
    <2> QED
        BY <2>2
<1> QED
    BY <1>1, <1>2, <1>3, <1>4, <1>5, <1>6, <1>7, <1>8, <1>9, <1>10, <1>11, <1>12, <1>13,
       <1>14 DEF Step

\* What a step of a process can make of the lock file.
LEMMA LockChanges ==
    ASSUME NEW p \in Procs, Start(p) \/ Step(p) \/ Stop(p) \/ Kill(p)
    PROVE  \/ lock' = lock
           \/ lock' = NoLock /\ (UnlinkStale(p) \/ ReleaseLock(p))
           \/ CreateLock(p) /\ (OpenLock(p) \/ Relock(p))
BY DEF Start, Step, Stop, Kill, OpenLock, Relock, StatLock, UnlinkStale, CheckExists,
       ReadApplied, Backup, ApplyMigration, ApplyFails, DeleteBackup, Cleanup,
       RestoreFails, RestoreBegins, RestoreEnds, ReleaseLock, ReleaseFails, Files

\* What a step of a process can make of the database file.
LEMMA DatabaseChanges ==
    ASSUME NEW p \in Procs, Start(p) \/ Step(p) \/ Stop(p) \/ Kill(p)
    PROVE  \/ db' = db
           \/ ReadApplied(p) /\ db = Absent /\ db' = Holding({})
           \/ ApplyMigration(p)
           \/ RestoreBegins(p)
           \/ RestoreEnds(p)
           \/ RestoreFails(p) /\ At(p, "overwrite") /\ db' = Absent
BY DEF Start, Step, Stop, Kill, OpenLock, Relock, StatLock, UnlinkStale, CheckExists,
       ReadApplied, Backup, ApplyFails, DeleteBackup, Cleanup, RestoreFails, ReleaseLock,
       ReleaseFails, Files

\* Every step keeps the types; the copy of the database that a process applies
\* migrations with was made by Backup, from a file that is there.
LEMMA TypeStep ==
    ASSUME TypeOK, CopiesExist, Next
    PROVE  TypeOK'
<1> USE MigrationAssumption, ProcessType
<1>1. ASSUME NEW p \in Procs, Start(p) \/ Step(p) \/ Stop(p) \/ Kill(p)
      PROVE  TypeOK'
    <2>1. Only(p)
        BY <1>1, StepOnly
    <2>2. /\ lock' \in [owner : Procs \cup {Nobody}, age : 0 .. (StaleAge + 1)]
          /\ lock'.owner = Nobody => lock' = NoLock
        BY <1>1, LockChanges DEF TypeOK, NoLock, CreateLock
    <2>3. db' \in Database
        <3>1. CASE ApplyMigration(p)
            <4>1. NextMigration(p) \in All
                BY <3>1, NextIsPending DEF ApplyMigration, Pending
            <4>2. db.has \in SUBSET All
                BY DEF Database, Absent, Torn, Holding
            <4> QED
                BY <3>1, <4>1, <4>2 DEF ApplyMigration, Database
        <3>2. CASE RestoreEnds(p)
            BY <3>2 DEF RestoreEnds, Process
        <3> QED
            BY <1>1, <3>1, <3>2, DatabaseChanges DEF RestoreBegins, Database
    <2>4. \A q \in Procs : proc'[q].pc = "apply" /\ proc'[q].existed =>
              proc'[q].backup # Absent
        <3>1. proc'[p].pc = "apply" /\ proc'[p].existed => proc'[p].backup # Absent
            <4>1. CASE ReadApplied(p)
                BY <4>1, ReadAppliedLeaves
            <4>2. CASE Backup(p)
                <5>1. db # Absent \/ Finish(p, "readonly")
                    BY <4>2 DEF Backup
                <5> QED
                    BY <4>2, <5>1, BackupLeaves, FinishChanges
            <4>3. CASE ApplyMigration(p)
                BY <4>3, ApplyMigrationLeaves DEF ApplyMigration, TypeOK
            <4>4. CASE proc'[p].pc # "apply"
                BY <4>4
            <4> QED
                BY <1>1, <4>1, <4>2, <4>3, <4>4, NewStage
        <3> QED
            BY <2>1, <3>1 DEF Only, TypeOK, At
    <2>5. events' \subseteq {"overdue", "stolen", "released", "fresh", "restore", "killed", "left"}
        BY <1>1 DEF TypeOK, Start, Step, Stop, Kill, OpenLock, Relock, StatLock,
           UnlinkStale, CheckExists, ReadApplied, Backup, ApplyMigration, ApplyFails,
           DeleteBackup, Cleanup, RestoreFails, RestoreBegins, RestoreEnds, ReleaseLock, ReleaseFails,
           History, Lost
    <2>6. crashes' \in 0 .. MaxCrashes /\ faults' \in 0 .. MaxFaults
        BY <1>1 DEF TypeOK, Start, Step, Stop, Kill, OpenLock, Relock, StatLock,
           UnlinkStale, CheckExists, ReadApplied, Backup, ApplyMigration, ApplyFails,
           DeleteBackup, Cleanup, RestoreFails, RestoreBegins, RestoreEnds, ReleaseLock, ReleaseFails,
           History, Fault
    <2> QED
        BY <2>1, <2>2, <2>3, <2>4, <2>5, <2>6 DEF TypeOK, Only, Process, Stages, At
<1>3. ASSUME Tick PROVE TypeOK'
    BY <1>3 DEF Tick, TypeOK, At, Files, History, NoLock
<1> QED
    BY <1>1, <1>3 DEF Next

-----------------------------------------------------------------------------
(* The lock                                                                 *)

\* What has happened stays known, and a lock is lost in two ways only.
LEMMA EventsGrow ==
    ASSUME NEW p \in Procs, Start(p) \/ Step(p) \/ Stop(p) \/ Kill(p)
    PROVE  /\ events \subseteq events'
           /\ events' \cap Thefts # {} =>
                  \/ events \cap Thefts # {}
                  \/ UnlinkStale(p)
                  \/ ReleaseLock(p) /\ lock.owner # p
BY DEF Start, Step, Stop, Kill, OpenLock, Relock, StatLock, UnlinkStale, CheckExists,
       ReadApplied, Backup, ApplyMigration, ApplyFails, DeleteBackup, Cleanup,
       RestoreFails, RestoreBegins, RestoreEnds, ReleaseLock, ReleaseFails, History, Thefts, Lost

\* A process begins to migrate with the lock, and ends with its release.
LEMMA MigratingFromTo ==
    ASSUME TypeOK, NEW p \in Procs, Start(p) \/ Step(p) \/ Stop(p) \/ Kill(p)
    PROVE  /\ proc'[p].pc \in Inside /\ ~Migrating(p) => CreateLock(p)
           /\ proc'[p].pc \notin Inside /\ Migrating(p) =>
                  ReleaseLock(p) \/ ReleaseFails(p) \/ Kill(p)
<1>1. ASSUME proc'[p].pc \in Inside, ~Migrating(p) PROVE CreateLock(p)
    <2> USE DEF Migrating, Inside, At
    <2>1. Start(p) \/ OpenLock(p) \/ StatLock(p) \/ UnlinkStale(p) \/ Relock(p)
          \/ Stop(p) \/ Kill(p)
        BY <1>1 DEF Step, CheckExists, ReadApplied, Backup, ApplyMigration, ApplyFails,
           DeleteBackup, Cleanup, RestoreFails, RestoreBegins, RestoreEnds, ReleaseLock, ReleaseFails
    <2>2. proc'[p].pc = "exists"
        <3>1. ~At(p, "exists") /\ ~At(p, "read") /\ ~At(p, "backup") /\ ~At(p, "apply")
              /\ ~At(p, "delete") /\ ~At(p, "cleanup") /\ ~At(p, "restore")
              /\ ~At(p, "overwrite") /\ ~At(p, "release")
            BY <1>1
        <3> QED
            BY <1>1, <3>1, NewStage DEF CheckExists, ReadApplied, Backup, ApplyMigration,
               ApplyFails, DeleteBackup, Cleanup, RestoreFails, RestoreBegins, RestoreEnds
    <2> QED
        BY <2>2, NewStage
<1>2. ASSUME proc'[p].pc \notin Inside, Migrating(p)
      PROVE  ReleaseLock(p) \/ ReleaseFails(p) \/ Kill(p)
    <2>1. \/ CheckExists(p) \/ ReadApplied(p) \/ Backup(p) \/ ApplyMigration(p)
          \/ ApplyFails(p) \/ DeleteBackup(p) \/ Cleanup(p) \/ RestoreFails(p)
          \/ RestoreBegins(p) \/ RestoreEnds(p) \/ ReleaseLock(p) \/ ReleaseFails(p)
          \/ Kill(p)
        BY <1>2 DEF Step, Start, Stop, OpenLock, StatLock, UnlinkStale, Relock, Migrating,
           Inside, At
    <2>2. CASE CheckExists(p)
        BY <1>2, <2>2, StageAfterCheck DEF Inside
    <2>3. CASE ReadApplied(p) \/ Backup(p) \/ ApplyMigration(p) \/ DeleteBackup(p)
        BY <1>2, <2>3, ReadAppliedLeaves, BackupLeaves, ApplyMigrationLeaves,
           DeleteBackupLeaves DEF Inside
    <2>4. Recover(p) => proc'[p].pc \in Inside
        BY RecoverLeaves DEF Inside
    <2>5. Finish(p, "ok") \/ Finish(p, "readonly") => proc'[p].pc \in Inside
        BY FinishChanges DEF Inside
    <2>6. RestoreBegins(p) => proc'[p].pc \in Inside
        BY GotoChanges DEF RestoreBegins, Inside, Stages
    <2> QED
        BY <1>2, <2>1, <2>2, <2>3, <2>4, <2>5, <2>6 DEF ApplyFails, Cleanup,
           RestoreFails, RestoreEnds
<1> QED
    BY <1>1, <1>2

\* The lock of a process that migrates is there until it is released or stolen.
LEMMA LockStep ==
    ASSUME IInv, Next
    PROVE  LockOwned' /\ StealingExplained' /\ OwnerMigrates'
<1> USE MigrationAssumption DEF IInv
<1>1. ASSUME NEW p \in Procs, Start(p) \/ Step(p) \/ Stop(p) \/ Kill(p)
      PROVE  LockOwned' /\ StealingExplained' /\ OwnerMigrates'
    <2>1. Only(p)
        BY <1>1, StepOnly
    <2>2. /\ events \subseteq events'
          /\ NoTheft => NoTheft' \/ UnlinkStale(p)
        BY <1>1, EventsGrow DEF OwnerMigrates, NoTheft, ReleaseLock, Migrating, Inside, At
    <2>3. LockOwned'
        <3> SUFFICES ASSUME lock' # NoLock
                     PROVE  \/ proc'[lock'.owner].pc \in Inside
                            \/ events' \cap {"killed", "left"} # {}
            BY DEF LockOwned, Migrating
        <3>1. CASE lock' = lock
            <4>1. lock.owner \in Procs
                BY <3>1 DEF TypeOK
            <4>2. Migrating(lock.owner) \/ events \cap {"killed", "left"} # {}
                BY <3>1 DEF LockOwned
            <4>3. CASE lock.owner = p /\ Migrating(p)
                <5>1. proc'[p].pc \in Inside \/ Kill(p) \/ ReleaseFails(p)
                    BY <1>1, <4>3, MigratingFromTo DEF ReleaseLock
                <5> QED
                    BY <3>1, <4>3, <5>1 DEF Kill, ReleaseFails
            <4>4. CASE lock.owner # p
                BY <2>1, <2>2, <3>1, <4>1, <4>2, <4>4 DEF Only, Migrating
            <4> QED
                BY <2>2, <4>2, <4>3, <4>4
        <3>2. CASE CreateLock(p)
            BY <3>2, GotoChanges DEF CreateLock, Stages, Inside
        <3> QED
            BY <1>1, <3>1, <3>2, LockChanges
    <2>4. StealingExplained'
        <3>1. ASSUME NEW q \in Procs, proc'[q].pc = "unlink"
              PROVE  events' \cap Openings # {}
            <4>1. CASE q = p
                <5>1. StatLock(p) /\ Stale
                    BY <1>1, <3>1, <4>1, NewStage
                <5>2. lock # NoLock
                    BY <5>1 DEF Stale
                <5>3. CASE Migrating(lock.owner)
                    BY <5>1, <5>2, <5>3 DEF StatLock, Lost, Openings
                <5>4. CASE events \cap {"killed", "left"} # {}
                    BY <2>2, <5>4 DEF Openings
                <5> QED
                    BY <5>2, <5>3, <5>4 DEF LockOwned
            <4>2. CASE q # p
                BY <2>1, <2>2, <3>1, <4>2 DEF Only, StealingExplained, At
            <4> QED
                BY <4>1, <4>2
        <3>2. UnlinkStale(p) => events' \cap Openings # {}
            BY <2>2 DEF UnlinkStale, StealingExplained
        <3> QED
            BY <2>2, <3>1, <3>2 DEF StealingExplained, NoTheft, At
    <2>5. OwnerMigrates'
        <3> SUFFICES ASSUME NoTheft', NEW q \in Procs, proc'[q].pc \in Inside
                     PROVE  lock'.owner = q
            BY DEF OwnerMigrates, Migrating
        <3>1. NoTheft
            BY <2>2 DEF NoTheft
        <3>2. CASE q = p /\ ~Migrating(p)
            BY <1>1, <3>2, MigratingFromTo DEF CreateLock
        <3>3. CASE q = p /\ Migrating(p)
            <4>1. lock.owner = p
                BY <3>1, <3>3 DEF OwnerMigrates
            <4>2. ~ReleaseLock(p)
                BY <3>3, StageAfterRelease DEF Inside
            <4>3. ~UnlinkStale(p) /\ ~OpenLock(p) /\ ~Relock(p)
                BY <3>3 DEF UnlinkStale, OpenLock, Relock, Migrating, Inside, At
            <4> QED
                BY <1>1, <3>3, <4>1, <4>2, <4>3, LockChanges
        <3>4. CASE q # p
            <4>1. Migrating(q) /\ lock.owner = q
                BY <2>1, <3>1, <3>4 DEF Only, Migrating, OwnerMigrates
            <4>2. lock # NoLock
                BY <4>1 DEF NoLock
            <4>3. ~UnlinkStale(p)
                BY <4>1, <4>2 DEF UnlinkStale, Lost, NoTheft, Thefts
            <4>4. ~ReleaseLock(p)
                BY <3>1, <3>4, <4>1 DEF ReleaseLock, OwnerMigrates, Migrating, Inside, At
            <4> QED
                BY <1>1, <4>1, <4>2, <4>3, <4>4, LockChanges DEF CreateLock
        <3> QED
            BY <3>2, <3>3, <3>4
    <2> QED
        BY <2>3, <2>4, <2>5
<1>2. ASSUME Tick PROVE LockOwned' /\ StealingExplained' /\ OwnerMigrates'
    <2>1. /\ lock # NoLock /\ lock'.owner = lock.owner
          /\ proc' = proc /\ events' = events
        BY <1>2 DEF Tick, History, TypeOK
    <2> QED
        BY <2>1 DEF LockOwned, StealingExplained, OwnerMigrates, NoTheft, Migrating, At
<1> QED
    BY <1>1, <1>2 DEF Next

-----------------------------------------------------------------------------
(* The database                                                             *)

\* What a process writes back is a copy.
LEMMA CopiesStep ==
    ASSUME IInv, Next
    PROVE  CopiesExist'
<1> USE DEF IInv
<1>1. ASSUME NEW p \in Procs, Start(p) \/ Step(p) \/ Stop(p) \/ Kill(p)
      PROVE  CopiesExist'
    <2>1. Only(p)
        BY <1>1, StepOnly
    <2>2. proc'[p].pc = "overwrite" => proc'[p].backup # Absent
        <3>1. RestoreBegins(p) => proc'[p].backup = proc[p].backup
            BY GotoChanges DEF RestoreBegins, Keeps, Stages, Inside
        <3> QED
            BY <1>1, <3>1, NewStage DEF RestoreBegins
    <2> QED
        BY <2>1, <2>2 DEF CopiesExist, Only, At
<1>2. CASE Tick
    BY <1>2 DEF Tick, CopiesExist, At
<1> QED
    BY <1>1, <1>2 DEF Next

\* Only the process that migrates changes the file.
LEMMA WriterMigrates ==
    ASSUME NEW p \in Procs, Start(p) \/ Step(p) \/ Stop(p) \/ Kill(p), db' # db
    PROVE  Migrating(p) /\ (proc[p].pc \in Backed \/ db = Absent)
BY DatabaseChanges DEF ReadApplied, ApplyMigration, RestoreBegins, RestoreEnds, RestoreFails, Migrating,
   Inside, Backed, At

\* A migration takes the file, and what its process counts, one step further.
LEMMA AppliedAndCounted ==
    ASSUME TypeOK, NEW p \in Procs, ApplyMigration(p), db = Holding(proc[p].found)
    PROVE  /\ db' = Holding(proc'[p].found)
           /\ proc'[p].pc = "delete" <=> proc'[p].found = All
<1> DEFINE m == NextMigration(p)
           f == proc[p].found
<1>1. /\ m \in Pending(p) /\ proc'[p].found = f \cup {m}
      /\ IF Pending(p) = {m} THEN proc'[p].pc = "delete" ELSE proc'[p].pc = "apply"
    BY ApplyMigrationLeaves
<1>2. db' = Holding(f \cup {m})
    BY DEF ApplyMigration, Holding
<1>3. f \subseteq All /\ Pending(p) = All \ f
    BY ProcessType DEF Process, Pending
<1>4. Pending(p) = {m} <=> f \cup {m} = All
    <2> HIDE DEF m, f
    <2> QED
        BY <1>1, <1>3
<1> QED
    BY <1>1, <1>2, <1>4

\* The process that has the lock knows the file, and no server runs beside it.
LEMMA UpgradedStep ==
    ASSUME IInv, Next
    PROVE  Upgraded'
<1> USE MigrationAssumption DEF IInv
<1> SUFFICES ASSUME NoTheft' PROVE Upgraded'
    BY DEF Upgraded
<1>1. ASSUME NEW p \in Procs, Start(p) \/ Step(p) \/ Stop(p) \/ Kill(p),
             NEW q \in Procs
      PROVE  /\ proc'[q].pc \in {"ok", "delete", "cleanup"} => db' = Holding(All)
             /\ proc'[q].pc = "release" /\ proc'[q].result = "ok" => db' = Holding(All)
             /\ proc'[q].pc \in {"backup", "apply"} =>
                    db' = Holding(proc'[q].found) /\ proc'[q].found # All
             /\ proc'[q].pc = "backup" \/ proc'[q].pc \in Backed =>
                    \A r \in Procs : proc'[r].pc # "ok"
    <2> DEFINE NobodyServes == \A r \in Procs : proc[r].pc # "ok"
    <2>1. Only(p)
        BY <1>1, StepOnly
    <2>2. NoTheft
        BY <1>1, EventsGrow DEF NoTheft
    <2>3. /\ \A r \in Procs : Migrating(r) => lock.owner = r
          /\ \A r \in Procs :
                 /\ proc[r].pc \in {"ok", "delete", "cleanup"} => db = Holding(All)
                 /\ proc[r].pc = "release" /\ proc[r].result = "ok" => db = Holding(All)
                 /\ proc[r].pc \in {"backup", "apply"} =>
                        db = Holding(proc[r].found) /\ proc[r].found # All
                 /\ proc[r].pc = "backup" \/ proc[r].pc \in Backed => NobodyServes
        BY <2>2 DEF OwnerMigrates, Upgraded, At
    <2>4. proc'[p].pc = "ok" =>
              Migrating(p) /\ proc[p].pc = "release" /\ db = Holding(All) /\ db' = db
        BY <1>1, <2>3, NewStage DEF ReleaseLock, ReleaseFails, Files, Migrating, Inside, At
    <2>6. CASE q # p
        <3>1. proc'[q] = proc[q]
            BY <2>1, <2>6 DEF Only
        <3>2. CASE Migrating(q)
            <4>1. ~Migrating(p)
                BY <2>3, <2>6, <3>2
            <4>2. db' = db /\ proc'[p].pc # "ok"
                BY <1>1, <2>4, <4>1, WriterMigrates
            <4>3. NobodyServes => \A r \in Procs : proc'[r].pc # "ok"
                BY <2>1, <4>2 DEF Only
            <4> QED
                BY <2>3, <3>1, <4>2, <4>3
        <3>3. CASE proc[q].pc = "ok"
            <4>1. db = Holding(All) /\ db # Absent
                BY <2>3, <3>3 DEF Holding, Absent
            <4>2. db' = db
                BY <1>1, <2>3, <3>3, <4>1, WriterMigrates
            <4> QED
                BY <3>1, <3>3, <4>1, <4>2 DEF Backed
        <3> QED
            BY <3>1, <3>2, <3>3 DEF Migrating, Inside, Backed
    <2>7. CASE q = p
        <3>1. ReadApplied(p) => proc[p].pc = "read"
            BY DEF ReadApplied, At
        <3>2. Backup(p) => proc[p].pc = "backup" /\ db' = db
            BY DEF Backup, Files, At
        <3>3. ApplyMigration(p) => proc[p].pc = "apply" /\ db = Holding(proc[p].found)
            BY <2>3 DEF ApplyMigration, At
        <3>4. DeleteBackup(p) => proc[p].pc = "delete" /\ db' = db
            BY DEF DeleteBackup, Files, At
        <3>5. Cleanup(p) => proc[p].pc = "cleanup" /\ db' = db
            BY DEF Cleanup, Files, At
        <3>6. proc'[p].pc = "backup" \/ proc'[p].pc \in Backed =>
                  \A r \in Procs : proc'[r].pc # "ok"
            <4> SUFFICES ASSUME proc'[p].pc = "backup" \/ proc'[p].pc \in Backed
                         PROVE  NobodyServes /\ proc'[p].pc # "ok"
                BY <2>1 DEF Only
            <4>1. CASE ReadApplied(p)
                <5>1. db # Holding(All)
                    BY <4>1, ReadAppliedLeaves DEF Backed
                <5> QED
                    BY <2>3, <5>1 DEF Backed
            <4>2. CASE proc[p].pc = "backup" \/ proc[p].pc \in Backed
                BY <2>3, <4>2 DEF Backed
            <4> QED
                BY <1>1, <3>2, <3>3, <3>4, <3>5, <4>1, <4>2, NewStage
                   DEF Backed, ApplyFails, RestoreBegins, At
        <3>7. CASE proc'[p].pc \in {"ok", "delete", "cleanup"}
            <4>1. proc'[p].pc = "ok" => db' = Holding(All)
                BY <2>4
            <4>2. proc'[p].pc = "delete" => db' = Holding(All)
                BY <1>1, <3>3, NewStage, AppliedAndCounted
            <4>3. proc'[p].pc = "cleanup" => db' = Holding(All)
                BY <1>1, <2>3, <3>4, NewStage
            <4> QED
                BY <2>7, <3>6, <3>7, <4>1, <4>2, <4>3
        <3>8. CASE proc'[p].pc = "release"
            <4> DEFINE Sound == proc'[p].result = "ok" => db' = Holding(All)
            <4>1. ReadApplied(p) => Sound
                BY <3>8, ReadAppliedLeaves DEF ReadApplied, Holding, Absent
            <4>2. Backup(p) => Sound
                BY <3>8, BackupLeaves
            <4>3. ApplyFails(p) => Sound
                BY <3>8, RecoverLeaves DEF ApplyFails
            <4>4. Cleanup(p) => Sound
                BY <2>3, <3>5
            <4>5. RestoreFails(p) \/ RestoreEnds(p) => Sound
                BY FinishChanges DEF RestoreFails, RestoreEnds
            <4>6. Sound
                BY <1>1, <3>8, <4>1, <4>2, <4>3, <4>4, <4>5, NewStage
            <4> QED
                BY <2>7, <3>8, <4>6 DEF Backed
        <3>9. CASE proc'[p].pc \in {"backup", "apply"}
            <4> DEFINE Known == db' = Holding(proc'[p].found) /\ proc'[p].found # All
            <4>1. ASSUME ReadApplied(p) PROVE Known
                <5>1. proc'[p].found = db.has /\ db \notin {Torn, Holding(All)}
                    BY <3>9, <4>1, ReadAppliedLeaves
                <5>2. db \in {Absent, Torn} \/ db = Holding(db.has)
                    BY ProcessType DEF Database, Holding
                <5>3. db' = Holding(db.has)
                    BY <4>1, <5>1, <5>2 DEF ReadApplied, Absent, Holding
                <5>4. All # {}
                    BY DEF All
                <5>5. db.has # All
                    BY <5>1, <5>2, <5>4 DEF Absent
                <5> QED
                    BY <5>1, <5>3, <5>5
            <4>2. Backup(p) => Known
                BY <2>3, <3>2, <3>9, BackupLeaves
            <4>3. ApplyMigration(p) => Known
                BY <3>3, <3>9, AppliedAndCounted
            <4>4. Known
                BY <1>1, <3>9, <4>1, <4>2, <4>3, NewStage
            <4> QED
                BY <2>7, <3>6, <3>9, <4>4
        <3> QED
            BY <2>7, <3>6, <3>7, <3>8, <3>9
    <2> QED
        BY <2>6, <2>7
<1>2. CASE Tick
    BY <1>2 DEF Tick, Upgraded, NoTheft, History, At
<1> QED
    BY <1>1, <1>2 DEF Next, Upgraded, At

\* Of the databases that are there, a new and empty one is damaged only if the
\* absence of one is.
LEMMA DamagedAlike ==
    /\ ~Damaged(Holding(All))
    /\ Damaged(Holding({})) => Damaged(Absent)
BY DEF Damaged, Holding, Absent

\* The process that has the lock finishes what it began, or says so.
LEMMA UndamagedStep ==
    ASSUME IInv, Next
    PROVE  Undamaged'
<1> USE DEF IInv
<1> SUFFICES ASSUME Clean' PROVE Undamaged'
    BY DEF Undamaged
<1>1. ASSUME NEW p \in Procs, Start(p) \/ Step(p) \/ Stop(p) \/ Kill(p)
      PROVE  Undamaged'
    <2>1. Only(p)
        BY <1>1, StepOnly
    <2>2. original' = original
        BY <1>1 DEF Start, Step, Stop, Kill, OpenLock, Relock, StatLock, UnlinkStale,
           CheckExists, ReadApplied, Backup, ApplyMigration, ApplyFails, DeleteBackup,
           Cleanup, RestoreFails, RestoreBegins, RestoreEnds, ReleaseLock, ReleaseFails, History
    <2>3. Clean /\ NoTheft
        BY <1>1, EventsGrow DEF Clean, NoTheft
    <2>4. /\ (\A q \in Procs : proc[q].pc \notin Midway) => ~Damaged(db)
          /\ \A q \in Procs :
                 /\ proc[q].pc \in Backed /\ proc[q].existed =>
                        proc[q].backup = Absent \/ ~Damaged(proc[q].backup)
                 /\ proc[q].pc \in {"restore", "overwrite"} => proc[q].existed
        BY <2>3 DEF Undamaged
    <2>5. ASSUME Migrating(p), proc[p].pc \notin Midway
          PROVE  ~Damaged(db)
        <3>1. \A q \in Procs : q # p => ~Migrating(q)
            BY <2>3, <2>5 DEF OwnerMigrates
        <3> QED
            BY <2>4, <2>5, <3>1 DEF Migrating, Midway, Inside
    <2>6. (\A q \in Procs : proc'[q].pc \notin Midway) => ~Damaged(db')
        <3> SUFFICES ASSUME \A q \in Procs : proc'[q].pc \notin Midway
                     PROVE  ~Damaged(db')
            OBVIOUS
        <3>1. CASE proc[p].pc \notin Midway
            <4>1. ~Damaged(db)
                BY <2>1, <2>4, <3>1 DEF Only
            <4>2. CASE db' = db
                BY <4>1, <4>2
            <4>3. CASE ReadApplied(p) /\ db = Absent /\ db' = Holding({})
                BY <4>1, <4>3, DamagedAlike
            <4> QED
                BY <1>1, <3>1, <4>2, <4>3, DatabaseChanges
                   DEF ApplyMigration, RestoreBegins, RestoreEnds, RestoreFails, Midway, At
        <3>2. CASE proc[p].pc \in Midway
            <4>1. CASE ApplyMigration(p)
                <5>1. db = Holding(proc[p].found)
                    BY <2>3, <4>1 DEF Upgraded, ApplyMigration
                <5>2. proc'[p].pc = "delete"
                    BY <4>1, ApplyMigrationLeaves DEF Midway
                <5>3. db' = Holding(All)
                    BY <4>1, <5>1, <5>2, AppliedAndCounted
                <5> QED
                    BY <5>3, DamagedAlike
            <4>2. CASE ApplyFails(p)
                <5>1. proc'[p].pc # "restore"
                    BY DEF Midway
                <5>2. ~proc[p].existed
                    BY <4>2, <5>1, RecoverLeaves DEF ApplyFails
                <5> QED
                    BY <4>2, <5>2 DEF ApplyFails, Clean
            <4>3. CASE RestoreFails(p)
                BY <4>3 DEF RestoreFails, Clean
            <4>4. CASE RestoreBegins(p)
                BY <4>4, GotoChanges DEF RestoreBegins, Midway, Stages, Inside
            <4>5. CASE RestoreEnds(p)
                <5>1. proc[p].existed /\ proc[p].backup # Absent
                    BY <2>4, <4>5 DEF RestoreEnds, CopiesExist, At
                <5> QED
                    BY <2>4, <4>5, <5>1 DEF RestoreEnds, Backed, At
            <4>6. CASE Kill(p)
                BY <3>2, <4>6 DEF Kill, Clean, Migrating, Midway, Inside
            <4> QED
                BY <1>1, <3>2, <4>1, <4>2, <4>3, <4>4, <4>5, <4>6
                   DEF Step, Start, Stop, OpenLock, StatLock, UnlinkStale, Relock,
                       CheckExists, ReadApplied, Backup, DeleteBackup, Cleanup,
                       ReleaseLock, ReleaseFails, Midway, At
        <3> QED
            BY <3>1, <3>2
    <2>7. proc'[p].pc \in Backed /\ proc'[p].existed =>
              proc'[p].backup = Absent \/ ~Damaged(proc'[p].backup)
        <3> SUFFICES ASSUME proc'[p].pc \in Backed, proc'[p].existed
                     PROVE  proc'[p].backup = Absent \/ ~Damaged(proc'[p].backup)
            OBVIOUS
        <3>1. CASE ReadApplied(p)
            BY <3>1, ReadAppliedLeaves DEF Backed
        <3>2. CASE Backup(p)
            <4>1. ~Damaged(db)
                BY <2>5, <3>2 DEF Backup, At, Migrating, Midway, Inside
            <4> QED
                BY <3>2, <4>1, BackupLeaves DEF Backed
        <3>3. CASE ApplyMigration(p)
            BY <2>4, <3>3, ApplyMigrationLeaves DEF ApplyMigration, Backed, At
        <3>4. CASE DeleteBackup(p)
            BY <2>4, <3>4, DeleteBackupLeaves DEF DeleteBackup, Backed, At
        <3>5. CASE Recover(p) /\ (ApplyFails(p) \/ Cleanup(p))
            <4>1. Keeps(p)
                BY <3>5, RecoverLeaves DEF Backed
            <4> QED
                BY <2>4, <3>5, <4>1 DEF Keeps, ApplyFails, Cleanup, Backed, At
        <3>6. CASE RestoreBegins(p)
            <4>1. Keeps(p)
                BY <3>6, GotoChanges DEF RestoreBegins, Stages, Inside
            <4> QED
                BY <2>4, <3>6, <4>1 DEF Keeps, RestoreBegins, Backed, At
        <3> QED
            BY <1>1, <3>1, <3>2, <3>3, <3>4, <3>5, <3>6, NewStage DEF Backed
    <2>8. proc'[p].pc \in {"restore", "overwrite"} => proc'[p].existed
        <3>1. Recover(p) /\ proc'[p].pc = "restore" => proc'[p].existed
            BY RecoverLeaves DEF Keeps
        <3>2. RestoreBegins(p) => proc'[p].existed = proc[p].existed /\ At(p, "restore")
            BY GotoChanges DEF RestoreBegins, Keeps, Stages, Inside
        <3> QED
            BY <1>1, <2>4, <3>1, <3>2, NewStage DEF At
    <2> QED
        BY <2>1, <2>2, <2>4, <2>6, <2>7, <2>8 DEF Undamaged, Damaged, Only
<1>2. CASE Tick
    BY <1>2 DEF Tick, Undamaged, Clean, Damaged, History, At
<1> QED
    BY <1>1, <1>2 DEF Next

-----------------------------------------------------------------------------
(* The theorems                                                             *)

\* Before the first start there is a database or none, and nobody migrates.
LEMMA InitInv == Init => IInv
<1> SUFFICES ASSUME Init PROVE IInv
    OBVIOUS
<1> USE MigrationAssumption
<1>1. /\ lock = NoLock /\ proc = [p \in Procs |-> Off] /\ original = db
      /\ events = {} /\ crashes = 0 /\ faults = 0
    BY DEF Init
<1>2. \A p \in Procs : proc[p] = Off /\ proc[p].pc = "off"
    BY <1>1 DEF Off
<1>3. db \in Database
    <2>1. \A n \in 0 .. (Migrations - 1) : 1 .. n \subseteq All
        BY DEF All
    <2> QED
        BY <2>1 DEF Init, Database
<1>4. Off \in Process
    BY DEF Off, Process, Stages, Database
<1>5. TypeOK
    <2>1. proc \in [Procs -> Process]
        BY <1>1, <1>4
    <2>2. lock \in [owner : Procs \cup {Nobody}, age : 0 .. (StaleAge + 1)]
        BY <1>1 DEF NoLock
    <2> QED
        BY <1>1, <1>2, <1>3, <2>1, <2>2 DEF TypeOK, At, Process, Stages
<1>6. CopiesExist /\ LockOwned /\ StealingExplained /\ OwnerMigrates
    BY <1>1, <1>2 DEF CopiesExist, LockOwned, StealingExplained, OwnerMigrates, Migrating,
       Inside, Thefts, At
<1>7. Upgraded
    BY <1>2 DEF Upgraded, Backed, At
<1>8. Undamaged
    BY <1>1, <1>2 DEF Undamaged, Damaged, Midway, Backed
<1> QED
    BY <1>5, <1>6, <1>7, <1>8 DEF IInv

LEMMA StepInv == IInv /\ [Next]_vars => IInv'
<1> SUFFICES ASSUME IInv, [Next]_vars PROVE IInv'
    OBVIOUS
<1>1. CASE Next
    BY <1>1, TypeStep, LockStep, CopiesStep, UpgradedStep, UndamagedStep DEF IInv
<1>2. CASE UNCHANGED vars
    BY <1>2 DEF vars, IInv, TypeOK, CopiesExist, LockOwned, StealingExplained,
       OwnerMigrates, Upgraded, Undamaged, NoTheft, Clean, Damaged, Migrating, At
<1> QED
    BY <1>1, <1>2

\* Every reachable state of the start-up satisfies the seven parts of IInv.
THEOREM MigrationInvariant == Spec => []IInv
BY InitInv, StepInv, PTL DEF Spec

\* acquireLock, releaseLock: two processes migrate at once only after the lock
\* of a live one was removed, and that begins with a run longer than the lock's
\* age limit or with a lock left behind by a process that was killed or could
\* not remove it.
THEOREM MigratorsExclude == Spec => []OneMigrator
<1>1. IInv => OneMigrator
    BY MigrationAssumption DEF IInv, OneMigrator, OwnerMigrates, StealingExplained, NoTheft
<1> QED
    BY <1>1, MigrationInvariant, PTL

\* runMigrationsWithSafety: a server that reported a completed upgrade works on
\* a database with every migration in it, and when nobody migrates the database
\* is as it was or complete, unless something is on record that explains it.
THEOREM DataStaysSound == Spec => []DataSound
<1>1. IInv => UpgradeHolds
    BY DEF IInv, UpgradeHolds, Upgraded, NoTheft
<1>2. IInv => NeverHalfway
    BY DEF IInv, NeverHalfway, Undamaged, Clean, Migrating, Midway, Inside
<1>3. IInv => DataSound
    BY <1>1, <1>2 DEF IInv, DataSound
<1> QED
    BY <1>3, MigrationInvariant, PTL
=============================================================================
