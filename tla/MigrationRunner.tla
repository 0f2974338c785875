--------------------------- MODULE MigrationRunner ---------------------------
(***************************************************************************)
(* runMigrationsWithSafety (packages/db/src/migration-runner.ts), as the   *)
(* processes that share a database file run it at startup                  *)
(* (bootstrap/lifecycle.ts): take the lock file, back the database up,     *)
(* apply the pending migrations, restore the backup when one fails,        *)
(* release the lock.                                                       *)
(*                                                                         *)
(* An action is one call of the file system or one SQL transaction; a      *)
(* process may be killed between any two.  Files outlive it.  The lock is  *)
(* a file without a name in it: the owner recorded here is history, no     *)
(* action of the code looks at it.  The database is the set of migrations  *)
(* in it; a migration succeeds only on the schema it was written for.      *)
(***************************************************************************)
EXTENDS Integers, FiniteSets

CONSTANTS
    Procs,       \* processes that use the database file
    Migrations,  \* number of migration files
    StaleAge,    \* five minutes, in ticks
    MaxCrashes,  \* bound: processes killed
    MaxFaults,   \* bound: calls that fail for reasons of their own
    Faults,      \* which do: see FaultKinds
    Nobody

FaultKinds == {"backup", "apply", "keep", "cleanup", "restore", "release"}

ASSUME MigrationAssumption ==
    /\ Migrations \in Nat \ {0} /\ StaleAge \in Nat \ {0}
    /\ MaxCrashes \in Nat /\ MaxFaults \in Nat
    /\ Faults \subseteq FaultKinds
    /\ Nobody \notin Procs

VARIABLES
    lock,      \* the lock file: who created it, and its age
    db,        \* the database file
    proc,      \* processes: where each is and what it holds
    original,  \* the database before the first start (history)
    events,    \* what has happened that explains a bad end (history)
    crashes, faults

vars == <<lock, db, proc, original, events, crashes, faults>>

All == 1..Migrations

Absent == [file |-> "absent", has |-> {}]
Torn == [file |-> "torn", has |-> {}]
Holding(s) == [file |-> "good", has |-> s]

NoLock == [owner |-> Nobody, age |-> 0]

\* What a process holds: the migrations it found applied, whether the file
\* was there before, its backup, and how it will report.
Off == [pc |-> "off", found |-> {}, existed |-> FALSE, backup |-> Absent, result |-> "ok"]

Inside == {"exists", "read", "backup", "apply", "delete", "cleanup", "restore",
           "overwrite", "release"}

Migrating(p) == proc[p].pc \in Inside

Init ==
    /\ lock = NoLock
    /\ db \in {Absent} \cup {Holding(1..n) : n \in 0..(Migrations - 1)}
    /\ proc = [p \in Procs |-> Off]
    /\ original = db
    /\ events = {}
    /\ crashes = 0 /\ faults = 0

At(p, pc) == proc[p].pc = pc

Goto(p, pc) == proc' = [proc EXCEPT ![p].pc = pc]

Files == <<lock, db>>
History == <<original, events, crashes, faults>>

\* The process is on its way out: what it held is of no use any more.
Finish(p, result) ==
    proc' = [proc EXCEPT ![p] = [Off EXCEPT !.pc = "release", !.result = result]]

\* A call fails for a reason of its own (disk, permissions, bad SQL).
Fault(kind) == kind \in Faults /\ faults < MaxFaults /\ faults' = faults + 1

-----------------------------------------------------------------------------
(* acquireLock                                                              *)

Start(p) ==
    /\ At(p, "off")
    /\ proc' = [proc EXCEPT ![p] = [Off EXCEPT !.pc = "lock"]]
    /\ UNCHANGED <<Files, History>>

\* open(lockPath, 'wx') creates the file or fails because it is there.
CreateLock(p) == /\ lock = NoLock
                 /\ lock' = [owner |-> p, age |-> 0]
                 /\ Goto(p, "exists")

OpenLock(p) ==
    /\ At(p, "lock")
    /\ \/ CreateLock(p)
       \/ lock # NoLock /\ Goto(p, "stat") /\ UNCHANGED lock
    /\ UNCHANGED <<db, History>>

\* A lock goes away, or is about to, that belongs to a process still migrating.
Lost(event) == IF lock # NoLock /\ Migrating(lock.owner) THEN {event} ELSE {}

\* Wrong variant: a lock is never taken for a left-over.
StatLock_Never(p) ==
    /\ At(p, "stat")
    /\ Goto(p, "refused")
    /\ UNCHANGED <<Files, History>>

\* Wrong variant: any lock that is there is taken for a left-over.
StatLock_Any(p) ==
    /\ At(p, "stat")
    /\ Goto(p, IF lock # NoLock THEN "unlink" ELSE "refused")
    /\ UNCHANGED <<Files, History>>

Stale == lock # NoLock /\ lock.age > StaleAge

\* The age of the lock; without a lock, or with a young one, start-up fails.
StatLock(p) ==
    /\ At(p, "stat")
    /\ Goto(p, IF Stale THEN "unlink" ELSE "refused")
    /\ events' = events \cup (IF Stale THEN Lost("overdue") ELSE {})
    /\ UNCHANGED <<Files, original, crashes, faults>>

\* The lock found stale is removed: it may be another one by now.
UnlinkStale(p) ==
    /\ At(p, "unlink")
    /\ events' = events \cup Lost("stolen")
    /\ lock' = NoLock
    /\ Goto(p, IF lock = NoLock THEN "refused" ELSE "relock")
    /\ UNCHANGED <<db, original, crashes, faults>>

Relock(p) ==
    /\ At(p, "relock")
    /\ \/ CreateLock(p)
       \/ lock # NoLock /\ Goto(p, "refused") /\ UNCHANGED lock
    /\ UNCHANGED <<db, History>>

-----------------------------------------------------------------------------
(* The upgrade                                                              *)

CheckExists(p) ==
    /\ At(p, "exists")
    /\ proc' = [proc EXCEPT ![p].pc = "read", ![p].existed = db # Absent]
    /\ UNCHANGED <<Files, History>>

\* The database is opened (created when absent), the migration table read.
ReadApplied(p) ==
    /\ At(p, "read")
    /\ db' = IF db = Absent THEN Holding({}) ELSE db
    /\ \/ db = Torn /\ Finish(p, "readonly")
       \/ db = Holding(All) /\ Finish(p, "ok")
       \/ /\ db \notin {Torn, Holding(All)}
          /\ proc' = [proc EXCEPT ![p].found = db.has,
                         ![p].pc = IF proc[p].existed THEN "backup" ELSE "apply"]
    /\ UNCHANGED <<lock, History>>

\* createBackup; when the copy fails nothing was applied and nothing is restored.
Backup(p) ==
    /\ At(p, "backup")
    /\ \/ /\ db # Absent
          /\ proc' = [proc EXCEPT ![p].pc = "apply", ![p].backup = db]
          /\ UNCHANGED faults
       \/ /\ IF db = Absent THEN UNCHANGED faults ELSE Fault("backup")
          /\ Finish(p, "readonly")
    /\ UNCHANGED <<Files, original, events, crashes>>

\* Wrong variant: the database is left as the failing migration found it.
Recover_LeavesDatabase(p) == Finish(p, "readonly")

\* The catch block: back to the backup, when one was made.
Recover(p) == IF proc[p].existed THEN Goto(p, "restore") ELSE Finish(p, "readonly")

\* The pending migrations are the files not found applied, in their order;
\* what this process has applied of them it counts in found.
Pending(p) == All \ proc[p].found

NextMigration(p) == CHOOSE m \in Pending(p) : \A n \in Pending(p) : m <= n

\* The schema a migration was written for: all before it and not itself.
Fits(m) == db.file = "good" /\ db.has = 1..(m - 1)

ApplyMigration(p) ==
    /\ At(p, "apply") /\ Pending(p) # {}
    /\ Fits(NextMigration(p))
    /\ db' = Holding(db.has \cup {NextMigration(p)})
    /\ proc' = [proc EXCEPT ![p].found = @ \cup {NextMigration(p)},
                   ![p].pc = IF Pending(p) = {NextMigration(p)} THEN "delete" ELSE "apply"]
    /\ UNCHANGED <<lock, History>>

\* A migration fails; its transaction is rolled back.
ApplyFails(p) ==
    /\ At(p, "apply") /\ Pending(p) # {}
    /\ IF Fits(NextMigration(p)) THEN Fault("apply") ELSE UNCHANGED faults
    /\ events' = IF proc[p].existed THEN events ELSE events \cup {"fresh"}
    /\ Recover(p)
    /\ UNCHANGED <<Files, original, crashes>>

\* Whether the file is gone or not, deleteBackup says nothing.
DeleteBackup(p) ==
    /\ At(p, "delete")
    /\ \/ /\ proc' = [proc EXCEPT ![p].pc = "cleanup", ![p].backup = Absent]
          /\ UNCHANGED faults
       \/ /\ Fault("keep")
          /\ Goto(p, "cleanup")
    /\ UNCHANGED <<Files, original, events, crashes>>

\* cleanupOldBackups; when it throws, an upgrade that was complete has failed.
Cleanup(p) ==
    /\ At(p, "cleanup")
    /\ \/ Finish(p, "ok") /\ UNCHANGED faults
       \/ Fault("cleanup") /\ Recover(p)
    /\ UNCHANGED <<Files, original, events, crashes>>

-----------------------------------------------------------------------------
(* restoreBackup: the file is opened for writing, then filled                *)

\* Before the file is opened nothing is lost; after that it stays torn, or the
\* copy removes what it has begun.
RestoreFails(p) ==
    /\ \/ At(p, "restore") /\ UNCHANGED db
       \/ At(p, "overwrite") /\ db' \in {db, Absent}
    /\ IF proc[p].backup = Absent THEN UNCHANGED faults ELSE Fault("restore")
    /\ events' = events \cup {"restore"}
    /\ Finish(p, "readonly")
    /\ UNCHANGED <<lock, original, crashes>>

RestoreBegins(p) ==
    /\ At(p, "restore") /\ proc[p].backup # Absent
    /\ db' = Torn
    /\ Goto(p, "overwrite")
    /\ UNCHANGED <<lock, History>>

RestoreEnds(p) ==
    /\ At(p, "overwrite")
    /\ db' = proc[p].backup
    /\ Finish(p, "readonly")
    /\ UNCHANGED <<lock, History>>

\* releaseLock removes the lock file, whoever created it.
ReleaseLock(p) ==
    /\ At(p, "release")
    /\ events' = events \cup (IF lock.owner = p THEN {} ELSE Lost("released"))
    /\ lock' = NoLock
    /\ proc' = [proc EXCEPT ![p] = [Off EXCEPT !.pc = proc[p].result]]
    /\ UNCHANGED <<db, original, crashes, faults>>

\* The lock file stays: its removal fails, of which releaseLock says nothing,
\* or closing it does, and the start-up with it.
ReleaseFails(p) ==
    /\ At(p, "release")
    /\ Fault("release")
    /\ events' = events \cup {"left"}
    /\ \E pc \in {proc[p].result, "refused"} :
          proc' = [proc EXCEPT ![p] = [Off EXCEPT !.pc = pc]]
    /\ UNCHANGED <<Files, original, crashes>>

-----------------------------------------------------------------------------
(* Processes end, are killed, and time passes                                *)

\* A refused start-up ends the process; a server is stopped by its user.
Stop(p) ==
    /\ proc[p].pc \in {"refused", "ok", "readonly"}
    /\ proc' = [proc EXCEPT ![p] = Off]
    /\ UNCHANGED <<Files, History>>

Kill(p) ==
    /\ crashes < MaxCrashes /\ ~At(p, "off")
    /\ crashes' = crashes + 1
    /\ events' = events \cup (IF Migrating(p) THEN {"killed"} ELSE {})
    /\ proc' = [proc EXCEPT ![p] = Off]
    /\ UNCHANGED <<Files, original, faults>>

\* The modification time of the lock file is never refreshed.
Tick ==
    /\ lock # NoLock /\ lock.age <= StaleAge
    /\ lock' = [lock EXCEPT !.age = @ + 1]
    /\ UNCHANGED <<db, proc, History>>

Step(p) ==
    \/ OpenLock(p) \/ StatLock(p) \/ UnlinkStale(p) \/ Relock(p)
    \/ CheckExists(p) \/ ReadApplied(p) \/ Backup(p)
    \/ ApplyMigration(p) \/ ApplyFails(p) \/ DeleteBackup(p) \/ Cleanup(p)
    \/ RestoreFails(p) \/ RestoreBegins(p) \/ RestoreEnds(p)
    \/ ReleaseLock(p) \/ ReleaseFails(p)

Next ==
    \/ \E p \in Procs : Start(p) \/ Step(p) \/ Stop(p) \/ Kill(p)
    \/ Tick

Spec == Init /\ [][Next]_vars

\* A process that has begun goes on, time passes, and whoever does not have a
\* working server starts one again.
Fairness ==
    /\ \A p \in Procs : /\ WF_vars(Step(p))
                        /\ WF_vars(Start(p))
                        /\ WF_vars(Stop(p) /\ ~At(p, "ok"))
    /\ WF_vars(Tick)

FairSpec == Spec /\ Fairness

-----------------------------------------------------------------------------
(* Properties                                                               *)

Database == {Absent, Torn} \cup {Holding(s) : s \in SUBSET All}

\* Types; and a process that migrates a database that was there before holds
\* a copy of it.
TypeOK ==
    /\ lock \in [owner : Procs \cup {Nobody}, age : 0..(StaleAge + 1)]
    /\ lock.owner = Nobody => lock = NoLock
    /\ db \in Database
    /\ proc \in [Procs -> [pc : Inside \cup {"off", "lock", "stat", "unlink", "relock",
                                             "refused", "ok", "readonly"},
                           found : SUBSET All, existed : BOOLEAN, backup : Database,
                           result : {"ok", "readonly"}]]
    /\ \A p \in Procs : At(p, "apply") /\ proc[p].existed => proc[p].backup # Absent
    /\ events \subseteq {"overdue", "stolen", "released", "fresh", "restore", "killed", "left"}
    /\ crashes \in 0..MaxCrashes /\ faults \in 0..MaxFaults

Thefts == {"stolen", "released"}

\* What makes a lock stale: a run longer than the age limit, or nobody who
\* removes it.
Openings == {"overdue", "killed", "left"}

\* Two processes migrate at once only after the lock of a live one was removed
\* (acquireLock, releaseLock), and that begins with a run that lasted longer
\* than five minutes or with a lock that was left behind, by a killed process
\* or by one whose releaseLock failed to remove it.
OneMigrator ==
    /\ \A p, q \in Procs : Migrating(p) /\ Migrating(q) /\ p # q => events \cap Thefts # {}
    /\ events \cap Thefts # {} => events \cap Openings # {}

\* A server that reported a completed upgrade works on a database with every
\* migration in it, also while others start, fail and restore; only a process
\* that migrated beside it can take the upgrade back.
UpgradeHolds ==
    \A p \in Procs : At(p, "ok") => db = Holding(All) \/ events \cap Thefts # {}

\* Torn or partly migrated.
Damaged(d) == d \notin {original, Holding(All)} /\ ~(original = Absent /\ d = Holding({}))

\* When nobody migrates, the database is as it was or complete.  A part of the
\* migrations stays, or a torn file, only when a process was killed on the
\* way, a restore failed, a new database had no backup, or two migrated at once
\* (the catch block of runMigrationsWithSafety).
NeverHalfway ==
    (\A p \in Procs : ~Migrating(p)) /\ Damaged(db)
        => events \cap (Thefts \cup {"killed", "restore", "fresh"}) # {}

\* The database is as its users take it to be: the two above, and the copy
\* that a process holds while it migrates.
DataSound == TypeOK /\ UpgradeHolds /\ NeverHalfway

\* Once calls stop failing and nobody is killed, somebody gets a working server
\* on the upgraded database, unless a restore was cut short and left the file
\* torn, or two processes migrated at once.
ServerComesUp ==
    []<>((\E p \in Procs : At(p, "ok")) \/ db = Torn \/ events \cap Thefts # {})
=============================================================================
