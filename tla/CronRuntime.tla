------------------------------ MODULE CronRuntime ------------------------------
(***************************************************************************)
(* The cron scheduler (apps/server/src/runtime/cron-runtime.service.ts),   *)
(* the CronService it runs on (packages/core/src/cron/cron.service.ts) and *)
(* the founder's edits of the same rows (modules/cron/cron.controller.ts). *)
(*                                                                         *)
(* A poll lists the due jobs, then runs them one after the other; a run    *)
(* may take minutes and is followed by its history record, the link to its *)
(* chat session and the next run time.  An edit reads a row and writes it  *)
(* back whole.  A step is one repository access, or the run itself.        *)
(*                                                                         *)
(* The times at which a schedule fires are numbered per job; now[c] is the *)
(* last one that has passed.  Null stands for a row without nextRunAt.     *)
(* The chat sessions of a job are numbered; NoChat stands for sessionId    *)
(* null and for a session that is gone: a run then makes a new one.        *)
(***************************************************************************)
EXTENDS Integers

CONSTANTS
    Crons,
    Edited,       \* bound: the ones edited, and due more than once
    Asked,        \* bound: the kinds of edits, see Kinds
    CronPolls,    \* bound: polls at once
    Editors,      \* bound: edits at once
    LastTime,     \* bound: times a schedule fires
    MaxChats,     \* bound: chat sessions of a job that something names at once
    MaxEdits,     \* bound: edits begun, jobs created and chat sessions deleted
    MaxFaults,    \* bound: database calls that fail for reasons of their own,
                  \* and deaths of the process
    NoCron

ASSUME CronAssumption ==
    /\ LastTime \in Nat \ {0} /\ MaxChats \in Nat /\ MaxEdits \in Nat
    /\ MaxFaults \in Nat
    /\ Edited \subseteq Crons
    /\ NoCron \notin Crons

VARIABLES
    row,      \* crons: the CronJob row
    now,      \* crons: the clock, in times its schedule fires
    cronPoll, \* calls of pollNow
    polling,  \* the guard of pollNow
    phase,    \* of the process: up, stopping, stopped, down
    edit,     \* edits in progress
    record,   \* crons: the history records of its last run (CronRun rows)
    ran,      \* crons: the last time run (history)
    quiet,    \* crons: zero while the founder wants its runs, one when not, two
              \* when one has begun since (history)
    linked,   \* crons: the chat session a run has linked last, until the founder
              \* gives the job another or deletes it (history)
    why,      \* crons: edits that explain a second run (history)
    edits, faults

cronVars == <<row, now, cronPoll, polling, phase, edit, record, ran, quiet, linked, why,
              edits, faults>>

Null == 0
NoChat == 0

NoRow == [is |-> "none", enabled |-> FALSE, next |-> Null, session |-> NoChat, fires |-> TRUE]

\* A poll keeps of a due row the time the run is for and its chat session, and
\* of a run the session it talks in.
IdleCronPoll == [pc |-> "idle", todo |-> {}, time |-> [c \in Crons |-> Null],
                 chat |-> [c \in Crons |-> NoChat], cron |-> NoCron, failed |-> FALSE,
                 next |-> Null, enabled |-> FALSE]

NoEdit == [pc |-> "idle", kind |-> "rename", cron |-> NoCron, seen |-> NoRow, new |-> NoRow]

NewRow(enabled, fires, next) ==
    [is |-> "there", enabled |-> enabled, next |-> next, session |-> NoChat, fires |-> fires]

CronInit ==
    /\ row \in [Crons -> {NoRow, NewRow(TRUE, TRUE, 1)}]
    /\ \A c \in Crons \ Edited : row[c] # NoRow
    /\ now = [c \in Crons |-> 1]
    /\ cronPoll = [p \in CronPolls |-> IdleCronPoll]
    /\ polling = FALSE
    /\ phase = "up"
    /\ edit = [e \in Editors |-> NoEdit]
    /\ record = [c \in Crons |-> {}]
    /\ ran = [c \in Crons |-> 0]
    /\ quiet = [c \in Crons |-> 0]
    /\ linked = [c \in Crons |-> NoChat]
    /\ why = [c \in Crons |-> {}]
    /\ edits = 0 /\ faults = 0

-----------------------------------------------------------------------------
(* CronService                                                              *)

Up == phase \in {"up", "stopping"}

There(c) == row[c].is = "there"

\* nextRunAtIso: the next time the schedule fires; for a schedule that never
\* does, the time it is asked for.
NextRunAt(fires, from) == IF fires THEN from + 1 ELSE from

\* Wrong variant: a row without a next run is due whether enabled or not.
IsDue_NullFirst(c) ==
    There(c) /\ (row[c].next = Null \/ (row[c].enabled /\ row[c].next <= now[c]))

\* listDueJobs.
IsDue(c) ==
    /\ There(c) /\ row[c].enabled
    /\ row[c].next = Null \/ row[c].next <= now[c]

\* The chat sessions that something names for a job, and the next one made.
ChatsOf(c) ==
    {row[c].session, linked[c]} \cup {cronPoll[p].chat[c] : p \in CronPolls}
    \cup {edit[e].seen.session : e \in Editors} \cup {edit[e].new.session : e \in Editors}

Fresh(c) ==
    {x \in (1..MaxChats) \ ChatsOf(c) : \A y \in (1..MaxChats) \ ChatsOf(c) : x <= y}

Explain(c, s) == why' = [why EXCEPT ![c] = @ \cup s]

Times == <<now, phase>>
Edits == <<edit, edits>>
Runs == <<ran, quiet, linked>>

\* A database call fails for a reason of its own.
Fault == faults < MaxFaults /\ faults' = faults + 1

-----------------------------------------------------------------------------
(* pollNow                                                                  *)

At(p, pc) == Up /\ cronPoll[p].pc = pc

Goto(p, pc) == cronPoll' = [cronPoll EXCEPT ![p].pc = pc]

\* The rest of a poll: the next due job, or the end of it.
Continue(p) ==
    cronPoll' = [cronPoll EXCEPT
                    ![p] = [IdleCronPoll EXCEPT !.pc = "next", !.todo = cronPoll[p].todo,
                                !.time = cronPoll[p].time,
                                !.chat = [c \in Crons |-> IF c \in cronPoll[p].todo
                                             THEN cronPoll[p].chat[c] ELSE NoChat]]]

\* Wrong variant: the guard stays closed when a poll rejects.
Reject_KeepsGuard(p) ==
    /\ cronPoll' = [cronPoll EXCEPT ![p] = IdleCronPoll]
    /\ phase' \in {phase, "down"}
    /\ UNCHANGED polling

\* pollNow rejects: the guard is opened, the jobs left over are skipped, and
\* as nobody handles the rejection the process may end.
Reject(p) ==
    /\ cronPoll' = [cronPoll EXCEPT ![p] = IdleCronPoll]
    /\ polling' = FALSE
    /\ phase' \in {phase, "down"}

\* start or the timer: a poll, unless one is at work.
StartCronPoll(p) ==
    /\ phase = "up" /\ At(p, "idle") /\ ~polling
    /\ polling' = TRUE
    /\ Goto(p, "list")
    /\ UNCHANGED <<row, Times, Edits, Runs, record, why, faults>>

\* What is kept of the due rows.  Without a nextRunAt the run is for now.
Listed(due) ==
    [IdleCronPoll EXCEPT !.pc = "next", !.todo = due,
         !.time = [c \in Crons |-> IF c \notin due THEN Null
                                   ELSE IF row[c].next = Null THEN now[c] ELSE row[c].next],
         !.chat = [c \in Crons |-> IF c \in due THEN row[c].session ELSE NoChat]]

ListDue(p) ==
    /\ At(p, "list")
    /\ \/ /\ cronPoll' = [cronPoll EXCEPT ![p] = Listed({c \in Crons : IsDue(c)})]
          /\ UNCHANGED <<polling, phase, faults>>
       \/ Fault /\ Reject(p)
    /\ UNCHANGED <<row, now, Edits, Runs, record, why>>

EndCronPoll(p) ==
    /\ At(p, "next") /\ cronPoll[p].todo = {}
    /\ cronPoll' = [cronPoll EXCEPT ![p] = IdleCronPoll]
    /\ polling' = FALSE
    /\ UNCHANGED <<row, Times, Edits, Runs, record, why, faults>>

-----------------------------------------------------------------------------
(* executeSingleJob, on a row as it was when it was listed                  *)

\* executeJob: a chat session is made unless the row named one that is there.
BeginRun(p) ==
    /\ At(p, "next")
    /\ \E c \in cronPoll[p].todo :
       \E x \in IF cronPoll[p].chat[c] # NoChat THEN {cronPoll[p].chat[c]} ELSE Fresh(c) :
          /\ cronPoll' = [cronPoll EXCEPT ![p].pc = "run", ![p].todo = @ \ {c}, ![p].cron = c,
                                          ![p].time[c] = Null, ![p].chat[c] = x]
          /\ ran' = [ran EXCEPT ![c] = cronPoll[p].time[c]]
          /\ quiet' = [quiet EXCEPT ![c] = IF @ = 0 THEN 0 ELSE 2]
          /\ record' = [record EXCEPT ![c] = {}]
    /\ UNCHANGED <<row, polling, Times, Edits, linked, why, faults>>

\* The run succeeds or fails.
EndCronRun(p) ==
    /\ At(p, "run")
    /\ \E failed \in BOOLEAN :
          cronPoll' = [cronPoll EXCEPT ![p].pc = "record", ![p].failed = failed]
    /\ UNCHANGED <<row, polling, Times, Edits, Runs, record, why, faults>>

\* A call throws: the first time the run is recorded as failed, from there on
\* the poll rejects.
Throw(p) ==
    IF cronPoll[p].failed
    THEN Reject(p)
    ELSE /\ cronPoll' = [cronPoll EXCEPT ![p].pc = "record", ![p].failed = TRUE,
                                         ![p].next = Null, ![p].enabled = FALSE]
         /\ UNCHANGED <<polling, phase>>

\* A call of the run throws because the row is gone, or for a reason of its own.
CallThrows(p) ==
    /\ Throw(p)
    /\ There(cronPoll[p].cron) => Fault
    /\ ~There(cronPoll[p].cron) => UNCHANGED faults
    /\ UNCHANGED <<row, record, linked, why>>

RecordRun(p) ==
    /\ At(p, "record")
    /\ \/ /\ There(cronPoll[p].cron)
          /\ record' = [record EXCEPT ![cronPoll[p].cron] =
                                @ \cup {IF cronPoll[p].failed THEN "failed" ELSE "success"}]
          /\ Goto(p, IF cronPoll[p].failed THEN "mark" ELSE "session")
          /\ UNCHANGED <<row, polling, phase, linked, why, faults>>
       \/ CallThrows(p)
    /\ UNCHANGED <<now, Edits, ran, quiet>>

\* The session the run has talked in, if it is there still.
RunChat(p) == cronPoll[p].chat[cronPoll[p].cron]

\* Wrong variant: a job that has its session cannot be linked again.
SetSession_Once(p) ==
    /\ At(p, "session") /\ There(cronPoll[p].cron)
    /\ IF row[cronPoll[p].cron].session # NoChat
       THEN Throw(p) /\ UNCHANGED <<row, linked>>
       ELSE /\ row' = [row EXCEPT ![cronPoll[p].cron].session = RunChat(p)]
            /\ linked' = [linked EXCEPT ![cronPoll[p].cron] = RunChat(p)]
            /\ Goto(p, "mark")
            /\ UNCHANGED <<polling, phase>>
    /\ UNCHANGED <<now, Edits, ran, quiet, record, why, faults>>

\* setJobSession writes over whatever the founder chose during the run.
SetSession(p) ==
    /\ At(p, "session")
    /\ \/ /\ There(cronPoll[p].cron)
          /\ row' = [row EXCEPT ![cronPoll[p].cron].session = RunChat(p)]
          /\ linked' = [linked EXCEPT ![cronPoll[p].cron] = RunChat(p)]
          /\ Goto(p, "mark")
          /\ UNCHANGED <<record, polling, phase, why, faults>>
       \/ CallThrows(p)
    /\ UNCHANGED <<now, Edits, ran, quiet>>

\* Wrong variant: the next time of a disabled job cannot be counted.
MarkRead_OnlyEnabled(p) ==
    /\ At(p, "mark")
    /\ IF row[cronPoll[p].cron].enabled
       THEN /\ cronPoll' = [cronPoll EXCEPT ![p].pc = "write", ![p].enabled = TRUE,
                 ![p].next = NextRunAt(row[cronPoll[p].cron].fires, now[cronPoll[p].cron])]
            /\ UNCHANGED <<polling, phase>>
       ELSE Throw(p)
    /\ UNCHANGED <<row, now, Edits, Runs, record, why, faults>>

\* markRunScheduled reads the row: its schedule, and whether it is enabled.
MarkRead(p) ==
    /\ At(p, "mark")
    /\ \/ /\ There(cronPoll[p].cron)
          /\ LET r == row[cronPoll[p].cron] IN
             cronPoll' = [cronPoll EXCEPT ![p].pc = "write", ![p].enabled = r.enabled,
                          ![p].next = IF r.enabled THEN NextRunAt(r.fires, now[cronPoll[p].cron])
                                      ELSE Null]
          /\ UNCHANGED <<row, record, polling, phase, linked, why, faults>>
       \/ CallThrows(p)
    /\ UNCHANGED <<now, Edits, ran, quiet>>

\* ... and writes the next time, whatever became of the row in between.
MarkWrite(p) ==
    /\ At(p, "write")
    /\ \/ /\ There(cronPoll[p].cron)
          /\ row' = [row EXCEPT ![cronPoll[p].cron].next = cronPoll[p].next]
          /\ Explain(cronPoll[p].cron, IF row[cronPoll[p].cron].enabled # cronPoll[p].enabled
                                       THEN {"overlap"} ELSE {})
          /\ Continue(p)
          /\ UNCHANGED <<record, polling, phase, linked, faults>>
       \/ CallThrows(p)
    /\ UNCHANGED <<now, Edits, ran, quiet>>

-----------------------------------------------------------------------------
(* The founder's edits                                                      *)

Kinds == {"rename", "chat", "enable", "disable", "reschedule", "delete"}

Request == Up /\ edits < MaxEdits /\ edits' = edits + 1

\* POST /cron: the next time is set whether the job is enabled or not.
Create(c) ==
    /\ Request /\ c \in Edited /\ row[c].is = "none"
    /\ \E enabled, fires \in BOOLEAN :
          /\ row' = [row EXCEPT ![c] = NewRow(enabled, fires, NextRunAt(fires, now[c]))]
          /\ quiet' = [quiet EXCEPT ![c] = IF enabled THEN 0 ELSE 1]
          /\ Explain(c, IF fires THEN {} ELSE {"never"})
    /\ UNCHANGED <<cronPoll, polling, Times, edit, ran, linked, record, faults>>

\* The row updateJob writes: what was not asked for, as it was read.
Updated(kind, r, fires, session, from) ==
    LET enabled == CASE kind = "enable" -> TRUE
                     [] kind = "disable" -> FALSE
                     [] OTHER -> r.enabled
    IN [r EXCEPT !.enabled = enabled, !.fires = fires, !.session = session,
                 !.next = IF kind \in {"rename", "chat"} THEN r.next
                          ELSE IF enabled THEN NextRunAt(fires, from) ELSE Null]

\* PATCH and DELETE /cron/:id read the row first.  A PATCH may give the job
\* another chat session, or none.
ReadForEdit(e) ==
    /\ edit[e].pc = "idle" /\ Request
    /\ \E c \in Edited, kind \in Kinds \cap Asked, fires \in BOOLEAN :
       \E session \in IF kind = "chat" THEN {NoChat} \cup Fresh(c) ELSE {row[c].session} :
          /\ There(c)
          /\ kind # "reschedule" => fires = row[c].fires
          /\ edit' = [edit EXCEPT ![e] = [pc |-> "write", kind |-> kind, cron |-> c,
                          seen |-> row[c],
                          new |-> Updated(kind, row[c], fires, session, now[c])]]
    /\ UNCHANGED <<row, cronPoll, polling, Times, Runs, record, why, faults>>

\* A row was changed since it was read, and the change is written over.
Overwrites(e) ==
    LET r == row[edit[e].cron] s == edit[e].seen k == edit[e].kind IN
    \/ r.enabled # s.enabled /\ k \notin {"enable", "disable"}
    \/ r.next # s.next
    \/ r.session # s.session /\ k # "chat"

\* Another edit of the job has read the row, and will be written over this one.
Racing(e) == \E f \in Editors \ {e} : edit[f].cron = edit[e].cron

\* The founder wants the runs of the job, or wants them no more.
Wanted(c, kind) ==
    quiet' = [quiet EXCEPT ![c] = CASE kind = "enable" -> 0
                                    [] kind \in {"disable", "delete"} /\ @ = 0 -> 1
                                    [] OTHER -> @]

\* Deleting a job deletes its history with it; a job that is gone stays gone.
WriteEdit(e) ==
    LET c == edit[e].cron IN
    /\ Up /\ edit[e].pc = "write"
    /\ edit' = [edit EXCEPT ![e] = NoEdit]
    /\ \/ ~There(c) /\ UNCHANGED <<row, quiet, linked, record, why>>
       \/ /\ There(c)
          /\ Wanted(c, edit[e].kind)
          /\ IF edit[e].kind = "delete"
             THEN /\ row' = [row EXCEPT ![c] = [NoRow EXCEPT !.is = "gone"]]
                  /\ record' = [record EXCEPT ![c] = {}]
                  /\ UNCHANGED why
                  /\ UNCHANGED linked
             ELSE /\ row' = [row EXCEPT ![c] = edit[e].new]
                  /\ linked' = [linked EXCEPT ![c] = IF edit[e].kind = "chat" THEN NoChat ELSE @]
                  /\ Explain(c, (IF Overwrites(e) \/ Racing(e) THEN {"overlap"} ELSE {})
                                \cup IF edit[e].new.fires THEN {} ELSE {"never"})
                  /\ UNCHANGED record
    /\ UNCHANGED <<cronPoll, polling, Times, edits, ran, faults>>

Without(chat, x) == IF chat = x THEN NoChat ELSE chat

WithoutChat(r, x) == [r EXCEPT !.session = Without(@, x)]

\* DELETE /agents/:id/chat/sessions/:sessionId, one of job c: whatever names it
\* names nothing any more.
DeleteChat(c) ==
    /\ Request /\ c \in Edited
    /\ \E x \in ChatsOf(c) \ {NoChat} :
          /\ row' = [row EXCEPT ![c] = WithoutChat(@, x)]
          /\ linked' = [linked EXCEPT ![c] = Without(@, x)]
          /\ cronPoll' = [p \in CronPolls |-> [cronPoll[p] EXCEPT !.chat[c] = Without(@, x)]]
          /\ edit' = [e \in Editors |->
                         IF edit[e].cron # c THEN edit[e]
                         ELSE [edit[e] EXCEPT !.seen = WithoutChat(@, x),
                                              !.new = WithoutChat(@, x)]]
    /\ UNCHANGED <<polling, Times, ran, quiet, record, why, faults>>

-----------------------------------------------------------------------------
(* The clock and the process                                                *)

\* Bound: between the end of a run and the writing of the next time, counted
\* from that end, no time comes.
Elapse(c) ==
    /\ c \in Edited /\ now[c] < LastTime
    /\ \A p \in CronPolls : cronPoll[p].pc \notin {"record", "session", "mark", "write"}
    /\ now' = [now EXCEPT ![c] = @ + 1]
    /\ UNCHANGED <<row, cronPoll, polling, phase, Edits, Runs, record, why, faults>>

\* stop: no timer any more ...
Stop ==
    /\ phase = "up"
    /\ phase' = "stopping"
    /\ UNCHANGED <<row, now, cronPoll, polling, Edits, Runs, record, why, faults>>

\* ... and the poll at work is waited for.
Stopped ==
    /\ phase = "stopping" /\ ~polling
    /\ phase' = "stopped"
    /\ UNCHANGED <<row, now, cronPoll, polling, Edits, Runs, record, why, faults>>

Kill ==
    /\ Up /\ Fault
    /\ phase' = "down"
    /\ UNCHANGED <<row, now, cronPoll, polling, Edits, Runs, record, why>>

\* The rows are all that is left.
Restart ==
    /\ phase = "down"
    /\ phase' = "up"
    /\ cronPoll' = [p \in CronPolls |-> IdleCronPoll]
    /\ polling' = FALSE
    /\ edit' = [e \in Editors |-> NoEdit]
    /\ UNCHANGED <<row, now, edits, Runs, record, why, faults>>

Step(p) ==
    \/ ListDue(p) \/ EndCronPoll(p) \/ BeginRun(p) \/ EndCronRun(p)
    \/ RecordRun(p) \/ SetSession(p) \/ MarkRead(p) \/ MarkWrite(p)

\* Calls and requests are alike: the next one is any that is free.
Poll == \E p \in CronPolls : At(p, "idle") /\ StartCronPoll(CHOOSE q \in CronPolls : At(q, "idle"))

BeginEdit ==
    \E e \in Editors :
        edit[e].pc = "idle" /\ ReadForEdit(CHOOSE f \in Editors : edit[f].pc = "idle")

CronNext ==
    \/ Poll \/ \E p \in CronPolls : Step(p)
    \/ BeginEdit \/ \E e \in Editors : WriteEdit(e)
    \/ \E c \in Crons : Create(c) \/ DeleteChat(c) \/ Elapse(c)
    \/ Stop \/ Stopped \/ Kill \/ Restart

CronSpec == CronInit /\ [][CronNext]_cronVars

\* The calls of a poll return, the timer goes on, and a stop is checked for
\* every 25 ms.  Nothing obliges the founder, the clock or a restart.
CronFairSpec ==
    /\ CronSpec
    /\ \A p \in CronPolls : WF_cronVars(Step(p))
    /\ WF_cronVars(Poll)
    /\ WF_cronVars(Stopped)

-----------------------------------------------------------------------------
(* Properties                                                               *)

Rows == [is : {"none", "there", "gone"}, enabled : BOOLEAN, next : 0..(LastTime + 1),
         session : 0..MaxChats, fires : BOOLEAN]

\* What every variable holds; the guard is closed exactly while a poll of a
\* running process is at work, and a poll names a job exactly in its run.
CronTypeOK ==
    /\ row \in [Crons -> Rows]
    /\ now \in [Crons -> 1..LastTime]
    /\ phase \in {"up", "stopping", "stopped", "down"}
    /\ polling \in BOOLEAN
    /\ Up => (polling <=> \E p \in CronPolls : cronPoll[p].pc # "idle")
    /\ \A p \in CronPolls :
          cronPoll[p].cron # NoCron <=> cronPoll[p].pc \in {"run", "record", "session", "mark", "write"}
    /\ \A e \in Editors : edit[e].new \in Rows
    /\ ran \in [Crons -> 0..LastTime]
    /\ quiet \in [Crons -> 0..2] /\ linked \in [Crons -> 0..MaxChats]
    /\ record \in [Crons -> SUBSET {"success", "failed"}]
    /\ edits \in 0..MaxEdits /\ faults \in 0..MaxFaults

Begins(p, c) == At(p, "next") /\ cronPoll'[p].pc = "run" /\ cronPoll'[p].cron = c

EveryRun(Good(_, _)) == \A p \in CronPolls, c \in Crons : Begins(p, c) => Good(p, c)

\* A job is run once for each time its schedule fires, and never goes back,
\* although founder, poll and restart all write its next time.  Only a failed
\* database call, a death in the run, an update written over another, or a
\* schedule that never fires (it is due at every poll) brings a time back.
OncePerTime ==
    [][EveryRun(LAMBDA p, c : cronPoll[p].time[c] <= ran[c] =>
                   faults > 0 \/ why[c] # {})]_cronVars

\* After the founder has disabled or deleted a job one more run of it begins at
\* the most, the one that was listed already; more only where an update of
\* something else wrote the row back as enabled.
QuietWhenUnwanted ==
    [][EveryRun(LAMBDA p, c : quiet[c] = 2 => "overlap" \in why[c])]_cronVars

\* Once a run has linked its chat session, all runs of the job talk in that one,
\* until the founder gives the job another session or deletes it, and unless an
\* update begun before wrote the link away.
OneChat ==
    [][EveryRun(LAMBDA p, c :
          linked[c] # NoChat =>
             cronPoll[p].chat[c] = linked[c] \/ "overlap" \in why[c])]_cronVars

\* When a job is run again its last run is in the history, and once: as a
\* success or as a failure.  Only a failing database call or a death in the
\* run leaves it out or records it as both.
OneRecordPerRun ==
    [][EveryRun(LAMBDA p, c : ran[c] > 0 /\ There(c) =>
                   (\E s \in record[c] : record[c] = {s}) \/ faults > 0)]_cronVars

\* A job is run, recorded and linked once for each time: the three above.
RunsOnce == OncePerTime /\ OneChat /\ OneRecordPerRun

\* The scheduler takes the process down only after a database call failed or a
\* job was deleted: no other edit, in whatever step of a run, makes it reject.
StaysUp ==
    phase = "down" => faults > 0 \/ \E c \in Crons : row[c].is = "gone"

\* After stop has returned no run is at work or begins.
QuietWhenStopped ==
    phase = "stopped" => \A p \in CronPolls : cronPoll[p].pc = "idle"

\* The two above, and the guard of the polls.
RuntimeSound == CronTypeOK /\ StaysUp /\ QuietWhenStopped

\* A due job is run, however long the jobs before it take and whatever fails in
\* them, unless it is edited or the process stops or dies.
DueRuns ==
    \A c \in Crons : (phase = "up" /\ IsDue(c)) ~>
        (~IsDue(c) \/ (\E p \in CronPolls : cronPoll[p].cron = c) \/ phase # "up")

\* stop returns.
StopReturns == phase = "stopping" ~> phase # "stopping"

\* Neither a job nor the shutdown waits for ever: the two above.
PollsEnd == DueRuns /\ StopReturns
=============================================================================
