---------------------------- MODULE ChatStreams ----------------------------
(***************************************************************************)
(* Chat streams of one agent: the registry of active streams               *)
(* (modules/agent/chat-stream-registry.ts), the socket route               *)
(* (agent-chat.routes.ts), the handling of one message                     *)
(* (agent-chat.service.ts) and the agent loop it runs (core agent-loop.ts),*)
(* with what the web client believes of the streams it was told about.     *)
(*                                                                         *)
(* A message is a request; an action is what the server does between two   *)
(* awaits of that request, or in one socket callback or timer.  A socket   *)
(* is one connection: a client that reconnects opens another.              *)
(***************************************************************************)
EXTENDS Integers, FiniteSets

CONSTANTS
    MaxRequests,   \* bound: messages sent
    MaxSockets,    \* bound: connections made
    MaxRounds,     \* model turns of one message (6 in the code)
    ToolsPerTurn,  \* bound: new tool calls in one model answer
    MaxFaults      \* bound: requests one of whose awaited calls fails

ASSUME StreamsAssumption ==
    /\ MaxRequests \in Nat /\ MaxSockets \in Nat /\ MaxFaults \in Nat
    /\ MaxRounds \in Nat \ {0} /\ ToolsPerTurn \in Nat

\* Messages and connections are numbered in the order they are made.
Requests == 1 .. MaxRequests
Sockets == 1 .. MaxSockets
Nobody == 0

VARIABLES
    byAgentId,    \* the request registered for the agent, or Nobody
    byRequestId,  \* per request: its entry in the registry, or NoEntry
    run,          \* per request: the state of its handler
    proxy,        \* per request: the connection its events go to
    line,         \* per connection: its state
    told,         \* per connection: the streams its client believes running
    latest,       \* history: the last message that was registered
    allowed,      \* history: tools the latest request may have begun, once cancelled
    stored,       \* history: requests whose reply message was stored
    owner,        \* history: the last connection told that the stream runs
    strayed,      \* history: the streams a closed connection has taken since
    faulted       \* history: requests one of whose calls failed

registry == <<byAgentId, byRequestId>>
lines == <<proxy, line, told>>
history == <<latest, allowed, stored, owner, strayed, faulted>>
vars == <<registry, run, lines, history>>

Calls == 1 .. MaxRounds * ToolsPerTurn + 1
NoCancel == Cardinality(Calls) + 1

NoEntry == [activeToolCallId |-> 0, cancelRequested |-> FALSE, there |-> FALSE]
NewEntry == [NoEntry EXCEPT !.there = TRUE]

\* stage is what the handler awaits; begun numbers its tool calls; delayed
\* are the calls whose chat.tool.complete a timer holds back; verdict is the
\* final event, sent or held back.
NewRun == [stage |-> "idle", round |-> 0, left |-> 0, begun |-> 0,
           aborted |-> FALSE, delayed |-> {}, verdict |-> "none"]

Running(r) == run[r].stage \notin {"idle", "ended"}
Alive(s) == line[s] \in {"opening", "open"}

NextRequest == Cardinality({r \in Requests : run[r].stage # "idle"}) + 1
NextSocket == Cardinality({s \in Sockets : line[s] # "off"}) + 1

Init ==
    /\ byAgentId = Nobody
    /\ byRequestId = [r \in Requests |-> NoEntry]
    /\ run = [r \in Requests |-> NewRun]
    /\ proxy = [r \in Requests |-> Nobody]
    /\ line = [s \in Sockets |-> "off"]
    /\ told = [s \in Sockets |-> {}]
    /\ latest = Nobody
    /\ allowed = NoCancel
    /\ stored = {}
    /\ owner = [r \in Requests |-> Nobody]
    /\ strayed = {}
    /\ faulted = {}

-----------------------------------------------------------------------------
(* How a stretch of the handler leaves its run x, e being the entry.        *)

\* Wrong variant: the loop looks at the abort signal only.
Stopped_SignalOnly(x, e) == x.aborted

\* assertNotCancelled: the signal, or shouldStop() on the entry, if any.
Stopped(x, e) == x.aborted \/ e.cancelRequested

\* The handler's own variables are gone; its timers are not.
Ended(x, v) ==
    [NewRun EXCEPT !.stage = "ended", !.verdict = v, !.delayed = x.delayed]

\* Wrong variant: the final event does not wait for the spinners.
Finish_AtOnce(x, v) == Ended(x, v)

\* chat.completed and chat.cancelled wait for every held back event.
Finish(x, v) ==
    IF x.delayed = {} \/ v = "error" THEN Ended(x, v)
    ELSE [x EXCEPT !.stage = "settling", !.verdict = v]

ToStore(x) == [x EXCEPT !.stage = "storing", !.left = 0]

ToTool(x, n) ==
    [x EXCEPT !.stage = "tool", !.begun = @ + 1, !.left = n - 1]

\* The head of the loop over rounds.
NextRound(x, e) ==
    IF x.round = MaxRounds THEN ToStore(x)
    ELSE IF Stopped(x, e) THEN Finish(x, "cancelled")
    ELSE [x EXCEPT !.stage = "model", !.round = @ + 1]

\* After a tool that does not halt the loop a cancel is heeded.
AfterTool(x, e) ==
    IF Stopped(x, e) THEN Finish(x, "cancelled")
    ELSE IF x.left > 0 THEN ToTool(x, x.left)
    ELSE NextRound(x, e)

\* completeTool(): only the call the entry names is completed by it, and a
\* cancel that waited for that call fires now.
Completes(r, c) == byRequestId[r].there /\ byRequestId[r].activeToolCallId = c

Completed(r, c) ==
    IF Completes(r, c) THEN [byRequestId[r] EXCEPT !.activeToolCallId = 0]
    ELSE byRequestId[r]

Signalled(r, c) ==
    run[r].aborted \/ (Completes(r, c) /\ byRequestId[r].cancelRequested)

\* beginTool(), if the stretch ends in a tool.
Begun(x, e) ==
    IF x.stage = "tool" /\ e.there THEN [e EXCEPT !.activeToolCallId = x.begun] ELSE e

\* Wrong variant: complete() forgets the agent's stream, whoever completes.
Registered_AnyStream(r) == TRUE

Registered(r) == byRequestId[r].there

\* The stretch ends.  The final event goes to the connection the stream has
\* now (a closed one discards it) and complete() removes the entry, which an
\* evicted stream no longer has.
Leave(r, x, e) ==
    /\ run' = [run EXCEPT ![r] = x]
    /\ IF x.stage = "ended" /\ Running(r)
       THEN /\ byRequestId' = [byRequestId EXCEPT ![r] = NoEntry]
            /\ byAgentId' = IF Registered(r) THEN Nobody ELSE byAgentId
            /\ told' = [told EXCEPT ![proxy[r]] = @ \ {r}]
       ELSE /\ byRequestId' = [byRequestId EXCEPT ![r] = Begun(x, e)]
            /\ UNCHANGED <<byAgentId, told>>
    /\ allowed' = IF x.stage = "ended" /\ r = latest THEN NoCancel ELSE allowed
    /\ UNCHANGED <<proxy, line, latest, owner, strayed>>

-----------------------------------------------------------------------------
(* Connections and messages *)

Open(s) ==
    /\ s = NextSocket
    /\ line' = [line EXCEPT ![s] = "opening"]
    /\ UNCHANGED <<registry, run, told, proxy, history>>

\* chat.started or chat.resumed.
Tells(s, rs) ==
    /\ told' = [told EXCEPT ![s] = @ \cup rs]
    /\ owner' = [r \in Requests |-> IF r \in rs THEN s ELSE owner[r]]
    /\ strayed' = strayed \ rs

Found == {r \in Requests : r = byAgentId /\ byRequestId[r].there}

\* getAgentById has answered: chat.resumed and the stream, or chat.ready.
Attach(s) ==
    /\ line[s] = "opening"
    /\ line' = [line EXCEPT ![s] = "open"]
    /\ proxy' = [r \in Requests |-> IF r \in Found THEN s ELSE proxy[r]]
    /\ Tells(s, Found)
    /\ UNCHANGED <<registry, run, latest, allowed, stored, faulted>>

\* ... for a connection that was closed meanwhile: it gets the stream as well.
AttachLost(s) ==
    /\ line[s] = "lost"
    /\ line' = [line EXCEPT ![s] = "closed"]
    /\ proxy' = [r \in Requests |-> IF r \in Found THEN s ELSE proxy[r]]
    /\ strayed' = strayed \cup Found
    /\ UNCHANGED <<registry, run, told, latest, allowed, stored, owner, faulted>>

Disconnect(s) ==
    /\ Alive(s)
    /\ line' = [line EXCEPT ![s] = IF @ = "opening" THEN "lost" ELSE "closed"]
    /\ told' = [told EXCEPT ![s] = {}]
    /\ UNCHANGED <<registry, run, proxy, history>>

\* register(): the stream of the agent, if there is one, loses its entry;
\* its handler goes on.
Evicting(r, e) ==
    byRequestId' = [q \in Requests |-> IF q = r THEN e
                                       ELSE IF q = byAgentId THEN NoEntry
                                       ELSE byRequestId[q]]

\* chat.started is sent before the first await.
Message(s, r) ==
    /\ Alive(s)
    /\ r = NextRequest
    /\ byAgentId' = r
    /\ Evicting(r, NewEntry)
    /\ run' = [run EXCEPT ![r].stage = "preparing"]
    /\ proxy' = [proxy EXCEPT ![r] = s]
    /\ Tells(s, {r})
    /\ latest' = r
    /\ allowed' = NoCancel
    /\ UNCHANGED <<line, stored, faulted>>

\* A message that is not JSON evicts as well, then ends with chat.error.
Malformed(s, r) ==
    /\ Alive(s)
    /\ r = NextRequest
    /\ byAgentId' = Nobody
    /\ Evicting(r, NoEntry)
    /\ run' = [run EXCEPT ![r] = Ended(@, "error")]
    /\ proxy' = [proxy EXCEPT ![r] = s]
    /\ latest' = r
    /\ allowed' = NoCancel
    /\ UNCHANGED <<line, told, stored, owner, strayed, faulted>>

\* Tools a request may have begun when it is cancelled now: no more once a
\* tool runs; one more if the model is about to answer or the message, which
\* may be a slash command, is being read.
AllowedNow(r) ==
    run[r].begun + IF run[r].stage \in {"preparing", "model"} THEN 1 ELSE 0

\* requestCancel(), acknowledged with chat.cancelling.  A cancel that names
\* another request, or comes when none is registered, changes nothing.  A
\* tool that runs is not cut off: the abort waits for completeTool.
Cancel(s) ==
    /\ Alive(s)
    /\ byAgentId # Nobody
    /\ LET r == byAgentId IN
          /\ byRequestId' = [byRequestId EXCEPT ![r].cancelRequested = TRUE]
          /\ run' = [run EXCEPT
                        ![r].aborted = @ \/ byRequestId[r].activeToolCallId = 0]
          /\ allowed' = IF allowed = NoCancel THEN AllowedNow(r) ELSE allowed
    /\ UNCHANGED <<byAgentId, lines, latest, stored, owner, strayed, faulted>>

-----------------------------------------------------------------------------
(* One message *)

\* The session, the founder's message and the history are ready: the loop
\* begins; or a slash command runs its tool, whatever was cancelled; or a
\* builtin command is answered directly.
PrepareEnds(r) ==
    /\ run[r].stage = "preparing"
    /\ \E x \in {NextRound(run[r], byRequestId[r]),
                 [run[r] EXCEPT !.stage = "command", !.begun = 1],
                 ToStore(run[r])} : Leave(r, x, byRequestId[r])
    /\ UNCHANGED <<stored, faulted>>

CommandEnds(r) ==
    /\ run[r].stage = "command"
    /\ Leave(r, ToStore(run[r]), byRequestId[r])
    /\ UNCHANGED <<stored, faulted>>

\* The model's answer names n tool calls that were not executed before.  The
\* loop does not look for a cancel between the answer and the first tool.
ModelAnswers(r, n) ==
    /\ run[r].stage = "model"
    /\ Leave(r, IF n = 0 THEN ToStore(run[r]) ELSE ToTool(run[r], n), byRequestId[r])
    /\ UNCHANGED <<stored, faulted>>

\* The adapter rejects because of the abort signal.
ModelAborts(r) ==
    /\ run[r].stage = "model"
    /\ run[r].aborted
    /\ Leave(r, Finish(run[r], "cancelled"), byRequestId[r])
    /\ UNCHANGED <<stored, faulted>>

\* A tool that took less than MIN_TOOL_VISIBLE_MS is completed by a timer.
ToolEnds(r, slow, halt) ==
    /\ run[r].stage = "tool"
    /\ LET c == run[r].begun
           e == IF slow THEN Completed(r, c) ELSE byRequestId[r]
           x == IF slow THEN [run[r] EXCEPT !.aborted = Signalled(r, c)]
                ELSE [run[r] EXCEPT !.delayed = @ \cup {c}]
       IN  Leave(r, IF halt THEN ToStore(x) ELSE AfterTool(x, e), e)
    /\ UNCHANGED <<stored, faulted>>

\* Wrong variant: a held back event does not settle its stream.
Settled_Never(x) == x

\* A handler that waits for held back events goes on after the last one.
Settled(x) ==
    IF x.stage = "settling" /\ x.delayed = {} THEN Ended(x, x.verdict) ELSE x

TimerFires(r, c) ==
    /\ c \in run[r].delayed
    /\ Leave(r, Settled([run[r] EXCEPT !.delayed = @ \ {c},
                                       !.aborted = Signalled(r, c)]),
             Completed(r, c))
    /\ UNCHANGED <<stored, faulted>>

Outcome(r) == "completed"

\* The reply message is stored and audited, the title is set.
Stored(r) ==
    /\ run[r].stage = "storing"
    /\ stored' = stored \cup {r}
    /\ Leave(r, Finish(run[r], Outcome(r)), byRequestId[r])
    /\ UNCHANGED faulted

\* The catch block: the verdict on an error.
Caught(r) ==
    IF \/ run[r].aborted
       \/ run[r].stage = "model" /\ Stopped(run[r], byRequestId[r])
    THEN "cancelled" ELSE "error"

\* An awaited call fails, of the last ones the storing of the reply or a
\* write that follows it.
Fails(r) ==
    /\ Cardinality(faulted) < MaxFaults
    /\ run[r].stage \in {"preparing", "model", "tool", "command", "storing"}
    /\ faulted' = faulted \cup {r}
    /\ stored' \in IF run[r].stage = "storing" THEN {stored, stored \cup {r}} ELSE {stored}
    /\ Leave(r, Finish(run[r], Caught(r)), byRequestId[r])

-----------------------------------------------------------------------------
RequestStep(r) ==
    \/ PrepareEnds(r) \/ CommandEnds(r) \/ ModelAborts(r) \/ Stored(r)
    \/ \E n \in 0 .. ToolsPerTurn : ModelAnswers(r, n)
    \/ \E slow, halt \in BOOLEAN : ToolEnds(r, slow, halt)

Timers(r) == \E c \in Calls : TimerFires(r, c)

Next ==
    \/ \E s \in Sockets :
          \/ Open(s) \/ Attach(s) \/ AttachLost(s) \/ Disconnect(s) \/ Cancel(s)
          \/ \E r \in Requests : Message(s, r) \/ Malformed(s, r)
    \/ \E r \in Requests : RequestStep(r) \/ Timers(r) \/ Fails(r)

Spec == Init /\ [][Next]_vars

\* Models, tools and the database answer, and timers fire.
Fairness == \A r \in Requests : WF_vars(RequestStep(r)) /\ WF_vars(Timers(r))

FairSpec == Spec /\ Fairness

-----------------------------------------------------------------------------
(* Properties *)

Entries == [activeToolCallId : {0} \cup Calls, cancelRequested : BOOLEAN, there : {TRUE}]

Runs ==
    [stage : {"idle", "preparing", "model", "tool", "command", "storing",
              "settling", "ended"},
     round : 0 .. MaxRounds, left : 0 .. ToolsPerTurn, begun : {0} \cup Calls,
     aborted : BOOLEAN, delayed : SUBSET Calls,
     verdict : {"none", "completed", "cancelled", "error"}]

\* Every variable has its type.
TypeOK ==
    /\ byAgentId \in Requests \cup {Nobody}
    /\ byRequestId \in [Requests -> Entries \cup {NoEntry}]
    /\ run \in [Requests -> Runs]
    /\ proxy \in [Requests -> Sockets \cup {Nobody}]
    /\ line \in [Sockets -> {"off", "opening", "open", "lost", "closed"}]
    /\ told \in [Sockets -> SUBSET Requests]
    /\ latest \in Requests \cup {Nobody}
    /\ allowed \in 0 .. NoCancel
    /\ stored \subseteq Requests /\ faulted \subseteq Requests /\ strayed \subseteq Requests
    /\ owner \in [Requests -> Sockets \cup {Nobody}]

\* The stream of the last message can be cancelled and resumed for as long as
\* it runs, and no other stream is registered: the end of an evicted stream
\* must not take the registration of the one that replaced it.
LatestIsRegistered ==
    LET r == IF latest # Nobody /\ Running(latest) THEN latest ELSE Nobody IN
        /\ byAgentId = r
        /\ \A q \in Requests : byRequestId[q].there <=> q = r

\* Once chat.cancelling was sent, the stream begins no tool if one was
\* running, and at most one if the model was being asked, unless another
\* message has evicted it: an evicted stream forgets its cancel.
CancelStops == latest # Nobody => run[latest].begun <= allowed

\* chat.completed and chat.cancelled make the client drop its spinners: they
\* are sent after the last chat.tool.complete that was held back.
SpinnersFirst ==
    \A r \in Requests :
        run[r].stage = "ended" /\ run[r].verdict # "error" => run[r].delayed = {}

\* A stream reported as cancelled has stored no reply, unless a call failed
\* after the reply was stored.
CancelledSaysNothing ==
    \A r \in Requests :
        run[r].stage = "ended" /\ run[r].verdict = "cancelled" /\ r \in stored
            => r \in faulted

\* The final event reaches the last client that was told of the stream, by
\* chat.started or by chat.resumed, if it is still connected, however often
\* clients came and went.  A second window of the same agent takes the stream
\* away from the first, which is told nothing; and so does a connection that was
\* closed before the agent was read for it, which is the one exception.
LastToAttachHears ==
    \A s \in Sockets : \A r \in told[s] :
        run[r].stage = "ended" => owner[r] # s \/ r \in strayed

\* Whoever has the registration of the agent, or was last told of it, is the
\* one that is served.
RegistrySound == TypeOK /\ LatestIsRegistered /\ LastToAttachHears

\* An acknowledged cancel stops tools and reply, as said above.
CancelHolds == CancelStops /\ CancelledSaysNothing

\* Every stream ends, cancelled, evicted or cut off from its client.
StreamsEnd ==
    \A r \in Requests : run[r].stage = "preparing" ~> run[r].stage = "ended"
=============================================================================
