----------------------------- MODULE PluginTools -----------------------------
(***************************************************************************)
(* Plugins, the tools they contribute and the policy over these tools: the *)
(* loader (modules/plugins/plugin-loader.service.ts), its routes, the      *)
(* in-memory registry (core plugin.registry.ts), the tool policy           *)
(* (modules/tools/tool-management.service.ts) and the executor that looks  *)
(* at all of them when a tool is called (default-tool.executor.ts).        *)
(*                                                                         *)
(* A request is a coroutine; an action goes from one database access (or   *)
(* the imports of the modules) to the next, the answer of an access coming *)
(* with the access.  Each plugin has one tool of its name.  A plugin is    *)
(* enabled or off: 'discovered', 'disabled' and 'error' are alike to every *)
(* reader here.  Modules load; that the tool of a module that does not is  *)
(* a placeholder is left out.                                              *)
(***************************************************************************)
EXTENDS Integers, FiniteSets

CONSTANTS
    Plugins,      \* the plugin directories
    Default,      \* those whose package says they are default plugins
    OnByDefault,  \* those whose tool is enabledByDefault
    NeedsFields,  \* those whose tool has a required custom field
    Requests,     \* bound: requests at once
    MaxRequests,  \* bound: requests made
    MaxFaults,    \* bound: calls that fail
    Nobody

ASSUME PluginAssumption ==
    /\ Default \subseteq Plugins /\ OnByDefault \subseteq Plugins
    /\ NeedsFields \subseteq Plugins
    /\ MaxRequests \in Nat /\ MaxFaults \in Nat
    /\ Nobody \notin Plugins
    /\ Requests # {}  \* the start-up is one

VARIABLES
    row,        \* per plugin: its row in the database
    settings,   \* tools.registry and tools.customFields, in the database
    defaults,   \* defaultPluginIds of the loader
    registry,   \* PluginRegistry: the rows as they were last listed
    executor,   \* the shared executor: its plugin tools, those disabled
    fork,       \* the executor of a task run, copied when the run began
    request,    \* the requests at work
    booted,     \* the start-up has discovered the plugins, requests are taken
    requests, faults,
    wish,       \* what the founder was told the settings are (history)
    why         \* what explains that the executor differs from them (history)

Database == <<row, settings>>
Counts == <<requests, faults>>
History == <<wish, why>>
vars == <<Database, defaults, registry, executor, fork, request, booted, Counts, History>>

Nothing == [tools |-> {}, disabled |-> {}]
NoSettings == [policy |-> [t \in Plugins |-> "unset"], fields |-> {}]

\* What a request keeps: the plugin (or tool) it names, what it does, the
\* plugins it has yet to scan or is importing, and the settings it has read.
Idle == [pc |-> "idle", kind |-> "none", plugin |-> Nobody, todo |-> {}, seen |-> NoSettings]

Boot == CHOOSE r \in Requests : TRUE

\* The start-up discovers; nothing of an earlier process is left in memory.
Init ==
    /\ row \in [Plugins -> {"none", "off", "enabled"}]
    /\ settings \in [policy : [Plugins -> {"unset", "on", "off"}], fields : SUBSET NeedsFields]
    /\ defaults = {}
    /\ registry = [p \in Plugins |-> "none"]
    /\ executor = Nothing /\ fork = Nothing
    /\ request = [r \in Requests |->
                     IF r = Boot THEN [Idle EXCEPT !.pc = "scan", !.todo = Plugins]
                     ELSE Idle]
    /\ booted = FALSE
    /\ requests = 0 /\ faults = 0
    /\ wish = settings /\ why = {}

At(r, pc) == request[r].pc = pc

Fault == faults < MaxFaults /\ faults' = faults + 1

\* The request ends; the start-up opens the server with it.
End(r) ==
    /\ request' = [request EXCEPT ![r] = Idle]
    /\ booted' = TRUE

Goto(r, pc) ==
    /\ request' = [request EXCEPT ![r] = [Idle EXCEPT !.pc = pc]]
    /\ UNCHANGED booted

\* Requests are alike: the next one is any that is free.
Begin(q) ==
    /\ booted /\ requests < MaxRequests
    /\ \E r \in Requests : At(r, "idle")
    /\ LET r == CHOOSE r \in Requests : At(r, "idle") IN
       request' = [request EXCEPT ![r] = q]
    /\ requests' = requests + 1
    /\ UNCHANGED <<Database, defaults, executor, fork, booted, faults, History>>

-----------------------------------------------------------------------------
(* refreshRegistry                                                          *)

\* Wrong variant: the registry keeps the plugins until they are listed again.
Cleared_Later == registry

\* It clears the registry before its first await, the listing of the rows.
Cleared == [p \in Plugins |-> "none"]

\* clearPluginTools: the names disabled by policy stay.
Emptied == {}

Active == {p \in Plugins : row[p] = "enabled" \/ (row[p] # "none" /\ p \in defaults)}

\* The rows are registered, the tools removed and the modules of the active
\* plugins imported.  When another refresh is importing meanwhile, it will put
\* back the tools it has found.
List(r) ==
    /\ At(r, "list")
    /\ registry' = row
    /\ executor' = [executor EXCEPT !.tools = Emptied]
    /\ request' = [request EXCEPT ![r].pc = "import", ![r].todo = Active]
    /\ why' = (why \ {"broken", "overlap"})
                 \cup IF \E q \in Requests : At(q, "import") THEN {"overlap"} ELSE {}
    /\ UNCHANGED <<Database, defaults, fork, booted, Counts, wish>>

\* Wrong variant: the tools registered meanwhile are replaced.
Register_Replaces(r) ==
    /\ At(r, "import")
    /\ executor' = [executor EXCEPT !.tools = request[r].todo]
    /\ request' = [request EXCEPT ![r].pc = "settings", ![r].todo = {}]
    /\ UNCHANGED <<Database, defaults, registry, fork, booted, Counts, History>>

\* registerPluginTools adds the tools of the plugins that were listed.
Register(r) ==
    /\ At(r, "import")
    /\ executor' = [executor EXCEPT !.tools = @ \cup request[r].todo]
    /\ request' = [request EXCEPT ![r].pc = "settings", ![r].todo = {}]
    /\ UNCHANGED <<Database, defaults, registry, fork, booted, Counts, History>>

\* The listing fails with the registry cleared: no plugin works until another
\* refresh.  The start-up goes on, a request ends in an error.
ListFails(r) ==
    /\ At(r, "list") /\ Fault
    /\ IF booted THEN End(r) ELSE Goto(r, "settings")
    /\ why' = why \cup {"broken"}
    /\ UNCHANGED <<Database, defaults, registry, executor, fork, requests, wish>>

-----------------------------------------------------------------------------
(* discover, and the routes that enable and disable plugins                 *)

Discover ==
    /\ Begin([Idle EXCEPT !.pc = "scan", !.todo = Plugins])
    /\ UNCHANGED registry

\* The next directory is looked at, or after the last one the registry refreshed.
ScanNext(r, p) ==
    LET left == request[r].todo \ {p} IN
    /\ request' = [request EXCEPT ![r].pc = IF left = {} THEN "list" ELSE "scan",
                                  ![r].plugin = Nobody, ![r].todo = left]
    /\ registry' = IF left = {} THEN Cleared ELSE registry

\* What the package (or the module) says of itself.
Marked(p) == {p} \cap Default

\* A plugin without a row gets one; a default one that is off is enabled.
Scan(r) ==
    /\ At(r, "scan")
    /\ \E p \in request[r].todo :
          /\ defaults' = defaults \cup Marked(p)
          /\ IF row[p] = "none" \/ (p \in Default /\ row[p] = "off")
             THEN /\ request' = [request EXCEPT ![r].pc = "found", ![r].plugin = p]
                  /\ UNCHANGED registry
             ELSE ScanNext(r, p)
    /\ UNCHANGED <<Database, executor, fork, booted, Counts, History>>

\* A row that was created meanwhile is not created again.
StoreFound(r) ==
    /\ At(r, "found")
    /\ LET p == request[r].plugin IN
       /\ row' = [row EXCEPT ![p] = IF p \in Default THEN "enabled"
                                    ELSE IF @ = "none" THEN "off" ELSE @]
       /\ ScanNext(r, p)
    /\ UNCHANGED <<settings, defaults, executor, fork, booted, Counts, History>>

\* A directory that cannot be read or stored is passed over.
ScanFails(r) ==
    /\ Fault
    /\ \/ At(r, "scan") /\ \E p \in request[r].todo : ScanNext(r, p)
       \/ At(r, "found") /\ ScanNext(r, request[r].plugin)
    /\ UNCHANGED <<Database, defaults, executor, fork, booted, requests, History>>

\* POST /plugins/:id/enable and disable find the row; one that has the state
\* already is not written, but the registry is refreshed all the same.
Toggle(p, kind) ==
    /\ row[p] # "none"
    /\ kind = "disable" => p \notin defaults
    /\ \/ /\ row[p] = (IF kind = "enable" THEN "enabled" ELSE "off")
          /\ Begin([Idle EXCEPT !.pc = "list"])
          /\ registry' = Cleared
       \/ /\ ~(row[p] = "enabled" /\ kind = "enable")
          /\ Begin([Idle EXCEPT !.pc = "toggle", !.kind = kind, !.plugin = p])
          /\ UNCHANGED registry

StoreToggle(r) ==
    /\ At(r, "toggle")
    /\ row' = [row EXCEPT ![request[r].plugin] =
                  IF request[r].kind = "enable" THEN "enabled" ELSE "off"]
    /\ registry' = Cleared
    /\ Goto(r, "list")
    /\ UNCHANGED <<settings, defaults, executor, fork, Counts, History>>

-----------------------------------------------------------------------------
(* The policy: syncExecutorPolicy, and the edits of the founder             *)

\* isPluginToolEnabled, and the required fields.
Allowed(t, s) ==
    /\ s.policy[t] = "on" \/ (s.policy[t] = "unset" /\ t \in OnByDefault)
    /\ t \in NeedsFields => t \in s.fields

ReadPolicy(r) ==
    /\ At(r, "settings")
    /\ request' = [request EXCEPT ![r].pc = "apply", ![r].seen = [NoSettings EXCEPT
                                                    !.policy = settings.policy]]
    /\ UNCHANGED <<Database, defaults, registry, executor, fork, booted, Counts, History>>

\* The fields are read and what is not allowed of the tools that are there is
\* disabled.  The policy was read before: it may be an old one.
Apply(r) ==
    /\ At(r, "apply")
    /\ LET s == [request[r].seen EXCEPT !.fields = settings.fields] IN
       /\ executor' = [executor EXCEPT
              !.disabled = {t \in executor.tools : ~Allowed(t, s)}]
       /\ why' = (why \ {"stale", "failed"}) \cup IF s # settings THEN {"stale"} ELSE {}
    /\ End(r)
    /\ UNCHANGED <<Database, defaults, registry, fork, Counts, wish>>

\* A server whose start-up cannot read the policy does not start: left out.
SyncFails(r) ==
    /\ booted /\ Fault
    /\ At(r, "settings") \/ At(r, "apply")
    /\ End(r)
    /\ why' = why \cup {"failed"}
    /\ UNCHANGED <<Database, defaults, registry, executor, fork, requests, wish>>

EditKinds == {"on", "off", "fill", "empty"}
OfFields(kind) == kind \in {"fill", "empty"}

\* POST /tools/:name/enable and disable, PATCH .../custom-fields: the tool has
\* to be there, and to have its fields if it is to be enabled.
Edit(t, kind) ==
    /\ t \in executor.tools
    /\ kind = "on" /\ t \in NeedsFields => t \in settings.fields
    /\ OfFields(kind) => t \in NeedsFields
    /\ Begin([Idle EXCEPT !.pc = "edit", !.kind = kind, !.plugin = t])
    /\ UNCHANGED registry

\* The setting is one row for all tools, read ...
ReadEdited(r) ==
    /\ At(r, "edit")
    /\ request' = [request EXCEPT ![r].pc = "write",
          ![r].seen = IF OfFields(request[r].kind)
                      THEN [NoSettings EXCEPT !.fields = settings.fields]
                      ELSE [NoSettings EXCEPT !.policy = settings.policy]]
    /\ UNCHANGED <<Database, defaults, registry, executor, fork, booted, Counts, History>>

Edited(t, kind, s) ==
    CASE kind = "on"    -> [s EXCEPT !.policy[t] = "on"]
      [] kind = "off"   -> [s EXCEPT !.policy[t] = "off"]
      [] kind = "fill"  -> [s EXCEPT !.fields = @ \cup {t}]
      [] kind = "empty" -> [s EXCEPT !.fields = @ \ {t}]

\* Wished for is a change of this tool alone.
Wished(t, kind) ==
    CASE kind \in {"on", "off"} -> [wish EXCEPT !.policy[t] = kind]
      [] kind = "fill"          -> [wish EXCEPT !.fields = @ \cup {t}]
      [] kind = "empty"         -> [wish EXCEPT !.fields = @ \ {t}]

\* ... and written back, over what another edit has written meanwhile.
WriteEdited(r) ==
    /\ At(r, "write")
    /\ LET q == request[r] new == Edited(q.plugin, q.kind, q.seen) IN
       IF OfFields(q.kind)
       THEN /\ settings' = [settings EXCEPT !.fields = new.fields]
            /\ why' = why \cup IF q.seen.fields # settings.fields THEN {"lost"} ELSE {}
       ELSE /\ settings' = [settings EXCEPT !.policy = new.policy]
            /\ why' = why \cup IF q.seen.policy # settings.policy THEN {"lost"} ELSE {}
    /\ wish' = Wished(request[r].plugin, request[r].kind)
    /\ request' = [request EXCEPT ![r] = [Idle EXCEPT !.pc = "settings"]]
    /\ UNCHANGED <<row, defaults, registry, executor, fork, booted, Counts>>

\* A read or write of a row fails: the founder gets an error, nothing changed.
RequestFails(r) ==
    /\ Fault
    /\ request[r].pc \in {"toggle", "edit", "write"}
    /\ End(r)
    /\ UNCHANGED <<Database, defaults, registry, executor, fork, requests, History>>

-----------------------------------------------------------------------------
\* A task run works on a copy of the executor as it is when the run begins.
Fork ==
    /\ fork' = executor
    /\ UNCHANGED <<Database, defaults, registry, executor, request, booted, Counts, History>>

Step(r) ==
    \/ Scan(r) \/ StoreFound(r) \/ StoreToggle(r) \/ List(r) \/ Register(r)
    \/ ReadEdited(r) \/ WriteEdited(r) \/ ReadPolicy(r) \/ Apply(r)

Next ==
    \/ Discover
    \/ \E p \in Plugins : \/ \E kind \in {"enable", "disable"} : Toggle(p, kind)
                         \/ \E kind \in EditKinds : Edit(p, kind)
    \/ \E r \in Requests :
          Step(r) \/ ScanFails(r) \/ ListFails(r) \/ SyncFails(r) \/ RequestFails(r)
    \/ Fork

Spec == Init /\ [][Next]_vars

-----------------------------------------------------------------------------
(* Properties                                                               *)

States == {"none", "off", "enabled"}
Settings == [policy : [Plugins -> {"unset", "on", "off"}], fields : SUBSET NeedsFields]
Executors == [tools : SUBSET Plugins, disabled : SUBSET Plugins]
Quiet == \A r \in Requests : At(r, "idle")

\* What every variable holds; a plugin the registry knows has a row, and a
\* request names a plugin exactly while it is at it.
TypeOK ==
    /\ row \in [Plugins -> States] /\ settings \in Settings /\ wish \in Settings
    /\ defaults \subseteq Default
    /\ registry \in [Plugins -> States]
    /\ \A p \in Plugins : row[p] = "none" => registry[p] = "none"
    /\ executor \in Executors /\ fork \in Executors
    /\ \A r \in Requests :
          /\ request[r].seen \in Settings
          /\ (request[r].plugin # Nobody) = (request[r].pc \in {"toggle", "found", "edit", "write"})
          /\ request[r].todo # {} => request[r].pc \in {"scan", "found", "import"}
    /\ booted \in BOOLEAN
    /\ requests \in 0..MaxRequests /\ faults \in 0..MaxFaults
    /\ why \subseteq {"broken", "overlap", "stale", "failed", "lost"}

\* execute() and the check in the tool itself.
Callable(x, t) == t \in x.tools \ x.disabled /\ registry[t] = "enabled"

\* At no moment of any two refreshes a tool of a plugin that is not enabled can
\* be called, in chat or in a task run that began before its plugin was disabled
\* (the check of the tool in the registry, cleared before it is filled).
DisabledIsRefused ==
    \A t \in Plugins : Callable(executor, t) \/ Callable(fork, t) => row[t] = "enabled"

\* When all requests are done no tool the founder has disabled, or whose
\* required field is missing, can be called in chat; but for two edits of the
\* one settings row at once, and a policy read before a change and applied
\* after it, or not at all.
PolicyHolds ==
    Quiet => \A t \in Plugins :
        Callable(executor, t) => Allowed(t, wish) \/ why \cap {"stale", "failed", "lost"} # {}

\* When all requests are done every tool that the founder has enabled, of an
\* enabled plugin, can be called, however refreshes overlapped: the one that
\* finishes last does not take away what another has registered.
EnabledWorks ==
    Quiet => \A t \in Plugins :
        row[t] = "enabled" /\ Allowed(t, wish) =>
            Callable(executor, t) \/ why \cap {"broken", "stale", "failed", "lost"} # {}

\* When all requests are done the executor lists tools of enabled plugins only
\* (and of default ones, whose row could not be set), unless a refresh began
\* while another one was importing what had been enabled before: that one
\* registers tools of a plugin disabled since, which no call reaches but every
\* prompt names.
ListedIsEnabled ==
    Quiet => \A t \in executor.tools :
        row[t] = "enabled" \/ t \in defaults \/ why \cap {"overlap", "broken"} # {}

\* When all requests are done the tools are what the founder asked for: the
\* three above, and the rows of what the registry knows.
ToolsSound == TypeOK /\ PolicyHolds /\ EnabledWorks /\ ListedIsEnabled
=============================================================================
