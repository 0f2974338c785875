------------------------- MODULE PluginToolsProofs --------------------------
(***************************************************************************)
(* Proofs about plugins and their tools, for any plugins, requests and     *)
(* bounds.                                                                 *)
(*                                                                         *)
(* The properties speak of moments at which no request is at work, and so  *)
(* are not inductive.  Between such moments a mismatch of the database and *)
(* the memory is allowed while a request is on its way that will repair    *)
(* it: one that will list the rows (Listing), one that is importing the    *)
(* tool in question, or one that will apply the policy (Applying).  The    *)
(* invariant says of each mismatch which of these accounts for it, or      *)
(* which of the recorded reasons.                                          *)
(***************************************************************************)
EXTENDS PluginTools, TLAPS

(* The inductive invariant *)

ListingPcs == {"scan", "found", "list"}
ApplyingPcs == {"import", "settings", "apply"}
ToolPcs == {"toggle", "edit", "write"}
Pcs == {"idle"} \cup ListingPcs \cup ApplyingPcs \cup ToolPcs
Kinds == {"none", "enable", "disable"} \cup EditKinds

RequestRecord ==
    [pc : Pcs, kind : Kinds, plugin : Plugins \cup {Nobody},
     todo : SUBSET Plugins, seen : Settings]

\* A request at an edit names a tool and what is edited, the fields only of a
\* tool that has some.
RequestsTyped ==
    /\ request \in [Requests -> RequestRecord]
    /\ \A r \in Requests :
          /\ At(r, "toggle") => request[r].kind \in {"enable", "disable"}
          /\ request[r].pc \in {"edit", "write"} =>
                /\ request[r].kind \in EditKinds
                /\ OfFields(request[r].kind) => request[r].plugin \in NeedsFields

\* The registry is behind the rows only in what has been enabled since.
RegistryFollows == \A t \in Plugins : registry[t] = "enabled" => row[t] = "enabled"

Listing == \E r \in Requests : request[r].pc \in ListingPcs
Applying == \E r \in Requests : request[r].pc \in ApplyingPcs
Importing(t) == \E r \in Requests : At(r, "import") /\ t \in request[r].todo

Held(reasons) == why \cap reasons # {}

\* The settings are what the founder was told, but for a lost update.
WishIsStored == "lost" \notin why => settings = wish

\* The disabled names are those the settings do not allow.
PolicyApplied ==
    Applying \/ Held({"stale", "failed"}) \/
        \A t \in Plugins :
            /\ t \in executor.tools \ executor.disabled => Allowed(t, settings)
            /\ t \in executor.disabled => ~Allowed(t, settings)

\* An enabled plugin is in the registry, its tool in the executor or coming.
EnabledListed ==
    Listing \/ Held({"broken"}) \/
        \A t \in Plugins : row[t] = "enabled" =>
            registry[t] = "enabled" /\ (t \in executor.tools \/ Importing(t))

\* No tool of another plugin is there or coming.
OnlyEnabledListed ==
    Listing \/ Held({"overlap", "broken"}) \/
        \A t \in Plugins : t \in executor.tools \/ Importing(t) =>
            row[t] = "enabled" \/ t \in defaults

IInv ==
    /\ TypeOK
    /\ RequestsTyped
    /\ RegistryFollows
    /\ WishIsStored
    /\ PolicyApplied
    /\ EnabledListed
    /\ OnlyEnabledListed

-----------------------------------------------------------------------------
(* One request moves at a time                                              *)

Moved(r, q) == request' = [request EXCEPT ![r] = q]

\* What a move changes: the record of the request that moves.
LEMMA OneMoves ==
    ASSUME request \in [Requests -> RequestRecord], NEW r \in Requests,
           NEW q \in RequestRecord, Moved(r, q)
    PROVE  /\ request' \in [Requests -> RequestRecord]
           /\ request'[r] = q
           /\ \A x \in Requests \ {r} : request'[x] = request[x]
BY DEF Moved

LEMMA NoSettingsTyped == NoSettings \in Settings
BY DEF NoSettings, Settings

LEMMA IdleTyped ==
    /\ Idle \in RequestRecord
    /\ Idle.pc = "idle" /\ Idle.kind = "none" /\ Idle.plugin = Nobody
    /\ Idle.todo = {} /\ Idle.seen \in Settings
BY NoSettingsTyped DEF Idle, RequestRecord, Pcs, Kinds

\* A request that begins takes a free place.
LEMMA Begun ==
    ASSUME RequestsTyped, NEW q \in RequestRecord, Begin(q)
    PROVE  \E r \in Requests : At(r, "idle") /\ Moved(r, q)
<1> DEFINE r == CHOOSE r \in Requests : At(r, "idle")
<1>1. r \in Requests /\ At(r, "idle")
    BY DEF Begin
<1>2. request' = [request EXCEPT ![r] = q]
    BY DEF Begin
<1> HIDE DEF r
<1> QED
    BY <1>1, <1>2 DEF Moved

\* The next record of a scan, in one piece.
Scanned(r, p) ==
    [request[r] EXCEPT !.pc = IF request[r].todo \ {p} = {} THEN "list" ELSE "scan",
                       !.plugin = Nobody, !.todo = request[r].todo \ {p}]

LEMMA ScanMoves ==
    ASSUME RequestsTyped, NEW r \in Requests, NEW p \in Plugins, ScanNext(r, p)
    PROVE  /\ Moved(r, Scanned(r, p))
           /\ Scanned(r, p) \in RequestRecord
           /\ Scanned(r, p).pc \in {"list", "scan"}
           /\ Scanned(r, p).todo # {} => Scanned(r, p).pc = "scan"
           /\ Scanned(r, p).plugin = Nobody
           /\ Scanned(r, p).seen = request[r].seen
BY DEF ScanNext, Moved, Scanned, RequestsTyped, RequestRecord, Pcs, ListingPcs

\* Who moves, and to which record, in the other steps of a request.
LEMMA StepMoves ==
    ASSUME IInv, NEW r \in Requests
    PROVE  /\ Scan(r) => \E p \in request[r].todo :
                 \/ /\ Moved(r, [request[r] EXCEPT !.pc = "found", !.plugin = p])
                    /\ UNCHANGED registry
                 \/ ScanNext(r, p)
           /\ StoreToggle(r) => Moved(r, [Idle EXCEPT !.pc = "list"])
           /\ List(r) => Moved(r, [request[r] EXCEPT !.pc = "import", !.todo = Active])
           /\ Register(r) => Moved(r, [request[r] EXCEPT !.pc = "settings", !.todo = {}])
           /\ ReadEdited(r) => \E s \in Settings :
                  Moved(r, [request[r] EXCEPT !.pc = "write", !.seen = s])
           /\ WriteEdited(r) => Moved(r, [Idle EXCEPT !.pc = "settings"])
           /\ ReadPolicy(r) =>
                  Moved(r, [request[r] EXCEPT !.pc = "apply",
                               !.seen = [NoSettings EXCEPT !.policy = settings.policy]])
           /\ Apply(r) => Moved(r, Idle)
           /\ ListFails(r) => Moved(r, Idle) \/ Moved(r, [Idle EXCEPT !.pc = "settings"])
           /\ SyncFails(r) => Moved(r, Idle)
           /\ RequestFails(r) => Moved(r, Idle)
<1> USE DEF Moved
<1>0. request \in [Requests -> RequestRecord] /\ settings \in Settings
    BY DEF IInv, RequestsTyped, TypeOK
<1>1. Scan(r) => \E p \in request[r].todo :
          \/ /\ Moved(r, [request[r] EXCEPT !.pc = "found", !.plugin = p])
             /\ UNCHANGED registry
          \/ ScanNext(r, p)
    BY <1>0 DEF Scan, RequestRecord
<1>2. List(r) => Moved(r, [request[r] EXCEPT !.pc = "import", !.todo = Active])
    BY <1>0 DEF List, RequestRecord
<1>3. Register(r) => Moved(r, [request[r] EXCEPT !.pc = "settings", !.todo = {}])
    BY <1>0 DEF Register, RequestRecord
<1>4. ReadPolicy(r) =>
          Moved(r, [request[r] EXCEPT !.pc = "apply",
                       !.seen = [NoSettings EXCEPT !.policy = settings.policy]])
    BY <1>0 DEF ReadPolicy, RequestRecord
<1>5. ReadEdited(r) => \E s \in Settings :
          Moved(r, [request[r] EXCEPT !.pc = "write", !.seen = s])
    <2> SUFFICES ASSUME ReadEdited(r)
                 PROVE  \E s \in Settings :
                            Moved(r, [request[r] EXCEPT !.pc = "write", !.seen = s])
        OBVIOUS
    <2> DEFINE s == IF OfFields(request[r].kind)
                    THEN [NoSettings EXCEPT !.fields = settings.fields]
                    ELSE [NoSettings EXCEPT !.policy = settings.policy]
    <2>1. s \in Settings
        BY <1>0, NoSettingsTyped DEF Settings
    <2>2. request' = [request EXCEPT ![r].pc = "write", ![r].seen = s]
        BY DEF ReadEdited
    <2> HIDE DEF s
    <2> QED
        BY <1>0, <2>1, <2>2 DEF RequestRecord
<1> QED
    BY <1>1, <1>2, <1>3, <1>4, <1>5
       DEF StoreToggle, Goto, WriteEdited, Apply, End, ListFails, SyncFails, RequestFails

-----------------------------------------------------------------------------
(* Types *)

\* What IInv says of one request's record.
SoundRequest(q) ==
    /\ q \in RequestRecord
    /\ q.pc = "toggle" => q.kind \in {"enable", "disable"}
    /\ q.pc \in {"edit", "write"} =>
          q.kind \in EditKinds /\ (OfFields(q.kind) => q.plugin \in NeedsFields)
    /\ (q.plugin # Nobody) <=> (q.pc \in {"toggle", "found", "edit", "write"})
    /\ q.todo # {} => q.pc \in {"scan", "found", "import"}

LEMMA IdleSound ==
    /\ SoundRequest(Idle)
    /\ \A pc \in {"list", "settings"} : SoundRequest([Idle EXCEPT !.pc = pc])
    /\ SoundRequest([Idle EXCEPT !.pc = "scan", !.todo = Plugins])
BY IdleTyped DEF SoundRequest, RequestRecord, Pcs, ListingPcs, ApplyingPcs

LEMMA RequestsSound ==
    ASSUME IInv
    PROVE  \A r \in Requests : SoundRequest(request[r])
BY DEF IInv, RequestsTyped, TypeOK, SoundRequest, At

LEMMA RequestsSoundKept ==
    ASSUME IInv, Next
    PROVE  /\ request' \in [Requests -> RequestRecord]
           /\ \A r \in Requests : SoundRequest(request'[r])
<1>0. /\ RequestsTyped /\ request \in [Requests -> RequestRecord]
      /\ \A r \in Requests : SoundRequest(request[r])
    BY RequestsSound DEF IInv, RequestsTyped
<1> DEFINE Goal == /\ request' \in [Requests -> RequestRecord]
                   /\ \A r \in Requests : SoundRequest(request'[r])
<1>1. ASSUME NEW r \in Requests, NEW q, SoundRequest(q), Moved(r, q) PROVE Goal
    <2>1. q \in RequestRecord
        BY <1>1 DEF SoundRequest
    <2> QED
        BY <1>0, <1>1, <2>1, OneMoves
<1>2. ASSUME NEW q, SoundRequest(q), Begin(q) PROVE Goal
    <2>1. q \in RequestRecord
        BY <1>2 DEF SoundRequest
    <2> QED
        BY <1>0, <1>1, <1>2, <2>1, Begun
<1>3. ASSUME NEW r \in Requests, NEW p \in Plugins, ScanNext(r, p) PROVE Goal
    <2>1. SoundRequest(Scanned(r, p))
        BY <1>0, <1>3, ScanMoves DEF SoundRequest
    <2> QED
        BY <1>0, <1>1, <1>3, <2>1, ScanMoves
<1> HIDE DEF Goal
<1>4. CASE Discover
    BY <1>2, <1>4, IdleSound DEF Discover, Goal
<1>5. ASSUME NEW p \in Plugins, NEW kind \in {"enable", "disable"}, Toggle(p, kind)
      PROVE  Goal
    <2>1. SoundRequest([Idle EXCEPT !.pc = "toggle", !.kind = kind, !.plugin = p])
        BY IdleTyped, PluginAssumption
           DEF SoundRequest, RequestRecord, Pcs, ToolPcs, Kinds
    <2> QED
        BY <1>2, <1>5, <2>1, IdleSound DEF Toggle
<1>6. ASSUME NEW p \in Plugins, NEW kind \in EditKinds, Edit(p, kind) PROVE Goal
    <2>1. SoundRequest([Idle EXCEPT !.pc = "edit", !.kind = kind, !.plugin = p])
        BY <1>6, IdleTyped, PluginAssumption
           DEF SoundRequest, RequestRecord, Pcs, ToolPcs, Kinds, Edit
    <2> QED
        BY <1>2, <1>6, <2>1 DEF Edit
<1>7. ASSUME NEW r \in Requests, Step(r) \/ ScanFails(r) PROVE Goal
    <2>0. SoundRequest(request[r]) /\ request[r].todo \subseteq Plugins
        BY <1>0 DEF RequestRecord
    <2>1. CASE Scan(r)
        <3>1. PICK p \in request[r].todo :
                  \/ Moved(r, [request[r] EXCEPT !.pc = "found", !.plugin = p])
                  \/ ScanNext(r, p)
            BY <2>1, StepMoves
        <3>2. SoundRequest([request[r] EXCEPT !.pc = "found", !.plugin = p])
            BY <2>0, PluginAssumption DEF SoundRequest, RequestRecord, Pcs, ListingPcs
        <3> QED
            BY <1>1, <1>3, <2>0, <3>1, <3>2
    <2>2. CASE StoreFound(r) \/ ScanFails(r)
        <3>1. \E p \in Plugins : ScanNext(r, p)
            BY <2>0, <2>2
               DEF StoreFound, ScanFails, At, SoundRequest, RequestRecord
        <3> QED
            BY <1>3, <3>1
    <2>3. CASE List(r)
        <3>1. SoundRequest([request[r] EXCEPT !.pc = "import", !.todo = Active])
            BY <2>0, <2>3
               DEF SoundRequest, RequestRecord, Pcs, ApplyingPcs, Active, List, At
        <3> QED
            BY <1>1, <2>3, <3>1, StepMoves
    <2>4. CASE Register(r)
        <3>1. SoundRequest([request[r] EXCEPT !.pc = "settings", !.todo = {}])
            BY <2>0, <2>4
               DEF SoundRequest, RequestRecord, Pcs, ApplyingPcs, Register, At
        <3> QED
            BY <1>1, <2>4, <3>1, StepMoves
    <2>5. CASE ReadEdited(r)
        <3>1. PICK s \in Settings : Moved(r, [request[r] EXCEPT !.pc = "write", !.seen = s])
            BY <2>5, StepMoves
        <3>2. SoundRequest([request[r] EXCEPT !.pc = "write", !.seen = s])
            BY <2>0, <2>5
               DEF SoundRequest, RequestRecord, Pcs, ToolPcs, ReadEdited, At
        <3> QED
            BY <1>1, <3>1, <3>2
    <2>6. CASE ReadPolicy(r)
        <3> DEFINE s == [NoSettings EXCEPT !.policy = settings.policy]
        <3>1. s \in Settings
            BY NoSettingsTyped DEF Settings, IInv, TypeOK
        <3>2. Moved(r, [request[r] EXCEPT !.pc = "apply", !.seen = s])
            BY <2>6, StepMoves
        <3> HIDE DEF s
        <3>3. SoundRequest([request[r] EXCEPT !.pc = "apply", !.seen = s])
            BY <2>0, <2>6, <3>1
               DEF SoundRequest, RequestRecord, Pcs, ApplyingPcs, ReadPolicy, At
        <3> QED
            BY <1>1, <3>2, <3>3
    <2> QED
        BY <1>1, <1>7, <2>1, <2>2, <2>3, <2>4, <2>5, <2>6, IdleSound, StepMoves DEF Step
<1>8. ASSUME NEW r \in Requests, ListFails(r) \/ SyncFails(r) \/ RequestFails(r) PROVE Goal
    BY <1>1, <1>8, IdleSound, StepMoves
<1>9. CASE Fork
    BY <1>0, <1>9 DEF Fork, Goal
<1> QED
    BY <1>4, <1>5, <1>6, <1>7, <1>8, <1>9 DEF Next, Goal

\* The rows and the registry: a row never disappears, and one that goes off
\* goes off with the registry cleared.
LEMMA RowsKept ==
    ASSUME IInv, Next
    PROVE  /\ row' \in [Plugins -> States] /\ registry' \in [Plugins -> States]
           /\ \A p \in Plugins : row'[p] = "none" => registry'[p] = "none"
           /\ RegistryFollows'
<1>0. /\ row \in [Plugins -> States] /\ registry \in [Plugins -> States]
      /\ \A p \in Plugins : row[p] = "none" => registry[p] = "none"
      /\ RegistryFollows
      /\ \A r \in Requests : SoundRequest(request[r])
    BY RequestsSound DEF IInv, TypeOK
<1> DEFINE Goal == /\ row' \in [Plugins -> States] /\ registry' \in [Plugins -> States]
                   /\ \A p \in Plugins : row'[p] = "none" => registry'[p] = "none"
                   /\ RegistryFollows'
<1>1. ASSUME UNCHANGED row, registry' \in {registry, Cleared} PROVE Goal
    BY <1>0, <1>1 DEF Cleared, RegistryFollows, States
<1>2. ASSUME NEW r \in Requests, StoreFound(r) PROVE Goal
    <2> DEFINE p == request[r].plugin
    <2>1. /\ row' = [row EXCEPT ![p] = IF p \in Default THEN "enabled"
                                       ELSE IF @ = "none" THEN "off" ELSE @]
          /\ registry' \in {registry, Cleared}
        BY <1>2 DEF StoreFound, ScanNext
    <2> HIDE DEF p
    <2> QED
        BY <1>0, <2>1 DEF Cleared, RegistryFollows, States
<1>3. ASSUME NEW r \in Requests, StoreToggle(r) PROVE Goal
    BY <1>0, <1>3 DEF StoreToggle, Cleared, RegistryFollows, States
<1>4. ASSUME NEW r \in Requests, List(r) PROVE Goal
    BY <1>0, <1>4 DEF List, RegistryFollows, Database
<1> QED
    BY <1>1, <1>2, <1>3, <1>4, ZenonT(60)
       DEF Next, Step, Discover, Toggle, Edit, Begin, Fork, Scan, Register, ReadEdited,
           WriteEdited, ReadPolicy, Apply, ScanFails, ScanNext, ListFails, SyncFails,
           RequestFails, Database, Goal

\* Settings as they are written, and as they are wished for.
LEMMA EditedTyped ==
    ASSUME NEW s \in Settings, NEW t \in Plugins, NEW kind \in EditKinds,
           OfFields(kind) => t \in NeedsFields
    PROVE  Edited(t, kind, s) \in Settings
BY DEF Edited, Settings, EditKinds, OfFields

LEMMA WishedIsEdited == ASSUME NEW t, NEW kind \in EditKinds
                        PROVE  Wished(t, kind) = Edited(t, kind, wish)
BY DEF Wished, Edited, EditKinds

LEMMA SettingsKept ==
    ASSUME IInv, Next
    PROVE  settings' \in Settings /\ wish' \in Settings
<1>0. settings \in Settings /\ wish \in Settings
    BY DEF IInv, TypeOK
<1>1. ASSUME NEW r \in Requests, WriteEdited(r) PROVE settings' \in Settings /\ wish' \in Settings
    <2> DEFINE q == request[r]
               new == Edited(q.plugin, q.kind, q.seen)
    <2>1. /\ q.seen \in Settings /\ q.plugin \in Plugins /\ q.kind \in EditKinds
          /\ OfFields(q.kind) => q.plugin \in NeedsFields
        BY <1>1, RequestsSound DEF SoundRequest, RequestRecord, WriteEdited, At
    <2>2. /\ settings' \in {[settings EXCEPT !.fields = new.fields],
                            [settings EXCEPT !.policy = new.policy]}
          /\ wish' = Wished(q.plugin, q.kind)
        BY <1>1 DEF WriteEdited
    <2> HIDE DEF q
    <2>3. new \in Settings
        BY <2>1, EditedTyped
    <2>4. wish' \in Settings
        BY <1>0, <2>1, <2>2, EditedTyped, WishedIsEdited
    <2> HIDE DEF new
    <2> QED
        BY <1>0, <2>2, <2>3, <2>4 DEF Settings
<1> QED
    BY <1>0, <1>1
       DEF Next, Step, Discover, Toggle, Edit, Begin, Fork, Scan, StoreFound, StoreToggle,
           List, Register, ReadEdited, ReadPolicy, Apply, ScanFails, ListFails, SyncFails,
           RequestFails, Database, History

LEMMA MemoryKept ==
    ASSUME IInv, Next
    PROVE  /\ defaults' \subseteq Default
           /\ executor' \in Executors /\ fork' \in Executors
           /\ booted' \in BOOLEAN
           /\ requests' \in 0 .. MaxRequests /\ faults' \in 0 .. MaxFaults
           /\ why' \subseteq {"broken", "overlap", "stale", "failed", "lost"}
<1>0. /\ defaults \subseteq Default
      /\ executor \in Executors /\ fork \in Executors
      /\ booted \in BOOLEAN
      /\ requests \in 0 .. MaxRequests /\ faults \in 0 .. MaxFaults
      /\ why \subseteq {"broken", "overlap", "stale", "failed", "lost"}
      /\ \A r \in Requests : request[r].todo \subseteq Plugins
      /\ MaxRequests \in Nat /\ MaxFaults \in Nat
    BY RequestsSound, PluginAssumption DEF IInv, TypeOK, SoundRequest, RequestRecord
<1>1. defaults' \subseteq Default
    BY <1>0
       DEF Next, Step, Discover, Toggle, Edit, Begin, Fork, Scan, Marked, StoreFound,
           StoreToggle, List, Register, ReadEdited, WriteEdited, ReadPolicy, Apply,
           ScanFails, ListFails, SyncFails, RequestFails
<1>2. executor' \in Executors
    <2>1. ASSUME NEW r \in Requests, List(r) PROVE executor' \in Executors
        BY <1>0, <2>1 DEF List, Emptied, Executors
    <2>2. ASSUME NEW r \in Requests, Register(r) PROVE executor' \in Executors
        BY <1>0, <2>2 DEF Register, Executors
    <2>3. ASSUME NEW r \in Requests, Apply(r) PROVE executor' \in Executors
        BY <1>0, <2>3 DEF Apply, Executors
    <2> QED
        BY <1>0, <2>1, <2>2, <2>3
           DEF Next, Step, Discover, Toggle, Edit, Begin, Fork, Scan, StoreFound,
               StoreToggle, ReadEdited, WriteEdited, ReadPolicy, ScanFails, ListFails,
               SyncFails, RequestFails
<1>3. fork' \in Executors
    BY <1>0
       DEF Next, Step, Discover, Toggle, Edit, Begin, Fork, Scan, StoreFound,
           StoreToggle, List, Register, ReadEdited, WriteEdited, ReadPolicy, Apply,
           ScanFails, ListFails, SyncFails, RequestFails
<1>4. booted' \in BOOLEAN
    BY <1>0, ZenonT(60)
       DEF Next, Step, Discover, Toggle, Edit, Begin, Fork, Scan, StoreFound,
           StoreToggle, Goto, End, List, Register, ReadEdited, WriteEdited, ReadPolicy,
           Apply, ScanFails, ListFails, SyncFails, RequestFails
<1>5. requests' \in 0 .. MaxRequests /\ faults' \in 0 .. MaxFaults
    <2>1. /\ requests' = requests \/ (requests < MaxRequests /\ requests' = requests + 1)
          /\ faults' = faults \/ (faults < MaxFaults /\ faults' = faults + 1)
        BY DEF Next, Step, Discover, Toggle, Edit, Begin, Fork, Scan, StoreFound,
               StoreToggle, List, Register, ReadEdited, WriteEdited, ReadPolicy, Apply,
               ScanFails, ListFails, SyncFails, RequestFails, Fault, Counts
    <2> QED
        BY <1>0, <2>1
<1>6. why' \subseteq {"broken", "overlap", "stale", "failed", "lost"}
    BY <1>0
       DEF Next, Step, Discover, Toggle, Edit, Begin, Fork, Scan, StoreFound,
           StoreToggle, List, Register, ReadEdited, WriteEdited, ReadPolicy, Apply,
           ScanFails, ListFails, SyncFails, RequestFails, History
<1> QED
    BY <1>1, <1>2, <1>3, <1>4, <1>5, <1>6

-----------------------------------------------------------------------------
(* The policy                                                               *)

\* What a move leaves of the requests on their way.
LEMMA OnTheirWay ==
    ASSUME request \in [Requests -> RequestRecord], NEW r \in Requests,
           NEW q \in RequestRecord, Moved(r, q)
    PROVE  /\ q.pc \in ListingPcs => Listing'
           /\ request[r].pc \notin ListingPcs /\ Listing => Listing'
           /\ q.pc \in ApplyingPcs => Applying'
           /\ request[r].pc \notin ApplyingPcs /\ Applying => Applying'
           /\ \A t : request[r].pc # "import" /\ Importing(t) => Importing(t)'
           /\ \A t : q.pc # "import" /\ Importing(t)' => Importing(t)
BY OneMoves DEF Listing, Applying, Importing, At

\* What begins was not on its way before.
LEMMA BegunOnTheirWay ==
    ASSUME RequestsTyped, NEW q \in RequestRecord, Begin(q)
    PROVE  /\ q.pc \in ListingPcs => Listing'
           /\ Listing => Listing'
           /\ Applying => Applying'
           /\ \A t : Importing(t) => Importing(t)'
           /\ \A t : q.pc # "import" /\ Importing(t)' => Importing(t)
<1>1. PICK r \in Requests : At(r, "idle") /\ Moved(r, q)
    BY Begun
<1>2. request[r].pc \notin ListingPcs \cup ApplyingPcs \cup {"import"}
    BY <1>1 DEF At, ListingPcs, ApplyingPcs
<1> QED
    BY <1>1, <1>2, OnTheirWay DEF RequestsTyped

\* A request comes in.
Arrive ==
    \/ Discover
    \/ \E p \in Plugins : \/ \E kind \in {"enable", "disable"} : Toggle(p, kind)
                         \/ \E kind \in EditKinds : Edit(p, kind)

LEMMA Arrivals ==
    ASSUME IInv, Arrive
    PROVE  /\ UNCHANGED <<row, settings, defaults, executor, wish, why>>
           /\ registry' = registry \/ Listing'
           /\ Listing => Listing'
           /\ Applying => Applying'
           /\ \A t : Importing(t)' <=> Importing(t)
<1>1. \E q \in RequestRecord :
          /\ Begin(q) /\ q.pc # "import"
          /\ registry' = registry \/ q.pc \in ListingPcs
    <2>1. /\ [Idle EXCEPT !.pc = "scan", !.todo = Plugins] \in RequestRecord
          /\ [Idle EXCEPT !.pc = "list"] \in RequestRecord
          /\ [Idle EXCEPT !.pc = "list"].pc \in ListingPcs
        BY IdleTyped DEF RequestRecord, Pcs, ListingPcs
    <2>2. \A p \in Plugins, kind \in Kinds :
              /\ [Idle EXCEPT !.pc = "toggle", !.kind = kind, !.plugin = p]
                     \in RequestRecord
              /\ [Idle EXCEPT !.pc = "edit", !.kind = kind, !.plugin = p]
                     \in RequestRecord
        BY IdleTyped DEF RequestRecord, Pcs, ToolPcs
    <2>3. CASE Discover
        BY <2>1, <2>3, IdleTyped DEF Discover, RequestRecord
    <2>4. ASSUME NEW p \in Plugins, NEW kind \in {"enable", "disable"}, Toggle(p, kind)
          PROVE  \E q \in RequestRecord :
                     /\ Begin(q) /\ q.pc # "import"
                     /\ registry' = registry \/ q.pc \in ListingPcs
        BY <2>1, <2>2, <2>4, IdleTyped DEF Toggle, Kinds, RequestRecord
    <2>5. ASSUME NEW p \in Plugins, NEW kind \in EditKinds, Edit(p, kind)
          PROVE  \E q \in RequestRecord :
                     /\ Begin(q) /\ q.pc # "import"
                     /\ registry' = registry \/ q.pc \in ListingPcs
        BY <2>2, <2>5, IdleTyped DEF Edit, Kinds, RequestRecord
    <2> QED
        BY <2>3, <2>4, <2>5 DEF Arrive
<1> QED
    BY <1>1, BegunOnTheirWay DEF IInv, Begin, Database, History

\* While a plugin is looked for, found or toggled the rows will be listed.
LEMMA ListingGoesOn ==
    ASSUME IInv, NEW r \in Requests,
           Scan(r) \/ StoreFound(r) \/ StoreToggle(r) \/ ScanFails(r)
    PROVE  Listing' /\ (Applying => Applying')
<1>0. /\ RequestsTyped /\ request \in [Requests -> RequestRecord]
      /\ request[r] \in RequestRecord /\ request[r].todo \subseteq Plugins
      /\ SoundRequest(request[r])
    BY RequestsSound DEF IInv, RequestsTyped, RequestRecord
<1>1. request[r].pc \notin ApplyingPcs
    BY DEF Scan, StoreFound, StoreToggle, ScanFails, At, ApplyingPcs
<1>2. \E q \in RequestRecord : Moved(r, q) /\ q.pc \in ListingPcs
    <2>1. ASSUME NEW p \in Plugins, ScanNext(r, p)
          PROVE  \E q \in RequestRecord : Moved(r, q) /\ q.pc \in ListingPcs
        BY <1>0, <2>1, ScanMoves DEF ListingPcs
    <2>2. CASE Scan(r)
        <3>1. \A p \in Plugins :
                  /\ [request[r] EXCEPT !.pc = "found", !.plugin = p] \in RequestRecord
                  /\ [request[r] EXCEPT !.pc = "found", !.plugin = p].pc \in ListingPcs
            BY <1>0 DEF RequestRecord, Pcs, ListingPcs
        <3> QED
            BY <1>0, <2>1, <2>2, <3>1, StepMoves
    <2>3. CASE StoreFound(r) \/ ScanFails(r)
        <3>1. \E p \in Plugins : ScanNext(r, p)
            BY <1>0, <2>3 DEF StoreFound, ScanFails, At, SoundRequest, RequestRecord
        <3> QED
            BY <2>1, <3>1
    <2>4. CASE StoreToggle(r)
        <3>1. /\ [Idle EXCEPT !.pc = "list"] \in RequestRecord
              /\ [Idle EXCEPT !.pc = "list"].pc \in ListingPcs
            BY IdleTyped DEF RequestRecord, Pcs, ListingPcs
        <3> QED
            BY <2>4, <3>1, StepMoves
    <2> QED
        BY <2>2, <2>3, <2>4
<1> QED
    BY <1>0, <1>1, <1>2, OnTheirWay

\* After an import or an edit the policy will be applied.
LEMMA PolicyWillApply ==
    ASSUME IInv, NEW r \in Requests,
           List(r) \/ Register(r) \/ WriteEdited(r) \/ ReadPolicy(r)
    PROVE  Applying'
<1>0. request \in [Requests -> RequestRecord] /\ settings \in Settings
    BY DEF IInv, RequestsTyped, TypeOK
<1>1. \E q \in RequestRecord : Moved(r, q) /\ q.pc \in ApplyingPcs
    <2>1. /\ [Idle EXCEPT !.pc = "settings"] \in RequestRecord
          /\ [Idle EXCEPT !.pc = "settings"].pc \in ApplyingPcs
        BY IdleTyped DEF RequestRecord, Pcs, ApplyingPcs
    <2>2. \A todo \in SUBSET Plugins, pc \in ApplyingPcs :
              /\ [request[r] EXCEPT !.pc = pc, !.todo = todo] \in RequestRecord
              /\ [request[r] EXCEPT !.pc = pc, !.todo = todo].pc \in ApplyingPcs
        BY <1>0 DEF RequestRecord, Pcs
    <2>3. [NoSettings EXCEPT !.policy = settings.policy] \in Settings
        BY <1>0, NoSettingsTyped DEF Settings
    <2>4. \A s \in Settings :
              /\ [request[r] EXCEPT !.pc = "apply", !.seen = s] \in RequestRecord
              /\ [request[r] EXCEPT !.pc = "apply", !.seen = s].pc \in ApplyingPcs
        BY <1>0 DEF RequestRecord, Pcs, ApplyingPcs
    <2>5. Active \in SUBSET Plugins /\ {} \in SUBSET Plugins
          /\ "import" \in ApplyingPcs /\ "settings" \in ApplyingPcs
        BY DEF Active, ApplyingPcs
    <2> QED
        BY <2>1, <2>2, <2>3, <2>4, <2>5, StepMoves
<1> QED
    BY <1>0, <1>1, OnTheirWay

\* An edit that is read and a request that fails change nothing on its way.
LEMMA EditsAndEnds ==
    ASSUME IInv, NEW r \in Requests, ReadEdited(r) \/ ListFails(r) \/ RequestFails(r)
    PROVE  Applying => Applying'
<1>0. request \in [Requests -> RequestRecord]
    BY DEF IInv, RequestsTyped
<1>1. \E q \in RequestRecord : Moved(r, q)
    <2>1. Idle \in RequestRecord /\ [Idle EXCEPT !.pc = "settings"] \in RequestRecord
        BY IdleTyped DEF RequestRecord, Pcs, ApplyingPcs
    <2>2. \A s \in Settings : [request[r] EXCEPT !.pc = "write", !.seen = s] \in RequestRecord
        BY <1>0 DEF RequestRecord, Pcs, ToolPcs
    <2> QED
        BY <2>1, <2>2, StepMoves
<1>2. request[r].pc \notin ApplyingPcs
    BY DEF ReadEdited, ListFails, RequestFails, At, ApplyingPcs
<1> QED
    BY <1>0, <1>1, <1>2, OnTheirWay

LEMMA WishIsStoredKept == ASSUME IInv, Next PROVE WishIsStored'
<1>0. settings \in Settings /\ wish \in Settings /\ WishIsStored
    BY DEF IInv, TypeOK
<1>1. ASSUME NEW r \in Requests, WriteEdited(r) PROVE WishIsStored'
    <2> DEFINE q == request[r]
               new == Edited(q.plugin, q.kind, q.seen)
               told == Edited(q.plugin, q.kind, wish)
    <2>1. /\ q.seen \in Settings /\ q.plugin \in Plugins /\ q.kind \in EditKinds
          /\ OfFields(q.kind) => q.plugin \in NeedsFields
        BY <1>1, RequestsSound DEF SoundRequest, RequestRecord, WriteEdited, At
    <2>2. \/ /\ OfFields(q.kind) /\ settings' = [settings EXCEPT !.fields = new.fields]
             /\ "lost" \notin why' => "lost" \notin why /\ q.seen.fields = settings.fields
          \/ /\ ~OfFields(q.kind) /\ settings' = [settings EXCEPT !.policy = new.policy]
             /\ "lost" \notin why' => "lost" \notin why /\ q.seen.policy = settings.policy
        BY <1>1 DEF WriteEdited
    <2>3. wish' = told
        BY <1>1, <2>1, WishedIsEdited DEF WriteEdited
    <2> HIDE DEF q
    <2>4. CASE OfFields(q.kind)
        <3>1. /\ q.seen.fields = wish.fields => new.fields = told.fields
              /\ told.policy = wish.policy
            BY <1>0, <2>1, <2>4 DEF Edited, Settings, EditKinds, OfFields
        <3>2. told \in Settings
            BY <1>0, <2>1, EditedTyped
        <3> HIDE DEF new, told
        <3> QED
            BY <1>0, <2>2, <2>3, <2>4, <3>1, <3>2 DEF WishIsStored, Settings
    <2>5. CASE ~OfFields(q.kind)
        <3>1. /\ q.seen.policy = wish.policy => new.policy = told.policy
              /\ told.fields = wish.fields
            BY <1>0, <2>1, <2>5 DEF Edited, Settings, EditKinds, OfFields
        <3>2. told \in Settings
            BY <1>0, <2>1, EditedTyped
        <3> HIDE DEF new, told
        <3> QED
            BY <1>0, <2>2, <2>3, <2>5, <3>1, <3>2 DEF WishIsStored, Settings
    <2> QED
        BY <2>4, <2>5
<1>2. ASSUME UNCHANGED <<settings, wish>>, "lost" \in why => "lost" \in why'
      PROVE  WishIsStored'
    BY <1>0, <1>2 DEF WishIsStored
<1> QED
    BY <1>1, <1>2
       DEF Next, Step, Discover, Toggle, Edit, Begin, Fork, Scan, StoreFound, StoreToggle,
           List, Register, ReadEdited, ReadPolicy, Apply, ScanFails, ListFails, SyncFails,
           RequestFails, Database, History

\* What is disabled when a policy is applied.
LEMMA AppliedIsCurrent ==
    ASSUME IInv, NEW r \in Requests, Apply(r)
    PROVE  PolicyApplied'
<1> DEFINE s == [request[r].seen EXCEPT !.fields = settings.fields]
<1>1. /\ executor \in Executors /\ executor' = [executor EXCEPT
                          !.disabled = {t \in executor.tools : ~Allowed(t, s)}]
      /\ s # settings => "stale" \in why'
      /\ settings' = settings
    BY DEF IInv, TypeOK, Apply, Database
<1> HIDE DEF s
<1>2. CASE s = settings
    <2>1. /\ executor'.tools = executor.tools /\ executor.tools \subseteq Plugins
          /\ executor'.disabled = {t \in executor.tools : ~Allowed(t, settings)}
        BY <1>1, <1>2 DEF Executors
    <2>2. \A t \in Plugins : Allowed(t, settings)' <=> Allowed(t, settings)
        BY <1>1 DEF Allowed
    <2> QED
        BY <2>1, <2>2 DEF PolicyApplied
<1>3. CASE s # settings
    BY <1>1, <1>3 DEF PolicyApplied, Held
<1> QED
    BY <1>2, <1>3

LEMMA PolicyAppliedKept == ASSUME IInv, Next PROVE PolicyApplied'
<1>0. /\ RequestsTyped /\ request \in [Requests -> RequestRecord] /\ PolicyApplied
      /\ settings \in Settings
    BY DEF IInv, RequestsTyped, TypeOK
<1>1. ASSUME UNCHANGED <<settings, executor>>, Applying => Applying',
             Held({"stale", "failed"}) => Held({"stale", "failed"})'
      PROVE  PolicyApplied'
    BY <1>0, <1>1 DEF PolicyApplied, Allowed
<1>2. Applying' => PolicyApplied'
    BY DEF PolicyApplied
<1>3. CASE Arrive
    BY <1>1, <1>3, Arrivals DEF Held
<1>4. ASSUME NEW r \in Requests, Step(r) PROVE PolicyApplied'
    <2>0. /\ RequestsTyped /\ request[r] \in RequestRecord
          /\ request[r].todo \subseteq Plugins
        BY <1>0 DEF RequestRecord
    <2>1. CASE Scan(r) \/ StoreFound(r) \/ StoreToggle(r)
        <3>1. Applying => Applying'
            BY <2>1, ListingGoesOn
        <3> QED
            BY <1>1, <2>1, <3>1
               DEF Scan, StoreFound, StoreToggle, Database, History, Held
    <2>2. CASE List(r) \/ Register(r) \/ WriteEdited(r) \/ ReadPolicy(r)
        BY <1>2, <2>2, PolicyWillApply
    <2>3. CASE ReadEdited(r)
        <3>1. Applying => Applying'
            BY <2>3, EditsAndEnds
        <3> QED
            BY <1>1, <2>3, <3>1 DEF ReadEdited, Database, History, Held
    <2> QED
        BY <1>4, <2>1, <2>2, <2>3, AppliedIsCurrent DEF Step
<1>5. ASSUME NEW r \in Requests, ScanFails(r) \/ ListFails(r) \/ RequestFails(r)
      PROVE  PolicyApplied'
    <2>1. Applying => Applying'
        BY <1>5, ListingGoesOn, EditsAndEnds
    <2> QED
        BY <1>1, <1>5, <2>1
           DEF ScanFails, ListFails, RequestFails, Database, History, Held
<1>6. ASSUME NEW r \in Requests, SyncFails(r) PROVE PolicyApplied'
    BY <1>6 DEF SyncFails, PolicyApplied, Held
<1>7. CASE Fork
    BY <1>1, <1>7 DEF Fork, Database, History, Held, Applying
<1> QED
    BY <1>3, <1>4, <1>5, <1>6, <1>7 DEF Next, Arrive

-----------------------------------------------------------------------------
(* The listing                                                              *)

\* What the other steps of a request leave of the importing ones.
LEMMA ImportsStay ==
    ASSUME IInv, NEW r \in Requests,
           \/ ReadEdited(r) \/ WriteEdited(r) \/ ReadPolicy(r) \/ Apply(r)
           \/ SyncFails(r) \/ RequestFails(r)
    PROVE  /\ Listing => Listing'
           /\ \A t : Importing(t)' <=> Importing(t)
<1>0. request \in [Requests -> RequestRecord] /\ settings \in Settings
    BY DEF IInv, RequestsTyped, TypeOK
<1>1. \E q \in RequestRecord : Moved(r, q) /\ q.pc # "import"
    <2>1. /\ Idle \in RequestRecord /\ Idle.pc # "import"
          /\ [Idle EXCEPT !.pc = "settings"] \in RequestRecord
          /\ [Idle EXCEPT !.pc = "settings"].pc # "import"
        BY IdleTyped DEF RequestRecord, Pcs, ApplyingPcs
    <2>2. \A s \in Settings, pc \in {"write", "apply"} :
              /\ [request[r] EXCEPT !.pc = pc, !.seen = s] \in RequestRecord
              /\ [request[r] EXCEPT !.pc = pc, !.seen = s].pc # "import"
        BY <1>0 DEF RequestRecord, Pcs, ToolPcs, ApplyingPcs
    <2>3. [NoSettings EXCEPT !.policy = settings.policy] \in Settings
        BY <1>0, NoSettingsTyped DEF Settings
    <2> QED
        BY <2>1, <2>2, <2>3, StepMoves
<1>2. request[r].pc \notin ListingPcs \cup {"import"}
    BY DEF ReadEdited, WriteEdited, ReadPolicy, Apply, SyncFails, RequestFails, At, ListingPcs
<1> QED
    BY <1>0, <1>1, <1>2, OnTheirWay

\* The lists are as they were, or another listing is coming.
LEMMA ListingCases ==
    ASSUME IInv, Next
    PROVE  \/ Listing'
           \/ Held({"broken"})'
           \/ \E r \in Requests : List(r)
           \/ \E r \in Requests : Register(r)
           \/ /\ UNCHANGED <<row, registry, defaults>>
              /\ executor'.tools = executor.tools
              /\ Listing => Listing'
              /\ \A reasons \in SUBSET {"broken", "overlap"} : Held(reasons) => Held(reasons)'
              /\ \A t : Importing(t)' <=> Importing(t)
<1> DEFINE Goal ==
    \/ Listing'
    \/ Held({"broken"})'
    \/ \E r \in Requests : List(r)
    \/ \E r \in Requests : Register(r)
    \/ /\ UNCHANGED <<row, registry, defaults>>
       /\ executor'.tools = executor.tools
       /\ Listing => Listing'
       /\ \A reasons \in SUBSET {"broken", "overlap"} : Held(reasons) => Held(reasons)'
       /\ \A t : Importing(t)' <=> Importing(t)
<1>1. Arrive => Goal
    BY Arrivals DEF Held
<1>2. ASSUME NEW r \in Requests,
             \/ ReadEdited(r) \/ WriteEdited(r) \/ ReadPolicy(r) \/ Apply(r)
             \/ SyncFails(r) \/ RequestFails(r)
      PROVE  Goal
    <2>1. UNCHANGED <<row, registry, defaults>>
        BY <1>2 DEF ReadEdited, WriteEdited, ReadPolicy, Apply, SyncFails, RequestFails, Database
    <2>2. executor'.tools = executor.tools
        BY <1>2 DEF ReadEdited, WriteEdited, ReadPolicy, Apply, SyncFails, RequestFails,
                    IInv, TypeOK, Executors
    <2>3. why \cap {"broken", "overlap"} \subseteq why'
        BY <1>2 DEF ReadEdited, WriteEdited, ReadPolicy, Apply, SyncFails, RequestFails, History
    <2> QED
        BY <1>2, <2>1, <2>2, <2>3, ImportsStay DEF Held
<1>3. ASSUME NEW r \in Requests, Step(r) \/ ScanFails(r) \/ ListFails(r) PROVE Goal
    BY <1>2, <1>3, ListingGoesOn DEF Step, ListFails, Held
<1>4. Fork => Goal
    BY DEF Fork, Database, History, Held, Listing, Importing, At
<1> QED
    BY <1>1, <1>2, <1>3, <1>4 DEF Next, Arrive

\* The moves of a refresh between its listing and the policy.
LEMMA Imports ==
    ASSUME IInv, NEW r \in Requests
    PROVE  /\ List(r) => \A t : Importing(t)' <=> t \in Active \/ Importing(t)
           /\ Register(r) =>
                 /\ \A t : Importing(t)' => Importing(t)
                 /\ \A t : Importing(t) => Importing(t)' \/ t \in request[r].todo
                 /\ \A t \in request[r].todo : Importing(t)
                 /\ Listing => Listing'
<1>0. request \in [Requests -> RequestRecord]
    BY DEF IInv, RequestsTyped
<1>1. ASSUME List(r) PROVE \A t : Importing(t)' <=> t \in Active \/ Importing(t)
    <2> DEFINE q == [request[r] EXCEPT !.pc = "import", !.todo = Active]
    <2>1. /\ Moved(r, q) /\ q \in RequestRecord /\ q.pc = "import" /\ q.todo = Active
        BY <1>0, <1>1, StepMoves DEF RequestRecord, Pcs, ApplyingPcs, Active
    <2>2. request[r].pc # "import"
        BY <1>1 DEF List, At
    <2> HIDE DEF q
    <2>3. request'[r] = q /\ \A x \in Requests \ {r} : request'[x] = request[x]
        BY <1>0, <2>1, OneMoves
    <2> QED
        BY <2>1, <2>2, <2>3 DEF Importing, At
<1>2. ASSUME Register(r)
      PROVE  /\ \A t : Importing(t)' => Importing(t)
             /\ \A t : Importing(t) => Importing(t)' \/ t \in request[r].todo
             /\ \A t \in request[r].todo : Importing(t)
             /\ Listing => Listing'
    <2> DEFINE q == [request[r] EXCEPT !.pc = "settings", !.todo = {}]
    <2>1. Moved(r, q) /\ q \in RequestRecord /\ q.pc = "settings"
        BY <1>0, <1>2, StepMoves DEF RequestRecord, Pcs, ApplyingPcs
    <2>2. request[r].pc = "import"
        BY <1>2 DEF Register, At
    <2> HIDE DEF q
    <2>3. request'[r] = q /\ \A x \in Requests \ {r} : request'[x] = request[x]
        BY <1>0, <2>1, OneMoves
    <2> QED
        BY <2>1, <2>2, <2>3 DEF Importing, Listing, ListingPcs, At
<1> QED
    BY <1>1, <1>2

LEMMA EnabledListedKept == ASSUME IInv, Next PROVE EnabledListed'
<1>0. /\ EnabledListed /\ executor \in Executors
      /\ \A r \in Requests : request[r].todo \subseteq Plugins
    BY RequestsSound DEF IInv, TypeOK, SoundRequest, RequestRecord
<1>1. ASSUME NEW r \in Requests, List(r) PROVE EnabledListed'
    <2>1. registry' = row /\ row' = row /\ \A t \in Plugins : row[t] = "enabled" => t \in Active
        BY <1>1 DEF List, Database, Active
    <2>2. \A t \in Active : Importing(t)'
        BY <1>1, Imports
    <2> QED
        BY <2>1, <2>2 DEF EnabledListed
<1>2. ASSUME NEW r \in Requests, Register(r) PROVE EnabledListed'
    <2>1. UNCHANGED <<row, registry, why>> /\ executor'.tools = executor.tools \cup request[r].todo
        BY <1>0, <1>2 DEF Register, Database, History, Executors
    <2> QED
        BY <1>0, <1>2, <2>1, Imports DEF EnabledListed, Held
<1>3. ASSUME UNCHANGED <<row, registry, defaults>>, executor'.tools = executor.tools,
             Listing => Listing', Held({"broken"}) => Held({"broken"})',
             \A t : Importing(t)' <=> Importing(t)
      PROVE  EnabledListed'
    BY <1>0, <1>3 DEF EnabledListed
<1>4. Listing' \/ Held({"broken"})' => EnabledListed'
    BY DEF EnabledListed
<1> QED
    BY <1>1, <1>2, <1>3, <1>4, ListingCases

LEMMA OnlyEnabledListedKept == ASSUME IInv, Next PROVE OnlyEnabledListed'
<1>0. /\ OnlyEnabledListed /\ executor \in Executors
      /\ \A r \in Requests : request[r].todo \subseteq Plugins
    BY RequestsSound DEF IInv, TypeOK, SoundRequest, RequestRecord
<1>1. ASSUME NEW r \in Requests, List(r) PROVE OnlyEnabledListed'
    <2>1. /\ row' = row /\ defaults' = defaults /\ executor'.tools = {}
          /\ \A t \in Active : row[t] = "enabled" \/ t \in defaults
        BY <1>0, <1>1 DEF List, Database, Active, Emptied, Executors
    <2>2. CASE \E q \in Requests : At(q, "import")
        BY <1>1, <2>2 DEF List, OnlyEnabledListed, Held
    <2>3. CASE ~ \E q \in Requests : At(q, "import")
        <3>1. \A t : Importing(t)' => t \in Active
            BY <1>1, <2>3, Imports DEF Importing
        <3> QED
            BY <2>1, <3>1 DEF OnlyEnabledListed
    <2> QED
        BY <2>2, <2>3
<1>2. ASSUME NEW r \in Requests, Register(r) PROVE OnlyEnabledListed'
    <2>1. UNCHANGED <<row, defaults, why>> /\ executor'.tools = executor.tools \cup request[r].todo
        BY <1>0, <1>2 DEF Register, Database, History, Executors
    <2> QED
        BY <1>0, <1>2, <2>1, Imports DEF OnlyEnabledListed, Held
<1>3. ASSUME UNCHANGED <<row, registry, defaults>>, executor'.tools = executor.tools,
             Listing => Listing',
             Held({"overlap", "broken"}) => Held({"overlap", "broken"})',
             \A t : Importing(t)' <=> Importing(t)
      PROVE  OnlyEnabledListed'
    BY <1>0, <1>3 DEF OnlyEnabledListed
<1>4. Listing' \/ Held({"broken"})' => OnlyEnabledListed'
    BY DEF OnlyEnabledListed, Held
<1>5. /\ Held({"overlap", "broken"}) => Held({"overlap", "broken"})'
      \/ ~ \A reasons \in SUBSET {"broken", "overlap"} : Held(reasons) => Held(reasons)'
    OBVIOUS
<1> QED
    BY <1>1, <1>2, <1>3, <1>4, <1>5, ListingCases

-----------------------------------------------------------------------------
(* The theorems                                                             *)

LEMMA InitHolds == ASSUME Init PROVE IInv
<1>1. /\ row \in [Plugins -> States] /\ registry \in [Plugins -> States]
      /\ \A p \in Plugins : registry[p] = "none"
    BY DEF Init, States
<1>2. settings \in Settings /\ wish = settings
    BY DEF Init, Settings
<1>3. /\ executor = Nothing /\ fork = Nothing /\ Nothing \in Executors
      /\ Nothing.tools = {} /\ Nothing.disabled = {}
    BY DEF Init, Nothing, Executors
<1>4. /\ request \in [Requests -> RequestRecord]
      /\ \A r \in Requests : SoundRequest(request[r])
    BY IdleSound DEF Init, SoundRequest
<1>5. \A r \in Requests : /\ request[r].pc \in {"idle", "scan"}
                          /\ request[r].seen \in Settings
    BY IdleTyped DEF Init
<1>6. TypeOK
    <2>1. \A r \in Requests :
              /\ (request[r].plugin # Nobody)
                     = (request[r].pc \in {"toggle", "found", "edit", "write"})
              /\ request[r].todo # {} => request[r].pc \in {"scan", "found", "import"}
        BY <1>4 DEF SoundRequest
    <2>2. /\ defaults = {} /\ booted = FALSE /\ requests = 0 /\ faults = 0 /\ why = {}
          /\ 0 \in 0 .. MaxRequests /\ 0 \in 0 .. MaxFaults
        BY PluginAssumption DEF Init
    <2> QED
        BY <1>1, <1>2, <1>3, <1>5, <2>1, <2>2 DEF TypeOK
<1>7. RequestsTyped /\ RegistryFollows /\ WishIsStored
    BY <1>1, <1>2, <1>4, <1>5
       DEF RequestsTyped, RegistryFollows, WishIsStored, SoundRequest, At
<1>8. PolicyApplied
    BY <1>3 DEF PolicyApplied
<1>9. EnabledListed /\ OnlyEnabledListed
    <2>1. \A t : ~Importing(t)
        BY <1>5 DEF Importing, At
    <2>2. Listing
        <3>1. Boot \in Requests
            BY PluginAssumption DEF Boot
        <3>2. request[Boot].pc = "scan"
            BY <3>1, IdleTyped DEF Init, RequestRecord
        <3> QED
            BY <3>1, <3>2 DEF Listing, ListingPcs
    <2>3. OnlyEnabledListed
        BY <1>3, <2>1 DEF OnlyEnabledListed
    <2> QED
        BY <2>2, <2>3 DEF EnabledListed
<1> QED
    BY <1>6, <1>7, <1>8, <1>9 DEF IInv

LEMMA StepHolds == ASSUME IInv, [Next]_vars PROVE IInv'
<1>1. CASE Next
    <2>1. /\ request' \in [Requests -> RequestRecord]
          /\ \A r \in Requests : SoundRequest(request'[r])
        BY <1>1, RequestsSoundKept
    <2>2. RequestsTyped'
        BY <2>1 DEF RequestsTyped, SoundRequest, At
    <2>3. \A r \in Requests :
              /\ request'[r].seen \in Settings
              /\ (request'[r].plugin # Nobody)
                     = (request'[r].pc \in {"toggle", "found", "edit", "write"})
              /\ request'[r].todo # {} => request'[r].pc \in {"scan", "found", "import"}
        BY <2>1 DEF SoundRequest, RequestRecord
    <2>4. TypeOK'
        BY <1>1, <2>3, RowsKept, SettingsKept, MemoryKept DEF TypeOK
    <2> QED
        BY <1>1, <2>2, <2>4, RowsKept, WishIsStoredKept, PolicyAppliedKept,
           EnabledListedKept, OnlyEnabledListedKept DEF IInv
<1>2. CASE UNCHANGED vars
    <2>1. UNCHANGED <<row, settings, defaults, registry, executor, fork, request, booted,
                      requests, faults, wish, why>>
        BY <1>2 DEF vars, Database, Counts, History
    <2>2. TypeOK' /\ RequestsTyped' /\ RegistryFollows' /\ WishIsStored'
        BY <2>1 DEF IInv, TypeOK, RequestsTyped, RegistryFollows, WishIsStored, At
    <2>3. PolicyApplied' /\ EnabledListed' /\ OnlyEnabledListed'
        BY <2>1 DEF IInv, PolicyApplied, EnabledListed, OnlyEnabledListed, Applying,
                    Listing, Importing, Held, Allowed, At
    <2> QED
        BY <2>2, <2>3 DEF IInv
<1> QED
    BY <1>1, <1>2

\* Every mismatch of plugin rows, registry, executor and policy is accounted
\* for by a request on its way or a recorded reason, at every moment.
THEOREM PluginInvariant == Spec => []IInv
<1>1. Init => IInv
    BY InitHolds
<1>2. IInv /\ [Next]_vars => IInv'
    BY StepHolds
<1> QED
    BY <1>1, <1>2, PTL DEF Spec

\* No tool of a plugin whose row is not enabled can be called, by chat or by a
\* task run that forked its executor earlier, at any moment of any refreshes:
\* the registry is cleared in the same step in which a row is turned off.
THEOREM DisabledCannotRun == Spec => []DisabledIsRefused
<1>1. IInv => DisabledIsRefused
    BY DEF IInv, RegistryFollows, DisabledIsRefused, Callable
<1> QED
    BY <1>1, PluginInvariant, PTL

\* When no request is at work the tools are what the founder asked for, but for
\* the failures, stale policies and lost updates that were recorded.
THEOREM ToolsFollowSettings == Spec => []ToolsSound
<1>1. ASSUME IInv, Quiet PROVE ~Listing /\ ~Applying /\ \A t : ~Importing(t)
    BY <1>1 DEF Quiet, At, Listing, Applying, Importing, ListingPcs, ApplyingPcs
<1>2. IInv => executor.tools \subseteq Plugins
    BY DEF IInv, TypeOK, Executors
<1>3. IInv => PolicyHolds
    <2> SUFFICES ASSUME IInv, Quiet, why \cap {"stale", "failed", "lost"} = {},
                        NEW t \in Plugins, Callable(executor, t)
                 PROVE  Allowed(t, wish)
        BY DEF PolicyHolds
    <2> QED
        BY <1>1 DEF IInv, PolicyApplied, WishIsStored, Held, Callable
<1>4. IInv => EnabledWorks
    <2> SUFFICES ASSUME IInv, Quiet, why \cap {"broken", "stale", "failed", "lost"} = {},
                        NEW t \in Plugins, row[t] = "enabled", Allowed(t, wish)
                 PROVE  Callable(executor, t)
        BY DEF EnabledWorks
    <2>1. t \notin executor.disabled
        BY <1>1 DEF IInv, PolicyApplied, WishIsStored, Held
    <2>2. registry[t] = "enabled" /\ t \in executor.tools
        BY <1>1 DEF IInv, EnabledListed, Held
    <2> QED
        BY <2>1, <2>2 DEF Callable
<1>5. IInv => ListedIsEnabled
    <2> SUFFICES ASSUME IInv, Quiet, why \cap {"overlap", "broken"} = {},
                        NEW t \in executor.tools
                 PROVE  row[t] = "enabled" \/ t \in defaults
        BY DEF ListedIsEnabled
    <2> QED
        BY <1>1, <1>2 DEF IInv, OnlyEnabledListed, Held
<1>6. IInv => ToolsSound
    BY <1>3, <1>4, <1>5 DEF IInv, ToolsSound
<1> QED
    BY <1>6, PluginInvariant, PTL
=============================================================================
