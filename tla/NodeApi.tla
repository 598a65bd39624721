------------------------------ MODULE NodeApi ------------------------------
(***************************************************************************)
(* platform_layer/node_api: the read handlers of a node, the HTTP router   *)
(* and the MCP server that both call them, and a client that pages through *)
(* the cylinder chain while other processes write to it.                   *)
(*                                                                         *)
(* Handlers run to completion on one event loop, so they never interleave  *)
(* with one another; the file system changes under them.  Only the audit   *)
(* query shows it: replay_chain lists the directory and then opens file    *)
(* after file.  It is two steps here, the other handlers are one.          *)
(***************************************************************************)
EXTENDS Documents, FiniteSets, FiniteSetsExt

CONSTANTS
    Principals,     \* callers that identify themselves
    Trees,          \* what the repository and the environment may look like
    Registries,     \* what role_registry.role_ids() may list, or NoRegistry
    NoRegistry,     \* the role_registry argument is None
    Servers,        \* MCP servers a node may run: their authenticate argument and library
    Home,           \* the tree whose cylinder directory the client pages through
    Kinds,          \* kind suffixes of cylinder names
    Filters,        \* texts to filter by: the kinds each is found in
    MaxName,        \* bound: cylinder names, ordered as their timestamps are
    MaxCylinders,   \* replay_chain.DEFAULT_MAX_CYLINDERS (500)
    MaxLimit,       \* the largest page a query may ask for (500)
    MaxDisturbed    \* bound: disturbances of one walk

NoOne == "none"
NotGiven == "not given"
NoFilter == Kinds
NoSeq == -1
Callers == Principals \cup {NoOne}

ASSUME CallersAssumption == {NoOne, NotGiven} \cap Principals = {}

\* `authenticate' is what the callable answers, if the server is built with one;
\* `checked' says whether the library checks results against the declared type.
ASSUME ServersAssumption ==
    Servers \subseteq [authenticate : Callers \cup {NotGiven}, checked : BOOLEAN]

ASSUME FiltersAssumption == Filters \subseteq SUBSET Kinds

ASSUME BoundsAssumption == {MaxName, MaxCylinders, MaxLimit, MaxDisturbed} \subseteq Nat

VARIABLES
    chain,      \* the cylinder files of the directory
    listing,    \* what the audit query under way has listed
    walk,       \* the paging client
    latest,     \* the greatest name a cylinder has had
    disturbed   \* history: cylinders that sort below the latest, or vanished, during the walk

vars == <<chain, listing, walk, latest, disturbed>>

Fails(e) == [error |-> e]
Gives(b) == [body |-> b]
Failed(r) == "error" \in DOMAIN r

-----------------------------------------------------------------------------
(* handlers.py *)

\* _require_principal, then the rest of the handler.
RequirePrincipal(p, rest) == IF p = NoOne THEN Fails("MissingPrincipalError") ELSE rest

\* _repo_root finds no manifest.yaml, or _load_manifest cannot make a mapping of it.
ManifestUnusable(t) == t.manifest.kind # "mapping"

\* The first series marked active names the rung; level 1 when there is none.
ActiveSeries(t) == {i \in DOMAIN t.manifest.series : t.manifest.series[i].active}
LevelValue(t) ==
    IF ActiveSeries(t) = {} THEN Number(1) ELSE t.manifest.series[Min(ActiveSeries(t))].level

\* int(level), manifest.get("platform", {}).get(...)
StatusError(t) ==
    CASE IsText(LevelValue(t)) -> "ValueError"
      [] IsList(LevelValue(t)) -> "TypeError"
      [] OTHER -> IF t.manifest.platform = "other" THEN "AttributeError" ELSE "none"

RegistryReady(reg) == reg = NoRegistry \/ reg # {}

StatusBody(t, reg) ==
    LET level == LevelValue(t).number IN
    [ladder_level |-> level, current_level |-> level,
     next_level |-> IF level < 4 THEN level + 1 ELSE 0,
     kernel_ok |-> t.kernel, manifest_ok |-> TRUE, specs_valid |-> t.specs,
     signatures_ok |-> t.keys, breath_gate_ready |-> RegistryReady(reg)]

HandlerNodeStatus(p, t, reg) ==
    RequirePrincipal(p, IF ManifestUnusable(t) THEN Fails("NodeStateError")
                        ELSE IF StatusError(t) # "none" THEN Fails(StatusError(t))
                        ELSE Gives(StatusBody(t, reg)))

\* The response model refuses a release date or a signer that YAML does not read as
\* a text: pydantic's ValidationError is a ValueError.
HandlerManifestGet(p, t) ==
    RequirePrincipal(p, IF ManifestUnusable(t) THEN Fails("NodeStateError")
                        ELSE IF ~t.manifest.worded THEN Fails("ValueError")
                        ELSE Gives([raw |-> t.manifest, integrity_ok |-> TRUE]))

AllowedSeries == {"executive", "family", "generational_legacy", "education", "health",
                  "federation", "_base"}

\* Without a specs directory the listing is empty, whatever series was asked for.
HandlerSpecsList(p, t, series) ==
    RequirePrincipal(p,
        CASE t.manifest.kind = "absent" -> Fails("NodeStateError")
          [] t.manifest.kind # "absent" /\ ~t.specs -> Gives([specs |-> {}])
          [] t.manifest.kind # "absent" /\ t.specs ->
               IF series \notin AllowedSeries \cup {"all"} THEN Fails("ValueError")
               ELSE Gives([specs |-> {s \in t.listed : series \in {"all", s[1]}}]))

HandlerRolesList(p, reg) ==
    RequirePrincipal(p, IF reg = NoRegistry THEN Fails("NodeStateError")
                        ELSE Gives([roles |-> reg]))

\* The environment variable wins when it is set, usable or not; then the fallback.
CylindersDirFound(t) ==
    \/ t.env = "directory"
    \/ t.env = "unset" /\ t.fallback

\* The client's node finds its cylinders.
ASSUME HomeAssumption == CylindersDirFound(Home)

\* Mutant: a directory that changed while it was read is refused.
ReplayFailsOnChange(t, listed, present) ==
    ~CylindersDirFound(t) \/ Cardinality(listed) > MaxCylinders \/ listed # present

\* No directory, more cylinders than the default cap, or a file gone before it is opened.
ReplayFails(t, listed, present) ==
    ~CylindersDirFound(t) \/ Cardinality(listed) > MaxCylinders \/ ~(listed \subseteq present)

\* replay_chain sorts the names and gives every file its rank.
Rank(files, f) == Cardinality({g \in files : g.name < f.name})
ReadCylinders(files) == {[seq |-> Rank(files, f), file |-> f] : f \in files}

\* refs[:limit], of cylinders in the order of their ranks.
Cut(refs, limit) == {r \in refs : Cardinality({s \in refs : s.seq < r.seq}) < limit}

After(files, since) == {r \in ReadCylinders(files) : since = NoSeq \/ r.seq > since}

\* The filter is looked for inside the kind, so it may match none, some or every one.
OfKind(refs, filter) == {r \in refs : r.file.kind \in filter}

\* Mutant: the page is cut before the kind filter.
PaginatedCutFirst(files, since, limit, filter) ==
    OfKind(Cut(After(files, since), limit), filter)

\* The page: everything after `since', of the kinds asked for, then the limit, so
\* the oldest come first.
Paginated(files, since, limit, filter) == Cut(OfKind(After(files, since), filter), limit)

\* handler_audit_query on a directory that was listed as `listed' and is read as `present'.
HandlerAuditQuery(p, t, seq, since, limit, filter, listed, present) ==
    RequirePrincipal(p,
        IF seq # NoSeq /\ since # NoSeq THEN Fails("ValueError")
        ELSE IF limit \notin 1..MaxLimit THEN Fails("ValueError")
        ELSE IF ReplayFails(t, listed, present) THEN Fails("NodeStateError")
        ELSE Gives([total |-> Cardinality(listed),
                    cylinders |-> IF seq # NoSeq
                                  THEN {r \in ReadCylinders(listed) : r.seq = seq}
                                  ELSE Paginated(listed, since, limit, filter)]))

\* No queue exists yet: the list is empty and says so.
HandlerBreathGatePending(p) ==
    RequirePrincipal(p, Gives([principal_id |-> p, pending |-> {},
                               pending_queue_status |-> "queue_not_yet_active"]))

-----------------------------------------------------------------------------
(* http_routes.py and the app of plugin_interface.py *)

TranslateHandlerError(e) ==
    CASE e = "MissingPrincipalError" -> 401
      [] e = "NodeStateError" -> 503
      [] e = "NotImplementedError" -> 501
      [] e = "ValueError" -> 400
      [] OTHER -> 500

\* auth_fn answers 401 before the handler is called.
Route(p, result) ==
    CASE p = NoOne -> [code |-> 401]
      [] p # NoOne /\ Failed(result) -> [code |-> TranslateHandlerError(result.error)]
      [] p # NoOne /\ ~Failed(result) -> [code |-> 200, body |-> result.body]

Project(result, fields) ==
    IF Failed(result) THEN result ELSE Gives([f \in fields |-> result.body[f]])

NodeFields == {"ladder_level"}
HealthFields == {"kernel_ok", "manifest_ok", "specs_valid", "signatures_ok", "breath_gate_ready"}
LadderFields == {"current_level", "next_level"}

NodeGet(p, t, reg) == Route(p, Project(HandlerNodeStatus(p, t, reg), NodeFields))
NodeHealth(p, t, reg) == Route(p, Project(HandlerNodeStatus(p, t, reg), HealthFields))
NodeLadder(p, t, reg) == Route(p, Project(HandlerNodeStatus(p, t, reg), LadderFields))
ManifestGet(p, t) == Route(p, HandlerManifestGet(p, t))
SpecsList(p, t, series) == Route(p, HandlerSpecsList(p, t, series))
RolesList(p, reg) == Route(p, HandlerRolesList(p, reg))
BreathGatePending(p) == Route(p, HandlerBreathGatePending(p))

\* The framework rejects a limit out of range before the route runs.
AuditCylinders(p, t, since, limit, filter) ==
    IF limit \notin 1..MaxLimit THEN [code |-> 422]
    ELSE Route(p, HandlerAuditQuery(p, t, NoSeq, since, limit, filter, chain, chain))

AuditCylinder(p, t, seq) ==
    LET answer == Route(p, HandlerAuditQuery(p, t, seq, NoSeq, MaxLimit, NoFilter, chain, chain))
    IN IF answer.code = 200 /\ answer.body.cylinders = {} THEN [code |-> 404] ELSE answer

\* GET /roles of the plug-in app, which only exists with a registry.
ListRoles(p, reg) ==
    IF p = NoOne THEN [code |-> 401] ELSE [code |-> 200, body |-> [roles |-> reg]]

-----------------------------------------------------------------------------
(* mcp_server.py *)

\* Context.get() yields nothing (the library's Context has no such method, and the
\* error is swallowed): _current_ctx answers None, and without a callable everybody
\* is anonymous.  A callable is only ever shown that None, so it answers for all
\* callers alike.
ResolvePrincipal(s) == IF s.authenticate = NotGiven THEN NoOne ELSE s.authenticate

\* Most tools return a dict.  Two return the handler's model where they declare a
\* dict: a library that only serialises results makes the same JSON of it, one that
\* checks them fails the call.
Undumped(s, result) ==
    IF s.checked /\ ~Failed(result) THEN Fails("ToolError") ELSE result

BreathlineNodeStatus(s, t, reg, health, ladder) ==
    Project(HandlerNodeStatus(ResolvePrincipal(s), t, reg),
            NodeFields \cup (IF health THEN HealthFields ELSE {})
                       \cup (IF ladder THEN LadderFields ELSE {}))
BreathlineManifestGet(s, t) == HandlerManifestGet(ResolvePrincipal(s), t)
\* Mutant: the tool drops its argument.
BreathlineSpecsListAll(s, t, series) == HandlerSpecsList(ResolvePrincipal(s), t, "all")
BreathlineSpecsList(s, t, series) == HandlerSpecsList(ResolvePrincipal(s), t, series)
BreathlineRolesList(s, reg) == HandlerRolesList(ResolvePrincipal(s), reg)
BreathlineAuditQuery(s, t, seq, since, limit, filter) ==
    Undumped(s, HandlerAuditQuery(ResolvePrincipal(s), t, seq, since, limit, filter, chain, chain))
BreathlineBreathGatePending(s) ==
    Undumped(s, HandlerBreathGatePending(ResolvePrincipal(s)))

-----------------------------------------------------------------------------
(* The file system, and a client that pages *)

Files == [name : 1..MaxName, kind : Kinds]
Names(files) == {f.name : f \in files}

\* No walk under way: the fields mean nothing.
Idle == [status |-> "idle", limit |-> 0, filter |-> NoFilter, since |-> NoSeq,
         got |-> {}, received |-> 0, start |-> {}]

Init ==
    /\ chain = {}
    /\ listing = {}
    /\ walk = Idle
    /\ latest = 0
    /\ disturbed = [inserted |-> 0, removed |-> 0]

\* A finished walk is looked at before the world moves on.
Walking == walk.status \in {"asking", "reading"}
Underway == walk = Idle \/ Walking
Disturbances == disturbed.inserted + disturbed.removed

\* seal.sh names a cylinder by the second it is written in and its kind.  A name not
\* above the latest is what a clock set back gives, or a second cylinder of the same second.
Seal(f) ==
    /\ Underway /\ f.name \notin Names(chain)
    /\ Walking /\ f.name <= latest => Disturbances < MaxDisturbed
    /\ chain' = chain \cup {f}
    /\ latest' = IF f.name > latest THEN f.name ELSE latest
    /\ disturbed' = IF Walking /\ f.name <= latest
                    THEN [disturbed EXCEPT !.inserted = @ + 1] ELSE disturbed
    /\ UNCHANGED <<listing, walk>>

\* A file is deleted or moved away.
Vanish(f) ==
    /\ Underway /\ f \in chain
    /\ Walking => Disturbances < MaxDisturbed
    /\ chain' = chain \ {f}
    /\ disturbed' = IF Walking THEN [disturbed EXCEPT !.removed = @ + 1] ELSE disturbed
    /\ UNCHANGED <<listing, walk, latest>>

\* The client asks for the first page.
StartWalk(limit, filter) ==
    /\ walk = Idle
    /\ walk' = [status |-> "asking", limit |-> limit, filter |-> filter, since |-> NoSeq,
                got |-> {}, received |-> 0, start |-> chain]
    /\ UNCHANGED <<chain, listing, latest, disturbed>>

\* The client has what it came for, or gives up.
EndWalk ==
    /\ ~Underway
    /\ walk' = Idle /\ disturbed' = [inserted |-> 0, removed |-> 0]
    /\ UNCHANGED <<chain, listing, latest>>

Wanted(f) == f.kind \in walk.filter

\* replay_chain lists the directory.
ListPage ==
    /\ walk.status = "asking"
    /\ listing' = chain
    /\ walk' = [walk EXCEPT !.status = "reading"]
    /\ UNCHANGED <<chain, latest, disturbed>>

Page(p) ==
    Route(p, HandlerAuditQuery(p, Home, NoSeq, walk.since, walk.limit, walk.filter, listing, chain))

\* The client takes a page in, and will ask on from `back' before the page's last cylinder.
Turn(page, back) ==
    walk' = [walk EXCEPT
        !.status = IF Cardinality(page) < walk.limit THEN "done" ELSE "asking",
        !.got = @ \cup {r.file : r \in page},
        !.received = @ + Cardinality(page),
        !.since = IF page = {} THEN @ ELSE Max({r.seq : r \in page}) - back]

ReadPageBack(back) ==
    /\ walk.status = "reading"
    /\ \E p \in Principals :
          \/ Page(p).code = 200 /\ Turn(Page(p).body.cylinders, back)
          \/ Page(p).code # 200 /\ walk' = [walk EXCEPT !.status = "failed"]
    /\ listing' = {}
    /\ UNCHANGED <<chain, latest, disturbed>>

\* Mutants: a page starts at the cylinder the last one ended with, or one too late.
ReadPageOverlapping == ReadPageBack(1)
ReadPageSkipping == ReadPageBack(-1)

\* It reads the files and the page goes to the client, which goes on after the last
\* sequence number it saw, until a page is not full.
ReadPage == ReadPageBack(0)

Next == \/ \E f \in Files : Seal(f) \/ Vanish(f)
        \/ \E limit \in 1..MaxLimit, filter \in Filters \cup {NoFilter} : StartWalk(limit, filter)
        \/ ListPage \/ ReadPage \/ EndWalk

Spec == Init /\ [][Next]_vars

-----------------------------------------------------------------------------
(* Properties *)

TypeOK ==
    /\ chain \subseteq Files /\ listing \subseteq Files
    /\ \A files \in {chain, listing} : \A f, g \in files : f.name = g.name => f = g
    /\ walk \in [status : {"idle", "asking", "reading", "done", "failed"},
                 limit : 0..MaxLimit, filter : SUBSET Kinds,
                 since : NoSeq..(MaxCylinders - 1), got : SUBSET Files, received : Nat,
                 start : SUBSET Files]
    /\ latest \in 0..MaxName
    /\ disturbed \in [inserted : 0..MaxDisturbed, removed : 0..MaxDisturbed]

\* What HTTP answers is what MCP answers: the same body, or the code of the same error.
Agree(http, mcp) ==
    IF Failed(mcp) THEN http.code = TranslateHandlerError(mcp.error)
    ELSE http.code = 200 /\ http.body = mcp.body

\* The same, unless the library refused the tool the model it returned.
AgreeUnchecked(s, http, mcp) ==
    \/ Agree(http, mcp)
    \/ s.checked /\ mcp = Fails("ToolError") /\ http.code = 200

\* What server `s' tells anybody about tree `t' is what HTTP tells `p' about it.
SameAnswers(s, p, t) ==
    /\ \A reg \in Registries :
         LET mcp == BreathlineNodeStatus(s, t, reg, TRUE, TRUE) IN
         /\ Agree(NodeGet(p, t, reg), Project(mcp, NodeFields))
         /\ Agree(NodeHealth(p, t, reg), Project(mcp, HealthFields))
         /\ Agree(NodeLadder(p, t, reg), Project(mcp, LadderFields))
         /\ Agree(RolesList(p, reg), BreathlineRolesList(s, reg))
         /\ reg # NoRegistry => ListRoles(p, reg) = RolesList(p, reg)
    /\ Agree(ManifestGet(p, t), BreathlineManifestGet(s, t))
    /\ \A series \in {"all", "family", "unknown"} :
          Agree(SpecsList(p, t, series), BreathlineSpecsList(s, t, series))
    /\ AgreeUnchecked(s, BreathGatePending(p), BreathlineBreathGatePending(s))
    /\ \A since \in {NoSeq, 0, 1}, limit \in 1..MaxLimit, filter \in Filters :
          AgreeUnchecked(s, AuditCylinders(p, t, since, limit, filter),
                         BreathlineAuditQuery(s, t, NoSeq, since, limit, filter))
    /\ \A seq \in 0..2 :
          LET http == AuditCylinder(p, t, seq)
              mcp == BreathlineAuditQuery(s, t, seq, NoSeq, MaxLimit, NoFilter)
          IN \/ AgreeUnchecked(s, http, mcp)
             \/ /\ http.code = 404 /\ seq \notin 0..(Cardinality(chain) - 1)
                /\ Failed(mcp) => s.checked /\ mcp = Fails("ToolError")

\* Whatever the state of checkout, registry and chain, what an MCP server tells anybody
\* is what HTTP tells the one principal the server takes all its callers for, and
\* without an authenticate callable that is nobody.  Beyond that they differ where
\* http_routes says they do (a bad limit is the framework's 422 even for an anonymous
\* caller, and a missing cylinder is 404 where the tool returns an empty list), and in
\* the two tools that return a model under a library that checks results.
TransportsAgree ==
    walk = Idle => \A s \in Servers, t \in Trees : SameAnswers(s, ResolvePrincipal(s), t)

Undisturbed == Disturbances = 0

\* On a chain that only grows at its tip, a client that pages through it, filtered or
\* not, holds at every moment a stretch of the cylinders it wants, each once and with no
\* hole in it; in the end it has every one that was there when it began, however many
\* were sealed between its pages.  (The code begins the stretch with the oldest; the
\* contract of the endpoint, contract_v1.yaml:213, announces the newest first.)
WalkExact ==
    Undisturbed /\ walk # Idle =>
        /\ walk.got \subseteq {f \in chain : Wanted(f)}
        /\ walk.received = Cardinality(walk.got)
        /\ \A f, h \in walk.got, g \in chain :
              Wanted(g) /\ f.name < g.name /\ g.name < h.name => g \in walk.got
        /\ walk.status = "done" => {f \in walk.start : Wanted(f)} \subseteq walk.got

\* Sequence numbers are ranks: a removal or a cylinder that sorts below the tip shifts
\* them under the client.  It misses no more cylinders than were removed, and sees no
\* more twice than were inserted.
WalkBounds ==
    /\ walk.status = "done" =>
          Cardinality({f \in walk.start \cap chain : Wanted(f)} \ walk.got) <= disturbed.removed
    /\ walk.received - Cardinality(walk.got) <= disturbed.inserted

\* A walk fails only if a file was removed while it
\* lasted, or the chain outgrew what replay_chain reads by default.
NoFalseRefusal ==
    walk.status = "failed" =>
        disturbed.removed > 0 \/ Cardinality(chain) > MaxCylinders
=============================================================================
