----------------------------- MODULE RoleAgents -----------------------------
(***************************************************************************)
(* platform/roles: the handlers route_request dispatches to, as one call   *)
(* of them unfolds.                                                        *)
(*                                                                         *)
(* Two forecast roles and two compliance roles answer by themselves; the   *)
(* two synthesis roles call other handlers, one after the other, with the  *)
(* payloads their own request carries, and those may be synthesis roles    *)
(* again.  `stack' holds the Python frames of process() that have not      *)
(* returned, the innermost last.                                           *)
(*                                                                         *)
(* A deployment chooses one of six factories: executive, family or both,   *)
(* each of plain classes ("pure") or LangGraph wrappers ("graph").         *)
(***************************************************************************)
EXTENDS Documents, FiniteSets

CONSTANTS
    Principal,    \* the caller
    Payloads,     \* payloads of the requests a client sends (documents)
    Values,       \* those payloads and every document inside one
    Drifting,     \* texts that hold one of DRIFT_TOKENS
    Numerals,     \* the texts float() reads, and the numbers it reads them as
    MaxHorizon,   \* forecast.MAX_HORIZON
    FloatDigits,  \* decimal exponent beyond which float ** int overflows
    MaxNesting    \* bound: how deep a reviewed artifact nests


VARIABLES
    registry,   \* roles of the RoleRegistry
    handlers,   \* role_handlers: role id -> "pure" or "graph"; empty until wired
    stack,      \* frames of process()
    request,    \* the call served or being served
    answer,     \* what the outermost process() returned or raised
    told        \* history: who answered what to which request during the call

vars == <<registry, handlers, stack, request, answer, told>>

Exec == {"cfo_agent", "compliance_agent", "synthesis_agent"}
Family == {"family_cfo_agent", "family_compliance_shield", "household_synthesis_agent"}
RoleIds == Exec \cup Family

-----------------------------------------------------------------------------
(* The requests *)

\* The documents right inside a document; the keys of a dict are not values.
Inside(d) ==
    IF IsDict(d) THEN {d.dict[k] : k \in DOMAIN d.dict}
    ELSE IF IsList(d) THEN {d.list[i] : i \in DOMAIN d.list} ELSE {}

Items(q) == {q[i] : i \in DOMAIN q}

\* The payload of an InvocationRequest is a dict, and the lists in it are sequences; the
\* empty dict stands for what a request leaves out.
ASSUME PayloadsAssumption ==
    /\ \A p \in Payloads : DOMAIN p = {"dict"}
    /\ Payloads \cup {Dict(<<>>)} \subseteq Values
    /\ \A d \in Values : /\ Inside(d) \subseteq Values
                         /\ IsList(d) => d.list \in Seq(Items(d.list))

-----------------------------------------------------------------------------
(* roles/__init__.py *)

\* dict.update
Updated(table, more) ==
    [r \in DOMAIN table \cup DOMAIN more |-> IF r \in DOMAIN more THEN more[r] ELSE table[r]]

CreateDemo2Handlers == [r \in Exec |-> "pure"]
CreateFamilyHandlers == [r \in Family |-> "pure"]
CreateFullHandlers == Updated(CreateDemo2Handlers, CreateFamilyHandlers)
CreateDemo2GraphHandlers == [r \in Exec |-> "graph"]
CreateFamilyGraphHandlers == [r \in Family |-> "graph"]
CreateFullGraphHandlers == Updated(CreateDemo2GraphHandlers, CreateFamilyGraphHandlers)

Factories == {CreateDemo2Handlers, CreateFamilyHandlers, CreateFullHandlers,
              CreateDemo2GraphHandlers, CreateFamilyGraphHandlers, CreateFullGraphHandlers}

\* Mutant: the household synthesis is given the combined dict, like the executive one.
PeerHandlersShared(r, table) == table

\* The dict a synthesis handler was constructed with.  The executive one holds the
\* dict create_full_handlers goes on to extend, the household one a dict of its own.
PeerHandlers(r, table) ==
    IF r \in Family THEN [q \in Family |-> table[r]] ELSE table

-----------------------------------------------------------------------------
(* What a call returns or raises *)

\* The executive handler a family handler subclasses.
Core(r) == CASE r \in {"cfo_agent", "family_cfo_agent"} -> "cfo_agent"
             [] r \in {"compliance_agent", "family_compliance_shield"} -> "compliance_agent"
             [] r \in {"synthesis_agent", "household_synthesis_agent"} -> "synthesis_agent"

\* The plain classes answer under their own role_id, the graph nodes under the core's.
AnswersAs(f) == IF f.flavour = "pure" THEN f.role ELSE Core(f.role)

Refused(f, framework, why) ==
    [role_id |-> AnswersAs(f), framework |-> framework, status |-> "refused",
     principal_id |-> f.principal, request_id |-> f.path,
     refusal_reason |-> why, outputs |-> {}, body |-> [nothing |-> TRUE]]

Produced(f, framework, outputs, body) ==
    [role_id |-> AnswersAs(f), framework |-> framework, status |-> "produced",
     principal_id |-> f.principal, request_id |-> f.path,
     refusal_reason |-> "", outputs |-> outputs, body |-> body]

Raised(error) == [raised |-> error]
IsRaised(a) == "raised" \in DOMAIN a

\* Mutant: the overlay forgets the identity tag.
OverlayKeepsParent(f, a) == a

\* A family handler's overlay on what its parent's process() returned; an exception
\* passes through.
Overlay(f, a) == IF IsRaised(a) THEN a ELSE [a EXCEPT !.role_id = f.role]

-----------------------------------------------------------------------------
(* Forecast: cfo_agent, family_cfo_agent *)

Sign(n) == CASE n < 0 -> -1 [] n = 0 -> 0 [] n > 0 -> 1
Magnitude(n) == IF n < 0 THEN -n ELSE n

\* The forecast refuses its inputs (ForecastInputError).
InvalidForecast(p) ==
    \/ ~Has(p, "financial_data") \/ ~Has(p, "forecast_horizon")
    \/ ~IsDict(p.dict["financial_data"])
    \/ LET h == p.dict["forecast_horizon"]
       IN ~IsNumber(h) \/ h.number \notin 1..MaxHorizon

\* float(x) of a number, or of a text that reads as one.
IsFigure(d) == IsNumber(d) \/ (IsText(d) /\ d.text \in DOMAIN Numerals)
Figure(d) == IF IsNumber(d) THEN d.number ELSE Numerals[d.text]

\* [float(x) for x in fd.get(key, [])] raises: an item is no number, or it is no list;
\* an empty text or dict is iterated as an empty list is.
Unreadable(fd, key) ==
    LET s == Get(fd, key, List(<<>>))
    IN IF IsList(s) THEN \E i \in DOMAIN s.list : ~IsFigure(s.list[i])
       ELSE IsNumber(s) \/ Truthy(s)

Series(fd, key) ==
    LET s == Get(fd, key, List(<<>>))
    IN IF IsList(s) THEN [i \in DOMAIN s.list |-> Figure(s.list[i])] ELSE <<>>

\* 1 + growth as a fraction <<numerator, denominator>>; the default growths are positive.
GrowthFactor(s) ==
    LET n == Len(s) IN
    IF n >= 2 /\ s[n - 1] # 0
    THEN <<Magnitude(s[n - 1]) + s[n] - s[n - 1], Magnitude(s[n - 1])>>
    ELSE <<1, 1>>

\* The first or a later power of the factor is beyond a float (OverflowError): it is
\* when the whole digits of the factor alone carry it there.  A factor whose digits just
\* miss it is taken to fit, and the payloads keep away from that boundary.
Overflows(s, horizon) ==
    \E d \in 1..7 : /\ Magnitude(GrowthFactor(s)[1]) \div GrowthFactor(s)[2] >= 10 ^ d
                    /\ d * horizon > FloatDigits

\* Some period of the projection is below zero: the sign of last * factor ^ k.
ProjectsNegative(s, horizon) ==
    /\ s # <<>>
    /\ \E k \in 1..horizon :
          Sign(s[Len(s)]) * Sign(GrowthFactor(s)[1]) ^ k < 0

\* The loop cannot finish on inputs it took for valid.
Breaks(p) ==
    LET fd == p.dict["financial_data"]
        h == p.dict["forecast_horizon"].number
    IN \E key \in {"revenue", "expenses"} :
          Unreadable(fd, key) \/ Overflows(Series(fd, key), h)

\* apply_forecast returns, refuses (ForecastInputError) or lets another error out.
ApplyForecast(p) ==
    CASE IsNumber(p) -> "raises"
      [] ~IsNumber(p) /\ InvalidForecast(p) -> "refuses"
      [] OTHER ->
           IF Breaks(p) THEN "raises"
           ELSE IF ProjectsNegative(Series(p.dict["financial_data"], "revenue"),
                                    p.dict["forecast_horizon"].number)
                THEN "refuses" ELSE "returns"

ForecastAnswer(f) ==
    CASE ApplyForecast(f.payload) = "raises" -> Raised("forecast")
      [] ApplyForecast(f.payload) = "refuses" ->
            Refused(f, "FORECAST", "invalid_forecast_inputs")
      [] ApplyForecast(f.payload) = "returns" ->
            Produced(f, "FORECAST", {"forecast_artifact"}, [nothing |-> TRUE])

\* The wrapper's validate node refuses missing inputs before the core sees them.
ForecastGraphAnswer(f) ==
    IF ~IsNumber(f.payload) /\ (~Has(f.payload, "financial_data") \/ ~Has(f.payload, "forecast_horizon"))
    THEN Refused(f, "FORECAST", "invalid_forecast_inputs")
    ELSE ForecastAnswer(f)

-----------------------------------------------------------------------------
(* Compliance: compliance_agent, family_compliance_shield *)

ValidModes == {Text("charter_v7_review"), Text("compliance_review")}

\* Every text inside a document, at any depth.
TextsIn(d) ==
    LET level[n \in 0..MaxNesting] ==
            IF n = 0 THEN {d} ELSE UNION {Inside(e) : e \in level[n - 1]}
        parts == UNION {level[n] : n \in 0..MaxNesting}
    IN {e.text : e \in {e \in parts : IsText(e)}}

\* apply_charter_v7_review: the texts of the artifact that hold a drift token.
CharterViolations(artifact) == TextsIn(artifact) \cap Drifting

\* The sections of the Evidence Bundle that need a query the shipped auditor and minter
\* do not offer (no list_receipts, query_critic_verdicts, ..., verify_chain_integrity).
DegradedSections == {"receipts", "drift_or_defect_verdicts", "cost_ceiling_breaches",
                     "governor_decisions", "cylinder_chain_integrity"}

LeastAuthorityReport == registry

EvidenceBundle == [bundle |-> LeastAuthorityReport, degraded |-> DegradedSections]

CharterAnswer(f, artifact) ==
    LET found == CharterViolations(artifact) IN
    IF found = {}
    THEN Produced(f, "charter_v7_enforcement", {"verdict"}, [verdict |-> found])
    ELSE [Refused(f, "charter_v7_enforcement", "charter_v7_drift_detected")
             EXCEPT !.outputs = {"verdict"}, !.body = [verdict |-> found]]

ComplianceAnswer(f) ==
    LET p == f.payload
        mode == Get(p, "mode", Text("None"))
        artifact == Get(p, "peer_artifact", Text("None"))
        window == Get(p, "time_window", Dict(<<>>))
    IN CASE ~IsDict(p) -> Raised("AttributeError")
         [] IsDict(p) /\ mode \notin ValidModes -> Refused(f, "AUDIT", "unknown_mode")
         [] IsDict(p) /\ mode = Text("charter_v7_review") ->
              IF ~IsDict(artifact)
              THEN Refused(f, "AUDIT", "missing_or_invalid_peer_artifact")
              ELSE CharterAnswer(f, artifact)
         [] IsDict(p) /\ mode = Text("compliance_review") ->
              IF ~IsDict(window)
              THEN Refused(f, "AUDIT", "invalid_time_window")
              ELSE Produced(f, "compliance_review", {"evidence_bundle"}, EvidenceBundle)

(* The LangGraph path: dispatch, one of the two framework nodes, finalize.  The state
   they pass on: the framework used, a refusal and the framework's body. *)

RouteByMode(p) ==
    CASE Get(p, "mode", Text("None")) \notin ValidModes -> "finalize"
      [] Get(p, "mode", Text("None")) = Text("charter_v7_review") -> "charter_v7"
      [] Get(p, "mode", Text("None")) = Text("compliance_review") -> "compliance_review"

NodeDispatch(p) ==
    [framework_used |-> "AUDIT",
     refusal |-> IF RouteByMode(p) = "finalize" THEN "unknown_mode" ELSE "",
     outputs |-> {}, body |-> [nothing |-> TRUE]]

NodeCharterV7(p, state) ==
    LET artifact == Get(p, "peer_artifact", Text("None"))
        found == CharterViolations(artifact)
        used == [state EXCEPT !.framework_used = "charter_v7_enforcement"]
    IN IF ~IsDict(artifact)
       THEN [used EXCEPT !.refusal = "missing_or_invalid_peer_artifact"]
       ELSE [used EXCEPT !.outputs = {"verdict"}, !.body = [verdict |-> found],
                         !.refusal = IF found = {} THEN "" ELSE "charter_v7_drift_detected"]

NodeComplianceReview(p, state) ==
    LET used == [state EXCEPT !.framework_used = "compliance_review"] IN
    IF ~IsDict(Get(p, "time_window", Dict(<<>>)))
    THEN [used EXCEPT !.refusal = "invalid_time_window"]
    ELSE [used EXCEPT !.outputs = {"evidence_bundle"}, !.body = EvidenceBundle]

\* Mutant: a verdict with violations goes out as produced.
NodeFinalizeProduces(f, state) ==
    IF state.refusal \notin {"", "charter_v7_drift_detected"}
    THEN Refused(f, state.framework_used, state.refusal)
    ELSE Produced(f, state.framework_used, state.outputs, state.body)

NodeFinalize(f, state) ==
    IF state.refusal # ""
    THEN [Refused(f, state.framework_used, state.refusal)
             EXCEPT !.outputs = state.outputs, !.body = state.body]
    ELSE Produced(f, state.framework_used, state.outputs, state.body)

ComplianceGraphAnswer(f) ==
    LET p == f.payload IN
    IF ~IsDict(p) THEN Raised("AttributeError")
    ELSE NodeFinalize(f,
           CASE RouteByMode(p) = "finalize" -> NodeDispatch(p)
             [] RouteByMode(p) = "charter_v7" -> NodeCharterV7(p, NodeDispatch(p))
             [] RouteByMode(p) = "compliance_review" -> NodeComplianceReview(p, NodeDispatch(p)))

-----------------------------------------------------------------------------
(* Synthesis: synthesis_agent, household_synthesis_agent *)

ValidSynthesis(p) ==
    /\ Has(p, "request_summary") /\ Has(p, "peer_roles_to_invoke")
    /\ IsText(p.dict["request_summary"])
    /\ p.dict["request_summary"].text \notin {"", "blank"}
    /\ LET peers == p.dict["peer_roles_to_invoke"]
       IN IsList(peers) /\ peers.list # <<>> /\ \A i \in DOMAIN peers.list : IsText(peers.list[i])

\* apply_synthesis cannot look into a payload that holds nothing; the wrapper's
\* validate node calls payload.get, which only a dict has.
CannotValidate(f) == IF f.flavour = "pure" THEN IsNumber(f.payload) ELSE ~IsDict(f.payload)

\* What the wrapper refuses in its validate node, before it calls the core.
NodeValidate(p) ==
    LET summary == Get(p, "request_summary", Text(""))
        peers == Get(p, "peer_roles_to_invoke", List(<<>>))
    IN ~(IsText(summary) /\ Truthy(summary) /\ IsList(peers) /\ Truthy(peers))

PeersOf(f) == [i \in DOMAIN f.payload.dict["peer_roles_to_invoke"].list |->
                  f.payload.dict["peer_roles_to_invoke"].list[i].text]

PeerPayloads(f) == Get(f.payload, "peer_payloads", Dict(<<>>))

\* peer_payloads.get(peer) or .get on what it returns is not possible.
UnusablePayload(f, peer) ==
    ~IsDict(PeerPayloads(f)) \/ ~IsDict(Get(PeerPayloads(f), peer, Dict(<<>>)))

Unavailable(peer) == [role_id |-> peer, invoked |-> FALSE, artifact |-> <<>>]
Failed(peer) == [role_id |-> peer, invoked |-> TRUE, artifact |-> <<>>]
Returned(peer, a) == [role_id |-> peer, invoked |-> TRUE, artifact |-> <<a>>]

Outcome(r) == IF ~r.invoked THEN "NOT_INVOKED"
              ELSE IF r.artifact = <<>> THEN "NO_ARTIFACT" ELSE r.artifact[1].status

IntegrateFindings(results) == [i \in DOMAIN results |-> <<results[i].role_id, Outcome(results[i])>>]

With(results, outcome) == {results[i].role_id : i \in {j \in DOMAIN results : Outcome(results[j]) = outcome}}

SurfaceTensions(results) ==
    LET refused == With(results, "refused")
        produced == With(results, "produced")
        missing == With(results, "NOT_INVOKED")
    IN (IF refused # {} /\ produced # {} THEN {<<"partial_synthesis", produced, refused>>} ELSE {})
       \cup (IF missing # {} THEN {<<"missing_peers", missing>>} ELSE {})

Brief(f) == [peer_results |-> f.results, integrated_findings |-> IntegrateFindings(f.results),
             tensions_surfaced |-> SurfaceTensions(f.results)]

-----------------------------------------------------------------------------
(* RoleArtifactCritic.review *)

RequiredTopLevelKeys == {"role_id", "framework", "status", "principal_id", "request_id"}

\* invocation_envelope.outputs_produced of the shipped role_spec.yaml files.
OutputsProduced(r) ==
    CASE r \in {"cfo_agent", "family_cfo_agent"} -> {"forecast_artifact"}
      [] r = "compliance_agent" ->
            {"compliance_review_verdict", "evidence_bundle", "least_authority_report"}
      [] r = "synthesis_agent" -> {"executive_brief"}
      [] r = "family_compliance_shield" -> {"audit_artifact"}
      [] r = "household_synthesis_agent" -> {"household_brief"}

ArtifactKeyHints == {"forecast_artifact", "executive_brief", "evidence_bundle",
                     "least_authority_report", "verdict", "compliance_review_verdict"}

\* The artifact misses a part of the contract (DEFECT), or is another one's (DRIFT).
Review(r, a, principal, path) ==
    IF ~(RequiredTopLevelKeys \subseteq DOMAIN a) THEN "DEFECT"
    ELSE IF a.role_id # r THEN "DRIFT"
    ELSE IF a.status \notin {"produced", "refused"} THEN "DEFECT"
    ELSE IF a.principal_id # principal \/ a.request_id # path THEN "DRIFT"
    ELSE IF a.status = "produced" /\ a.outputs \cap (OutputsProduced(r) \cup ArtifactKeyHints) = {}
         THEN "DRIFT"
    ELSE IF a.status = "refused" /\ a.refusal_reason = "" THEN "DEFECT"
    ELSE "CONFORMS"

-----------------------------------------------------------------------------
(* The state machine *)

Init ==
    /\ registry = {}
    /\ handlers = <<>>
    /\ stack = <<>>
    /\ request = <<>>
    /\ answer = <<>>
    /\ told = {}

\* register_from_yaml raises on a role that is registered already.
RegisterDemo2Roles ==
    /\ stack = <<>> /\ answer = <<>> /\ registry \cap Exec = {}
    /\ registry' = registry \cup Exec
    /\ UNCHANGED <<handlers, stack, request, answer, told>>

RegisterFamilyRoles ==
    /\ stack = <<>> /\ answer = <<>> /\ registry \cap Family = {}
    /\ registry' = registry \cup Family
    /\ UNCHANGED <<handlers, stack, request, answer, told>>

Wire(table) ==
    /\ handlers = <<>>
    /\ handlers' = table
    /\ UNCHANGED <<registry, stack, request, answer, told>>

Frame(r, principal, path, p) ==
    [role |-> r, flavour |-> handlers[r], principal |-> principal, path |-> path,
     payload |-> p, results |-> <<>>]

\* Mutant: a call starts while the last one's answer is still on its way.
CallEarly(r, p) ==
    /\ stack = <<>>
    /\ r \in registry \cap DOMAIN handlers
    /\ request' = <<[role |-> r, payload |-> p]>>
    /\ stack' = <<Frame(r, Principal, <<r>>, p)>>
    /\ UNCHANGED <<registry, handlers, answer, told>>

\* route_request calls the handler of a role that is registered and wired.
Call(r, p) ==
    /\ stack = <<>> /\ answer = <<>>
    /\ r \in registry \cap DOMAIN handlers
    /\ request' = <<[role |-> r, payload |-> p]>>
    /\ stack' = <<Frame(r, Principal, <<r>>, p)>>
    /\ UNCHANGED <<registry, handlers, answer, told>>

\* What a role answered to a request of its own or of a synthesis above it.
Said(r, p, path, a) == [role |-> r, payload |-> p, path |-> path, answer |-> a]

Top == stack[Len(stack)]
Below == SubSeq(stack, 1, Len(stack) - 1)

\* Mutant: what a peer raises is not caught.
LeaveUncaught(a) ==
    LET out == Overlay(Top, a)
    IN /\ IF Len(stack) = 1 \/ IsRaised(out)
          THEN stack' = <<>> /\ answer' = <<out>>
          ELSE /\ stack' = [Below EXCEPT ![Len(stack) - 1].results =
                     Append(@, Returned(Top.role, out))]
               /\ UNCHANGED answer
       /\ told' = IF IsRaised(out) THEN told
                  ELSE told \cup {Said(Top.role, Top.payload, Top.path, out)}
       /\ UNCHANGED <<registry, handlers, request>>

\* The innermost process() returns or raises; a synthesis frame below takes what
\* its peer returned, or catches what it raised.
Leave(a) ==
    LET out == Overlay(Top, a)
        peer == Top.role
    IN /\ IF Len(stack) = 1
          THEN stack' = <<>> /\ answer' = <<out>>
          ELSE /\ stack' = [Below EXCEPT ![Len(stack) - 1].results =
                     Append(@, IF IsRaised(out) THEN Failed(peer) ELSE Returned(peer, out))]
               /\ UNCHANGED answer
       /\ told' = IF IsRaised(out) THEN told
                  ELSE told \cup {Said(Top.role, Top.payload, Top.path, out)}
       /\ UNCHANGED <<registry, handlers, request>>

AnswerForecast ==
    /\ stack # <<>> /\ Core(Top.role) = "cfo_agent"
    /\ Leave(IF Top.flavour = "pure" THEN ForecastAnswer(Top) ELSE ForecastGraphAnswer(Top))

AnswerCompliance ==
    /\ stack # <<>> /\ Core(Top.role) = "compliance_agent"
    /\ Leave(IF Top.flavour = "pure" THEN ComplianceAnswer(Top) ELSE ComplianceGraphAnswer(Top))

Synthesizing == stack # <<>> /\ Core(Top.role) = "synthesis_agent"

SynthesisRaises ==
    /\ Synthesizing /\ CannotValidate(Top)
    /\ Leave(Raised("payload"))

SynthesisRefuses ==
    /\ Synthesizing /\ ~CannotValidate(Top)
    /\ ~ValidSynthesis(Top.payload) \/ (Top.flavour = "graph" /\ NodeValidate(Top.payload))
    /\ Leave(Refused(Top, "SYNTHESIS", "invalid_synthesis_inputs"))

Orchestrating == Synthesizing /\ ~CannotValidate(Top) /\ ValidSynthesis(Top.payload)

NextPeer == PeersOf(Top)[Len(Top.results) + 1]
PeersLeft == Orchestrating /\ Len(Top.results) < Len(PeersOf(Top))
Available(r) == DOMAIN PeerHandlers(r, handlers)

BuildPeerRequest(f, peer) ==
    Frame(peer, f.principal, Append(f.path, peer),
          Get(Get(PeerPayloads(f), peer, Dict(<<>>)), "payload", Dict(<<>>)))

\* Mutants: an unavailable peer is struck from the list without a word in the brief;
\* the loop does not move past it.
SkipPeerSilently ==
    /\ PeersLeft /\ NextPeer \notin Available(Top.role)
    /\ stack' = [stack EXCEPT ![Len(stack)].payload.dict["peer_roles_to_invoke"].list =
                     SelectSeq(@, LAMBDA q : q.text # NextPeer)]
    /\ UNCHANGED <<registry, handlers, request, answer, told>>
SkipPeerForever ==
    /\ PeersLeft /\ NextPeer \notin Available(Top.role)
    /\ UNCHANGED vars

SkipPeer ==
    /\ PeersLeft /\ NextPeer \notin Available(Top.role)
    /\ stack' = [stack EXCEPT ![Len(stack)].results = Append(@, Unavailable(NextPeer))]
    /\ UNCHANGED <<registry, handlers, request, answer, told>>

\* The lookup of the peer's payload is outside the try: what it raises ends the synthesis.
PeerPayloadRaises ==
    /\ PeersLeft /\ NextPeer \in Available(Top.role) /\ UnusablePayload(Top, NextPeer)
    /\ Leave(Raised("payload"))

InvokePeer ==
    /\ PeersLeft /\ NextPeer \in Available(Top.role) /\ ~UnusablePayload(Top, NextPeer)
    /\ stack' = Append(stack, BuildPeerRequest(Top, NextPeer))
    /\ UNCHANGED <<registry, handlers, request, answer, told>>

Integrate ==
    /\ Orchestrating /\ Len(Top.results) = Len(PeersOf(Top))
    /\ Leave(Produced(Top, "SYNTHESIS", {"executive_brief"}, [brief |-> Brief(Top)]))

Serve == \/ AnswerForecast \/ AnswerCompliance \/ SynthesisRaises \/ SynthesisRefuses
         \/ SkipPeer \/ PeerPayloadRaises \/ InvokePeer \/ Integrate

\* The caller has its answer; the next request finds the process as it was wired.
Release ==
    /\ answer # <<>>
    /\ request' = <<>> /\ answer' = <<>> /\ told' = {}
    /\ UNCHANGED <<registry, handlers, stack>>

Next == \/ RegisterDemo2Roles \/ RegisterFamilyRoles
        \/ \E table \in Factories : Wire(table)
        \/ \E r \in RoleIds, p \in Payloads : Call(r, p)
        \/ Serve \/ Release

\* A handler that was called runs: process() is synchronous and waits for nothing.
Spec == Init /\ [][Next]_vars /\ WF_vars(Serve)

-----------------------------------------------------------------------------
(* Properties *)

TypeOK ==
    /\ registry \subseteq RoleIds
    /\ handlers = <<>> \/ handlers \in Factories
    /\ \A i \in DOMAIN stack : /\ stack[i].role \in RoleIds
                               /\ stack[i].flavour \in {"pure", "graph"}
    /\ stack # <<>> => request # <<>> /\ answer = <<>>
    /\ answer # <<>> => request # <<>>

\* What the request of a synthesis holds for one of its peers.
PayloadFor(p, q) ==
    Get(Get(Get(p, "peer_payloads", Dict(<<>>)), q, Dict(<<>>)), "payload", Dict(<<>>))

\* An answer is the role's own and carries the caller and the request it answers.  A
\* brief lists every requested peer in the requested order and says of each whether it
\* was called; what it says a peer returned is what that peer answered, in this call, to
\* the request derived for it.
Truthful(s) ==
    /\ s.answer.role_id = s.role
    /\ s.answer.principal_id = Principal /\ s.answer.request_id = s.path
    /\ "brief" \in DOMAIN s.answer.body =>
         LET asked == s.payload.dict["peer_roles_to_invoke"].list
             results == s.answer.body.brief.peer_results
         IN /\ Len(results) = Len(asked)
            /\ Len(s.answer.body.brief.integrated_findings) = Len(asked)
            /\ \A i \in DOMAIN asked :
                 LET q == asked[i].text IN
                 /\ results[i].role_id = q
                 /\ results[i].invoked <=> q \in Available(s.role)
                 /\ results[i].artifact # <<>> =>
                      Said(q, PayloadFor(s.payload, q), Append(s.path, q),
                           results[i].artifact[1]) \in told

\* No peer is silenced and nobody's answer is taken for another's, at any depth of
\* nested syntheses (apply_synthesis, _invoke_peer, _build_peer_request).
BriefsTruthful ==
    /\ \A s \in told : Truthful(s)
    /\ answer # <<>> /\ ~IsRaised(answer[1]) =>
         Said(request[1].role, request[1].payload, <<request[1].role>>, answer[1]) \in told

\* What a shipped handler returns passes the platform's own Critic, refusals included:
\* the handlers, the role specs and the Critic's key hints agree with one another.
AnswersConform ==
    answer # <<>> /\ ~IsRaised(answer[1]) =>
        Review(request[1].role, answer[1], Principal, <<request[1].role>>) = "CONFORMS"

\* A household synthesis never reaches an executive handler, whatever peers it is asked
\* for and however deep the chain of syntheses that led to it.
HouseholdStaysHome ==
    \A i, j \in DOMAIN stack :
        i < j /\ stack[i].role = "household_synthesis_agent" => stack[j].role \in Family

\* A peer that raises never takes the synthesis that called it down: what reaches the
\* caller as an exception is the fault of the request's own payload at the first level.
RaisesAreOwn ==
    answer # <<>> /\ IsRaised(answer[1]) =>
        LET r == request[1].role
            p == request[1].payload
        IN \/ Core(r) = "cfo_agent" /\ ~InvalidForecast(p) /\ Breaks(p)
           \/ /\ Core(r) = "synthesis_agent"
              /\ \E q \in Available(r) : ~IsDict(Get(p, "peer_payloads", Dict(<<>>)))
                                         \/ ~IsDict(Get(p.dict["peer_payloads"], q, Dict(<<>>)))

Similar(a, b) ==
    \/ a = b
    \/ /\ ~IsRaised(a) /\ ~IsRaised(b)
       /\ a.status = "refused" /\ DOMAIN a = DOMAIN b
       /\ \A part \in DOMAIN a \ {"framework"} : a[part] = b[part]

\* The LangGraph wrapper of a role answers a dict payload as the plain class does, but
\* for the framework a refusal names.
FlavoursAgree ==
    stack # <<>> /\ IsDict(Top.payload) =>
        CASE Core(Top.role) = "cfo_agent" -> Similar(ForecastAnswer(Top), ForecastGraphAnswer(Top))
          [] Core(Top.role) = "compliance_agent" ->
                Similar(ComplianceAnswer(Top), ComplianceGraphAnswer(Top))
          [] OTHER -> NodeValidate(Top.payload) => ~ValidSynthesis(Top.payload)

\* Every call of a handler ends: syntheses that name one another, or themselves, run out
\* of nested payloads.
CallsEnd == (stack # <<>>) ~> (answer # <<>>)
=============================================================================
