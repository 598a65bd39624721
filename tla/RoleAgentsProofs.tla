-------------------------- MODULE RoleAgentsProofs --------------------------
(***************************************************************************)
(* Proofs about RoleAgents, for every caller, every set of payloads, every *)
(* drift token and every bound of the forecasts: what a call of a shipped  *)
(* handler answers, and where it may lead.                                 *)
(***************************************************************************)
EXTENDS RoleAgents, Integers, SequenceTheorems, TLAPS

-----------------------------------------------------------------------------
(* Handlers *)

\* Each factory makes handlers of one flavour for one family of roles or for all.
LEMMA FactoryShape ==
    ASSUME NEW table \in Factories
    PROVE  /\ DOMAIN table \in {Exec, Family, RoleIds}
           /\ \A r \in DOMAIN table : table[r] \in {"pure", "graph"}
           /\ Family \subseteq DOMAIN table \/ Family \cap DOMAIN table = {}
BY DEF Factories, CreateDemo2Handlers, CreateFamilyHandlers, CreateFullHandlers,
       CreateDemo2GraphHandlers, CreateFamilyGraphHandlers, CreateFullGraphHandlers,
       Updated, RoleIds, Exec, Family

\* The peers a wired role may call are wired, and a family role's are family roles.
LEMMA PeersWired ==
    ASSUME handlers \in Factories, NEW r \in DOMAIN handlers
    PROVE  /\ Available(r) \subseteq DOMAIN handlers
           /\ r \in Family => Available(r) = Family
<1>1. Family \subseteq DOMAIN handlers \/ Family \cap DOMAIN handlers = {}
  BY FactoryShape
<1>2. CASE r \in Family
  BY <1>1, <1>2 DEF Available, PeerHandlers
<1>3. CASE r \notin Family
  BY <1>3 DEF Available, PeerHandlers
<1> QED
  BY <1>2, <1>3

-----------------------------------------------------------------------------
(* Answers *)

\* A record a handler gives, before its family overlay.
IsAnswer(f, a) ==
    /\ DOMAIN a = {"role_id", "framework", "status", "principal_id", "request_id",
                   "refusal_reason", "outputs", "body"}
    /\ a.role_id = AnswersAs(f) /\ a.principal_id = f.principal /\ a.request_id = f.path
    /\ \/ /\ a.status = "produced"
          /\ a.outputs \cap {"forecast_artifact", "verdict", "evidence_bundle",
                             "executive_brief"} # {}
       \/ a.status = "refused" /\ a.refusal_reason # ""

\* What an answer is after the overlay.
Conforms(f, a) ==
    /\ ~IsRaised(a)
    /\ a.role_id = f.role /\ a.principal_id = f.principal /\ a.request_id = f.path
    /\ Review(f.role, a, f.principal, f.path) = "CONFORMS"

LEMMA RaisedIs == ASSUME NEW e PROVE IsRaised(Raised(e))
BY DEF IsRaised, Raised

LEMMA AnswerNotRaised ==
    ASSUME NEW f, NEW a, IsAnswer(f, a)
    PROVE  ~IsRaised(a)
BY DEF IsAnswer, IsRaised

\* The overlay puts the role's name on the answer, and the critic has nothing to say.
LEMMA OverlayConforms ==
    ASSUME NEW f, NEW a, IsAnswer(f, a)
    PROVE  Conforms(f, Overlay(f, a)) /\ Overlay(f, a).body = a.body
<1> DEFINE out == Overlay(f, a)
<1>1. out = [a EXCEPT !.role_id = f.role]
  BY AnswerNotRaised DEF Overlay
<1>2. /\ DOMAIN out = DOMAIN a
      /\ out.role_id = f.role /\ out.principal_id = f.principal /\ out.request_id = f.path
      /\ out.status = a.status /\ out.outputs = a.outputs
      /\ out.refusal_reason = a.refusal_reason /\ out.body = a.body
  BY <1>1 DEF IsAnswer
<1> HIDE DEF out
<1>3. ~IsRaised(out) /\ RequiredTopLevelKeys \subseteq DOMAIN out
  <2>1. DOMAIN out = {"role_id", "framework", "status", "principal_id", "request_id",
                      "refusal_reason", "outputs", "body"}
    BY <1>2 DEF IsAnswer
  <2>2. ~IsRaised(out)
    BY <2>1 DEF IsRaised
  <2> QED
    BY <2>1, <2>2 DEF RequiredTopLevelKeys
<1>4. Review(f.role, out, f.principal, f.path) = "CONFORMS"
  <2>2. CASE a.status = "produced"
    <3>1. out.outputs \cap (OutputsProduced(f.role) \cup ArtifactKeyHints) # {}
      BY <1>2, <2>2 DEF IsAnswer, ArtifactKeyHints
    <3> QED
      BY <1>2, <1>3, <2>2, <3>1 DEF Review
  <2>3. CASE a.status = "refused"
    BY <1>2, <1>3, <2>3 DEF Review, IsAnswer
  <2> QED
    BY <2>2, <2>3 DEF IsAnswer
<1> QED
  BY <1>2, <1>3, <1>4 DEF Conforms, out

LEMMA RefusedIsAnswer ==
    ASSUME NEW f, NEW framework, NEW why, why # ""
    PROVE  IsAnswer(f, Refused(f, framework, why))
BY DEF IsAnswer, Refused

LEMMA ProducedIsAnswer ==
    ASSUME NEW f, NEW framework, NEW outputs, NEW body,
           outputs \cap {"forecast_artifact", "verdict", "evidence_bundle",
                         "executive_brief"} # {}
    PROVE  /\ IsAnswer(f, Produced(f, framework, outputs, body))
           /\ Produced(f, framework, outputs, body).body = body
BY DEF IsAnswer, Produced
-----------------------------------------------------------------------------
(* The inductive invariant *)

\* The handlers a role of the wired table may call.
Peers(r, table) == DOMAIN PeerHandlers(r, table)

\* A frame of a wired role that serves the caller with a document of the request.
IsFrame(f, table) ==
    /\ DOMAIN f = {"role", "flavour", "principal", "path", "payload", "results"}
    /\ f.role \in DOMAIN table /\ f.flavour = table[f.role]
    /\ f.principal = Principal
    /\ f.payload \in Values
    /\ f.results \in Seq(Items(f.results))

\* The frame is in apply_synthesis, past the checks of its inputs.
Orchestrates(f) ==
    Core(f.role) = "synthesis_agent" /\ ~CannotValidate(f) /\ ValidSynthesis(f.payload)

\* A peer's result is that of a call of q, or says that there was none.
ResultHolds(f, q, r, table, said) ==
    /\ r.role_id = q
    /\ r.invoked <=> q \in Peers(f.role, table)
    /\ r.artifact # <<>> =>
          Said(q, PayloadFor(f.payload, q), Append(f.path, q), r.artifact[1]) \in said

\* The results of a frame are those of the first peers it was asked for.
ResultsHold(f, table, said) ==
    \/ f.results = <<>>
    \/ /\ Orchestrates(f) /\ Len(f.results) <= Len(PeersOf(f))
       /\ \A i \in 1..Len(f.results) :
             ResultHolds(f, PeersOf(f)[i], f.results[i], table, said)

\* g serves the peer request f waits for.
Serves(f, g, table) ==
    /\ Orchestrates(f) /\ Len(f.results) < Len(PeersOf(f))
    /\ g.role = PeersOf(f)[Len(f.results) + 1] /\ g.role \in Peers(f.role, table)
    /\ g.path = Append(f.path, g.role)
    /\ g.payload = PayloadFor(f.payload, g.role)

WiredInv ==
    /\ registry \subseteq RoleIds
    /\ handlers = <<>> \/ handlers \in Factories
    /\ stack # <<>> => request # <<>> /\ answer = <<>>
    /\ answer # <<>> => request # <<>> /\ stack = <<>>
    /\ told # {} => request # <<>>
    /\ request # <<>> => /\ request[1].role \in DOMAIN handlers
                        /\ request[1].payload \in Payloads

StackInv ==
    /\ stack \in Seq(Items(stack))
    /\ \A i \in 1..Len(stack) : /\ IsFrame(stack[i], handlers)
                                /\ ResultsHold(stack[i], handlers, told)
    /\ \A i \in 1..(Len(stack) - 1) : Serves(stack[i], stack[i + 1], handlers)
    /\ stack # <<>> => /\ stack[1].role = request[1].role
                      /\ stack[1].payload = request[1].payload
                      /\ stack[1].path = <<request[1].role>>

Inv ==
    /\ WiredInv /\ StackInv /\ HouseholdStaysHome
    /\ BriefsTruthful /\ AnswersConform /\ RaisesAreOwn

-----------------------------------------------------------------------------
(* What the handlers give back *)

\* The request itself is at fault for what r raises at the payload p.
OwnFault(r, p) ==
    \/ Core(r) = "cfo_agent" /\ ~InvalidForecast(p) /\ Breaks(p)
    \/ /\ Core(r) = "synthesis_agent"
       /\ \E q \in Available(r) : ~IsDict(Get(p, "peer_payloads", Dict(<<>>)))
                                  \/ ~IsDict(Get(p.dict["peer_payloads"], q, Dict(<<>>)))

\* An answer with a brief closes an orchestration that heard every peer.
BriefIsWhole(f, a) ==
    "brief" \in DOMAIN a.body =>
        /\ Orchestrates(f) /\ Len(f.results) = Len(PeersOf(f))
        /\ a.body.brief = Brief(f)

\* What the frame f may leave with.
Fits(f, a) ==
    \/ IsRaised(a) /\ (DOMAIN f.payload = {"dict"} => OwnFault(f.role, f.payload))
    \/ IsAnswer(f, a) /\ BriefIsWhole(f, a)

LEMMA RefusedFits ==
    ASSUME NEW f, NEW framework, NEW why, why # ""
    PROVE  Fits(f, Refused(f, framework, why))
<1>1. IsAnswer(f, Refused(f, framework, why))
  BY RefusedIsAnswer
<1>2. "brief" \notin DOMAIN Refused(f, framework, why).body
  BY DEF Refused
<1> QED
  BY <1>1, <1>2 DEF Fits, BriefIsWhole

\* A refusal that carries a verdict or what a node left.
LEMMA RefusedWithFits ==
    ASSUME NEW f, NEW framework, NEW why, why # "", NEW outputs, NEW body,
           "brief" \notin DOMAIN body
    PROVE  Fits(f, [Refused(f, framework, why) EXCEPT !.outputs = outputs, !.body = body])
<1> DEFINE a == [Refused(f, framework, why) EXCEPT !.outputs = outputs, !.body = body]
<1>1. IsAnswer(f, a) /\ a.body = body
  BY DEF IsAnswer, Refused
<1> QED
  BY <1>1 DEF Fits, BriefIsWhole

LEMMA ProducedFits ==
    ASSUME NEW f, NEW framework, NEW outputs, NEW body, "brief" \notin DOMAIN body,
           outputs \cap {"forecast_artifact", "verdict", "evidence_bundle",
                         "executive_brief"} # {}
    PROVE  Fits(f, Produced(f, framework, outputs, body))
BY ProducedIsAnswer DEF Fits, BriefIsWhole

LEMMA RaisedFits ==
    ASSUME NEW f, NEW e, DOMAIN f.payload = {"dict"} => OwnFault(f.role, f.payload)
    PROVE  Fits(f, Raised(e))
BY RaisedIs DEF Fits

\* A forecast that raises took its inputs for valid.
LEMMA ForecastFits ==
    ASSUME NEW f, Core(f.role) = "cfo_agent"
    PROVE  Fits(f, ForecastAnswer(f)) /\ Fits(f, ForecastGraphAnswer(f))
<1>1. Fits(f, ForecastAnswer(f))
  <2>1. CASE ApplyForecast(f.payload) = "raises"
    <3>1. DOMAIN f.payload = {"dict"} => OwnFault(f.role, f.payload)
      <4>1. ASSUME DOMAIN f.payload = {"dict"} PROVE ~IsNumber(f.payload)
        BY <4>1 DEF IsNumber
      <4> QED
        BY <2>1, <4>1 DEF ApplyForecast, OwnFault
    <3> QED
      BY <2>1, <3>1, RaisedFits DEF ForecastAnswer
  <2>2. CASE ApplyForecast(f.payload) = "refuses"
    BY <2>2, RefusedFits DEF ForecastAnswer
  <2>3. CASE ApplyForecast(f.payload) = "returns"
    <3>1. "brief" \notin DOMAIN [nothing |-> TRUE]
      OBVIOUS
    <3> QED
      BY <2>3, <3>1, ProducedFits DEF ForecastAnswer
  <2> QED
    BY <2>1, <2>2, <2>3 DEF ApplyForecast
<1> QED
  BY <1>1, RefusedFits DEF ForecastGraphAnswer

LEMMA VerdictHasNoBrief ==
    ASSUME NEW found
    PROVE  /\ "brief" \notin DOMAIN [verdict |-> found]
           /\ "brief" \notin DOMAIN [nothing |-> found]
OBVIOUS

LEMMA BundleHasNoBrief == "brief" \notin DOMAIN EvidenceBundle
BY DEF EvidenceBundle

\* A review of a payload that is a dict never raises.
LEMMA ComplianceFits ==
    ASSUME NEW f
    PROVE  Fits(f, ComplianceAnswer(f))
<1> DEFINE p == f.payload
           mode == Get(p, "mode", Text("None"))
           artifact == Get(p, "peer_artifact", Text("None"))
           found == CharterViolations(artifact)
<1>1. CASE ~IsDict(p)
  <2>1. ~(DOMAIN f.payload = {"dict"})
    BY <1>1 DEF IsDict
  <2> QED
    BY <1>1, <2>1, RaisedFits DEF ComplianceAnswer
<1>2. CASE IsDict(p) /\ mode \notin ValidModes
  <2>1. ComplianceAnswer(f) = Refused(f, "AUDIT", "unknown_mode")
    BY <1>2 DEF ComplianceAnswer, ValidModes
  <2> QED
    BY <2>1, RefusedFits
<1>3. CASE IsDict(p) /\ mode = Text("charter_v7_review")
  <2>1. ComplianceAnswer(f) = IF ~IsDict(artifact)
                              THEN Refused(f, "AUDIT", "missing_or_invalid_peer_artifact")
                              ELSE CharterAnswer(f, artifact)
    BY <1>3 DEF ComplianceAnswer, ValidModes, Text
  <2>2. Fits(f, CharterAnswer(f, artifact))
    BY RefusedWithFits, ProducedFits, VerdictHasNoBrief DEF CharterAnswer
  <2> QED
    BY <2>1, <2>2, RefusedFits
<1>4. CASE IsDict(p) /\ mode = Text("compliance_review")
  <2>1. ComplianceAnswer(f) =
            IF ~IsDict(Get(p, "time_window", Dict(<<>>)))
            THEN Refused(f, "AUDIT", "invalid_time_window")
            ELSE Produced(f, "compliance_review", {"evidence_bundle"}, EvidenceBundle)
    BY <1>4 DEF ComplianceAnswer, ValidModes, Text
  <2> QED
    BY <2>1, RefusedFits, ProducedFits, BundleHasNoBrief
<1> QED
  BY <1>1, <1>2, <1>3, <1>4 DEF ValidModes

LEMMA ComplianceGraphFits ==
    ASSUME NEW f
    PROVE  Fits(f, ComplianceGraphAnswer(f))
<1> DEFINE p == f.payload
           mode == Get(p, "mode", Text("None"))
           artifact == Get(p, "peer_artifact", Text("None"))
           found == CharterViolations(artifact)
<1>1. CASE ~IsDict(p)
  <2>1. ~(DOMAIN f.payload = {"dict"})
    BY <1>1 DEF IsDict
  <2> QED
    BY <1>1, <2>1, RaisedFits DEF ComplianceGraphAnswer
<1>2. CASE IsDict(p) /\ RouteByMode(p) = "finalize"
  <2> DEFINE state == NodeDispatch(p)
  <2>1. /\ state.refusal = "unknown_mode" /\ state.body = [nothing |-> TRUE]
        /\ state.outputs = {}
    BY <1>2 DEF NodeDispatch
  <2> HIDE DEF state
  <2>2. Fits(f, NodeFinalize(f, state))
    BY <2>1, RefusedWithFits, VerdictHasNoBrief DEF NodeFinalize
  <2> QED
    BY <1>2, <2>2 DEF ComplianceGraphAnswer, state
<1>3. CASE IsDict(p) /\ RouteByMode(p) = "charter_v7"
  <2> DEFINE state == NodeCharterV7(p, NodeDispatch(p))
  <2>1. \/ state.refusal = "missing_or_invalid_peer_artifact" /\ state.body = [nothing |-> TRUE]
        \/ /\ state.refusal \in {"", "charter_v7_drift_detected"}
           /\ state.outputs = {"verdict"} /\ state.body = [verdict |-> found]
    BY DEF NodeCharterV7, NodeDispatch
  <2> HIDE DEF state, found
  <2>2. Fits(f, NodeFinalize(f, state))
    BY <2>1, RefusedWithFits, ProducedFits, VerdictHasNoBrief DEF NodeFinalize
  <2> QED
    BY <1>3, <2>2 DEF ComplianceGraphAnswer, state
<1>4. CASE IsDict(p) /\ RouteByMode(p) = "compliance_review"
  <2> DEFINE state == NodeComplianceReview(p, NodeDispatch(p))
  <2>0. NodeDispatch(p).refusal = ""
    BY <1>4 DEF NodeDispatch
  <2>1. \/ state.refusal = "invalid_time_window" /\ state.body = [nothing |-> TRUE]
        \/ /\ state.refusal = "" /\ state.outputs = {"evidence_bundle"}
           /\ state.body = EvidenceBundle
    BY <2>0 DEF NodeComplianceReview, NodeDispatch
  <2> HIDE DEF state
  <2>2. Fits(f, NodeFinalize(f, state))
    BY <2>1, RefusedWithFits, ProducedFits, VerdictHasNoBrief, BundleHasNoBrief DEF NodeFinalize
  <2> QED
    BY <1>4, <2>2 DEF ComplianceGraphAnswer, state
<1>5. RouteByMode(p) \in {"finalize", "charter_v7", "compliance_review"}
  BY DEF RouteByMode, ValidModes
<1> QED
  BY <1>1, <1>2, <1>3, <1>4, <1>5

\* A synthesis raises when it cannot look into its own payload, and no dict is like that.
LEMMA SynthesisRaisesFits ==
    ASSUME NEW f, CannotValidate(f)
    PROVE  Fits(f, Raised("payload"))
<1>1. ~(DOMAIN f.payload = {"dict"})
  BY DEF CannotValidate, IsNumber, IsDict
<1> QED
  BY <1>1, RaisedFits

\* A peer's payload that cannot be looked up is the fault of the synthesis's own request.
LEMMA PeerPayloadFits ==
    ASSUME NEW f, Orchestrates(f), NEW q \in Available(f.role), UnusablePayload(f, q)
    PROVE  Fits(f, Raised("payload"))
<1> DEFINE p == f.payload
<1>1. IsDict(Dict(<<>>))
  BY DEF IsDict, Dict
<1>2. CASE Has(p, "peer_payloads")
  <2>1. PeerPayloads(f) = p.dict["peer_payloads"]
    BY <1>2 DEF PeerPayloads, Get
  <2> QED
    BY <2>1, RaisedFits DEF UnusablePayload, OwnFault, Orchestrates, PeerPayloads
<1>3. CASE ~Has(p, "peer_payloads")
  <2>1. PeerPayloads(f) = Dict(<<>>)
    BY <1>3 DEF PeerPayloads, Get
  <2>2. ~Has(Dict(<<>>), q)
    BY DEF Has, Dict
  <2>3. IsDict(Get(PeerPayloads(f), q, Dict(<<>>)))
    BY <1>1, <2>1, <2>2 DEF Get
  <2> QED
    BY <1>1, <2>1, <2>3 DEF UnusablePayload
<1> QED
  BY <1>2, <1>3

LEMMA BriefFits ==
    ASSUME NEW f, Orchestrates(f), Len(f.results) = Len(PeersOf(f))
    PROVE  Fits(f, Produced(f, "SYNTHESIS", {"executive_brief"}, [brief |-> Brief(f)]))
<1> DEFINE body == [brief |-> Brief(f)]
<1>1. /\ IsAnswer(f, Produced(f, "SYNTHESIS", {"executive_brief"}, body))
      /\ Produced(f, "SYNTHESIS", {"executive_brief"}, body).body = body
  BY ProducedIsAnswer
<1> QED
  BY <1>1 DEF Fits, BriefIsWhole

-----------------------------------------------------------------------------
(* Sequences and documents *)

LEMMA OwnItems ==
    ASSUME NEW S, NEW q \in Seq(S)
    PROVE  q \in Seq(Items(q))
<1>1. q = [i \in 1..Len(q) |-> q[i]] /\ Len(q) \in Nat /\ DOMAIN q = 1..Len(q)
  OBVIOUS
<1>2. \A i \in 1..Len(q) : q[i] \in Items(q)
  BY <1>1 DEF Items
<1> QED
  BY <1>1, <1>2, SeqDef

\* A frame's results after one more.
LEMMA OneMore ==
    ASSUME NEW q, q \in Seq(Items(q)), NEW x
    PROVE  /\ Append(q, x) \in Seq(Items(Append(q, x)))
           /\ Len(q) \in Nat /\ Len(Append(q, x)) = Len(q) + 1
           /\ \A i \in 1..Len(q) : Append(q, x)[i] = q[i]
           /\ Append(q, x)[Len(q) + 1] = x
           /\ Append(q, x) # <<>>
<1> DEFINE S == Items(q) \cup {x}
<1>1. q \in Seq(S)
  <2>1. q = [i \in 1..Len(q) |-> q[i]] /\ Len(q) \in Nat /\ DOMAIN q = 1..Len(q)
    OBVIOUS
  <2>2. \A i \in 1..Len(q) : q[i] \in S
    BY <2>1 DEF Items
  <2> QED
    BY <2>1, <2>2, SeqDef
<1>2. x \in S
  OBVIOUS
<1> HIDE DEF S
<1>3. /\ Append(q, x) \in Seq(S) /\ Len(Append(q, x)) = Len(q) + 1
      /\ \A i \in 1..Len(q) : Append(q, x)[i] = q[i]
      /\ Append(q, x)[Len(q) + 1] = x
  BY <1>1, <1>2, AppendProperties
<1>4. Append(q, x) \in Seq(Items(Append(q, x)))
  BY <1>3, OwnItems
<1>5. Len(q) \in Nat
  BY <1>1
<1>6. Append(q, x) # <<>>
  BY <1>3, <1>5
<1> QED
  BY <1>3, <1>4, <1>5, <1>6

\* The stack without its last frame.
LEMMA ButLast ==
    ASSUME NEW q, q \in Seq(Items(q)), q # <<>>
    PROVE  LET rest == SubSeq(q, 1, Len(q) - 1)
           IN /\ rest \in Seq(Items(rest))
              /\ Len(q) \in Nat \ {0} /\ Len(rest) = Len(q) - 1
              /\ \A i \in 1..(Len(q) - 1) : rest[i] = q[i]
<1> DEFINE S == Items(q)
           rest == SubSeq(q, 1, Len(q) - 1)
<1> HIDE DEF S
<1>0. q \in Seq(S) /\ Len(q) \in Nat \ {0}
  BY DEF S
<1>1. /\ rest \in Seq(S) /\ Len(rest) = Len(q) - 1
      /\ \A i \in 1..(Len(q) - 1) : rest[i] = q[i]
  <2> DEFINE n == Len(q) - 1
  <2>1. n \in Nat /\ \A i \in 1..n : q[i] \in S
    BY <1>0
  <2> HIDE DEF n
  <2>2. /\ SubSeq(q, 1, n) \in Seq(S)
        /\ Len(SubSeq(q, 1, n)) = IF 1 <= n THEN n - 1 + 1 ELSE 0
        /\ \A i \in 1..(n - 1 + 1) : SubSeq(q, 1, n)[i] = q[1 + i - 1]
    BY <2>1, SubSeqProperties
  <2>3. /\ Len(SubSeq(q, 1, n)) = n
        /\ \A i \in 1..n : SubSeq(q, 1, n)[i] = q[i]
    BY <2>1, <2>2
  <2> QED
    BY <2>2, <2>3 DEF n
<1>2. rest \in Seq(Items(rest))
  BY <1>1, OwnItems
<1> QED
  BY <1>0, <1>1, <1>2

\* The frame of position k has one more result.
Heard(q, k, x) == [q EXCEPT ![k].results = Append(@, x)]

\* The frame f after one more result.
Hears(f, x) == [f EXCEPT !.results = Append(f.results, x)]

\* h is the stack q but for its frame at k.
Changed(h, q, k, frame) ==
    /\ h \in Seq(Items(h)) /\ Len(h) = Len(q)
    /\ \A i \in 1..Len(q) : i # k => h[i] = q[i]
    /\ h[k] = frame

LEMMA HeardIs ==
    ASSUME NEW q, q \in Seq(Items(q)), NEW k \in 1..Len(q), NEW x
    PROVE  Changed(Heard(q, k, x), q, k, Hears(q[k], x))
<1> DEFINE h == Heard(q, k, x)
           S == Items(q) \cup {h[k]}
<1>1. q = [i \in 1..Len(q) |-> q[i]] /\ Len(q) \in Nat /\ DOMAIN q = 1..Len(q)
  OBVIOUS
<1>2. /\ h = [i \in 1..Len(q) |-> h[i]]
      /\ \A i \in 1..Len(q) : i # k => h[i] = q[i]
      /\ h[k] = Hears(q[k], x)
  BY <1>1 DEF Heard, Hears
<1>3. \A i \in 1..Len(q) : h[i] \in S
  BY <1>1, <1>2 DEF Items
<1> HIDE DEF h, S
<1>4. h \in Seq(S) /\ DOMAIN h = 1..Len(q)
  BY <1>1, <1>2, <1>3, SeqDef
<1>5. Len(h) = Len(q)
  BY <1>1, <1>4
<1>6. h \in Seq(Items(h))
  BY <1>4, OwnItems
<1> QED
  BY <1>2, <1>5, <1>6 DEF h, Changed

LEMMA ValuesClosed ==
    ASSUME NEW d \in Values
    PROVE  /\ \A e \in Inside(d) : e \in Values
           /\ IsList(d) => d.list \in Seq(Items(d.list))
           /\ Dict(<<>>) \in Values
BY PayloadsAssumption

\* What .get finds in a document of the request is one.
LEMMA GetIsValue ==
    ASSUME NEW d \in Values, NEW k
    PROVE  Get(d, k, Dict(<<>>)) \in Values
<1>1. CASE Has(d, k)
  <2>1. d.dict[k] \in Inside(d)
    BY <1>1 DEF Has, Inside
  <2> QED
    BY <1>1, <2>1, ValuesClosed DEF Get
<1>2. CASE ~Has(d, k)
  BY <1>2, ValuesClosed DEF Get
<1> QED
  BY <1>1, <1>2

LEMMA PayloadForIsValue ==
    ASSUME NEW p \in Values, NEW q
    PROVE  PayloadFor(p, q) \in Values
BY GetIsValue DEF PayloadFor

Asked(p) == p.dict["peer_roles_to_invoke"].list

\* The peers of a valid synthesis are the texts of a sequence.
LEMMA PeersAsked ==
    ASSUME NEW f, Orchestrates(f), f.payload \in Values
    PROVE  /\ Len(Asked(f.payload)) \in Nat
           /\ DOMAIN Asked(f.payload) = 1..Len(Asked(f.payload))
           /\ Len(PeersOf(f)) = Len(Asked(f.payload))
           /\ \A i \in 1..Len(Asked(f.payload)) : PeersOf(f)[i] = Asked(f.payload)[i].text
<1> DEFINE peers == f.payload.dict["peer_roles_to_invoke"]
<1>1. Has(f.payload, "peer_roles_to_invoke") /\ IsList(peers)
  BY DEF Orchestrates, ValidSynthesis
<1>2. peers \in Inside(f.payload)
  BY <1>1 DEF Has, Inside
<1>3. peers.list \in Seq(Items(peers.list))
  BY <1>1, <1>2, ValuesClosed
<1>4. Len(peers.list) \in Nat /\ DOMAIN peers.list = 1..Len(peers.list)
  BY <1>3
<1>5. PeersOf(f) = [i \in 1..Len(peers.list) |-> peers.list[i].text]
  BY <1>4 DEF PeersOf
<1>6. \A i \in 1..Len(peers.list) : PeersOf(f)[i] = peers.list[i].text
  BY <1>5
<1>7. Len(PeersOf(f)) = Len(peers.list)
  <2> DEFINE S == {peers.list[i].text : i \in 1..Len(peers.list)}
             n == Len(peers.list)
  <2>1. \A i \in 1..n : PeersOf(f)[i] \in S
    BY <1>6
  <2>2. PeersOf(f) = [i \in 1..n |-> PeersOf(f)[i]] /\ DOMAIN PeersOf(f) = 1..n /\ n \in Nat
    BY <1>4, <1>5
  <2> HIDE DEF S, n
  <2>3. PeersOf(f) \in Seq(S)
    BY <2>1, <2>2, SeqDef
  <2>4. DOMAIN PeersOf(f) = 1..Len(PeersOf(f)) /\ Len(PeersOf(f)) \in Nat
    BY <2>3
  <2> QED
    BY <2>2, <2>4 DEF n
<1> QED
  BY <1>4, <1>6, <1>7 DEF Asked

\* A frame that gets the result it waited for still holds what happened.
LEMMA FrameHears ==
    ASSUME NEW f, NEW table, NEW said, IsFrame(f, table), ResultsHold(f, table, said),
           Orchestrates(f), Len(f.results) < Len(PeersOf(f)),
           NEW x, ResultHolds(f, PeersOf(f)[Len(f.results) + 1], x, table, said)
    PROVE  LET g == Hears(f, x)
           IN /\ IsFrame(g, table) /\ ResultsHold(g, table, said)
              /\ g.role = f.role /\ g.payload = f.payload /\ g.path = f.path
<1> DEFINE g == Hears(f, x)
<1>1. /\ DOMAIN g = DOMAIN f
      /\ g.role = f.role /\ g.flavour = f.flavour /\ g.principal = f.principal
      /\ g.path = f.path /\ g.payload = f.payload
      /\ g.results = Append(f.results, x)
  BY DEF IsFrame, Hears
<1> HIDE DEF g
<1>2. /\ Append(f.results, x) \in Seq(Items(Append(f.results, x)))
      /\ Len(f.results) \in Nat /\ Len(g.results) = Len(f.results) + 1
      /\ \A i \in 1..Len(f.results) : g.results[i] = f.results[i]
      /\ g.results[Len(f.results) + 1] = x
  BY <1>1, OneMore DEF IsFrame
<1>3. IsFrame(g, table)
  BY <1>1, <1>2 DEF IsFrame
<1>4. Orchestrates(g) /\ PeersOf(g) = PeersOf(f)
  BY <1>1 DEF Orchestrates, CannotValidate, PeersOf
<1>5. Len(PeersOf(f)) \in Nat
  BY PeersAsked DEF IsFrame
<1>6. ASSUME NEW i \in 1..Len(g.results)
      PROVE  ResultHolds(g, PeersOf(g)[i], g.results[i], table, said)
  <2>1. CASE i \in 1..Len(f.results)
    <3>1. ResultHolds(f, PeersOf(f)[i], f.results[i], table, said)
      BY <2>1, <1>2 DEF ResultsHold
    <3> QED
      BY <1>1, <1>2, <1>4, <2>1, <3>1 DEF ResultHolds
  <2>2. CASE i = Len(f.results) + 1
    BY <1>1, <1>2, <1>4, <2>2 DEF ResultHolds
  <2> QED
    BY <1>2, <2>1, <2>2
<1>7. ResultsHold(g, table, said)
  BY <1>2, <1>4, <1>5, <1>6 DEF ResultsHold
<1> QED
  BY <1>1, <1>3, <1>7 DEF g

-----------------------------------------------------------------------------
(* What is told is true *)

\* Truthful(s), for a table of handlers and what is on record.
Truth(s, table, said) ==
    /\ s.answer.role_id = s.role
    /\ s.answer.principal_id = Principal /\ s.answer.request_id = s.path
    /\ "brief" \in DOMAIN s.answer.body =>
         LET results == s.answer.body.brief.peer_results
         IN /\ Len(results) = Len(Asked(s.payload))
            /\ Len(s.answer.body.brief.integrated_findings) = Len(Asked(s.payload))
            /\ \A i \in DOMAIN Asked(s.payload) :
                 LET q == Asked(s.payload)[i].text IN
                 /\ results[i].role_id = q
                 /\ results[i].invoked <=> q \in Peers(s.role, table)
                 /\ results[i].artifact # <<>> =>
                      Said(q, PayloadFor(s.payload, q), Append(s.path, q),
                           results[i].artifact[1]) \in said

LEMMA TruthGrows ==
    ASSUME NEW s, NEW table, NEW said, NEW more, said \subseteq more, Truth(s, table, said)
    PROVE  Truth(s, table, more)
BY DEF Truth

LEMMA ResultsHoldMore ==
    ASSUME NEW f, NEW table, NEW said, NEW more, said \subseteq more,
           ResultsHold(f, table, said)
    PROVE  ResultsHold(f, table, more)
BY DEF ResultsHold, ResultHolds

\* After the overlay an exception is still one and an answer conforms.
LEMMA OverlayFits ==
    ASSUME NEW f, NEW a, Fits(f, a)
    PROVE  \/ /\ IsRaised(Overlay(f, a))
              /\ DOMAIN f.payload = {"dict"} => OwnFault(f.role, f.payload)
           \/ Conforms(f, Overlay(f, a)) /\ BriefIsWhole(f, Overlay(f, a))
<1>1. CASE IsRaised(a) /\ (DOMAIN f.payload = {"dict"} => OwnFault(f.role, f.payload))
  BY <1>1 DEF Overlay
<1>2. CASE IsAnswer(f, a) /\ BriefIsWhole(f, a)
  BY <1>2, OverlayConforms DEF BriefIsWhole
<1> QED
  BY <1>1, <1>2 DEF Fits

\* The answer a frame leaves with is true if its results are.
LEMMA AnswerIsTrue ==
    ASSUME NEW f, NEW table, NEW said, NEW out,
           IsFrame(f, table), ResultsHold(f, table, said),
           Conforms(f, out), BriefIsWhole(f, out)
    PROVE  Truth(Said(f.role, f.payload, f.path, out), table, said)
<1> DEFINE s == Said(f.role, f.payload, f.path, out)
<1>1. /\ s.role = f.role /\ s.payload = f.payload /\ s.path = f.path /\ s.answer = out
  BY DEF Said
<1> HIDE DEF s
<1>2. /\ s.answer.role_id = s.role
      /\ s.answer.principal_id = Principal /\ s.answer.request_id = s.path
  BY <1>1 DEF Conforms, IsFrame
<1>3. ASSUME "brief" \in DOMAIN out.body
      PROVE  LET results == out.body.brief.peer_results
             IN /\ Len(results) = Len(Asked(f.payload))
                /\ Len(out.body.brief.integrated_findings) = Len(Asked(f.payload))
                /\ \A i \in DOMAIN Asked(f.payload) :
                     ResultHolds(f, Asked(f.payload)[i].text, results[i], table, said)
  <2>1. /\ Orchestrates(f) /\ Len(f.results) = Len(PeersOf(f))
        /\ out.body.brief = Brief(f)
    BY <1>3 DEF BriefIsWhole
  <2>2. /\ Len(Asked(f.payload)) \in Nat
        /\ DOMAIN Asked(f.payload) = 1..Len(Asked(f.payload))
        /\ Len(PeersOf(f)) = Len(Asked(f.payload))
        /\ \A i \in 1..Len(Asked(f.payload)) : PeersOf(f)[i] = Asked(f.payload)[i].text
    BY <2>1, PeersAsked DEF IsFrame
  <2>3. /\ out.body.brief.peer_results = f.results
        /\ out.body.brief.integrated_findings = IntegrateFindings(f.results)
    BY <2>1 DEF Brief
  <2>4. Len(IntegrateFindings(f.results)) = Len(f.results)
    <3> DEFINE n == Len(f.results)
               found == IntegrateFindings(f.results)
    <3>1. DOMAIN f.results = 1..n /\ n \in Nat
      BY DEF IsFrame
    <3>2. found = [i \in 1..n |-> found[i]] /\ DOMAIN found = 1..n
      BY <3>1 DEF IntegrateFindings
    <3> HIDE DEF n, found
    <3>3. \A i \in 1..n : found[i] \in Items(found)
      BY <3>2 DEF Items
    <3>4. found \in Seq(Items(found))
      BY <3>1, <3>2, <3>3, SeqDef
    <3>5. DOMAIN found = 1..Len(found) /\ Len(found) \in Nat
      BY <3>4
    <3> QED
      BY <3>1, <3>2, <3>5 DEF n, found
  <2>5. ASSUME NEW i \in DOMAIN Asked(f.payload)
        PROVE  ResultHolds(f, Asked(f.payload)[i].text, f.results[i], table, said)
    <3>1. i \in 1..Len(f.results) /\ PeersOf(f)[i] = Asked(f.payload)[i].text
      BY <2>1, <2>2
    <3>2. f.results # <<>>
      BY <2>2, <3>1
    <3> QED
      BY <3>1, <3>2 DEF ResultsHold
  <2> QED
    BY <2>1, <2>2, <2>3, <2>4, <2>5
<1>4. ASSUME "brief" \in DOMAIN s.answer.body,
             NEW i \in DOMAIN Asked(s.payload)
      PROVE  LET results == s.answer.body.brief.peer_results
                 q == Asked(s.payload)[i].text
             IN /\ results[i].role_id = q
                /\ results[i].invoked <=> q \in Peers(s.role, table)
                /\ results[i].artifact # <<>> =>
                     Said(q, PayloadFor(s.payload, q), Append(s.path, q),
                          results[i].artifact[1]) \in said
  <2>1. ResultHolds(f, Asked(f.payload)[i].text, out.body.brief.peer_results[i], table, said)
    BY <1>1, <1>3, <1>4
  <2> QED
    BY <1>1, <2>1 DEF ResultHolds
<1>5. ASSUME "brief" \in DOMAIN s.answer.body
      PROVE  /\ Len(s.answer.body.brief.peer_results) = Len(Asked(s.payload))
             /\ Len(s.answer.body.brief.integrated_findings) = Len(Asked(s.payload))
  BY <1>1, <1>3, <1>5
<1>6. Truth(s, table, said)
  BY <1>2, <1>4, <1>5 DEF Truth
<1> QED
  BY <1>6 DEF s

LEMMA TruthfulIs == \A s : Truthful(s) <=> Truth(s, handlers, told)
BY DEF Truthful, Truth, Available, Peers, Asked

-----------------------------------------------------------------------------
(* process() returns or raises *)

\* What holds of the innermost frame.
LEMMA TopIs ==
    ASSUME Inv, stack # <<>>
    PROVE  /\ Len(stack) \in Nat \ {0} /\ Top = stack[Len(stack)]
           /\ IsFrame(Top, handlers) /\ ResultsHold(Top, handlers, told)
           /\ handlers \in Factories /\ Top.role \in DOMAIN handlers
           /\ request # <<>> /\ answer = <<>>
           /\ Len(stack) = 1 => /\ Top.role = request[1].role
                                /\ Top.payload = request[1].payload
                                /\ Top.path = <<request[1].role>>
<1>1. Len(stack) \in Nat \ {0}
  BY DEF Inv, StackInv
<1>2. Len(stack) \in 1..Len(stack)
  BY <1>1
<1>3. IsFrame(Top, handlers) /\ ResultsHold(Top, handlers, told)
  BY <1>2 DEF Inv, StackInv, Top
<1>4. handlers \in Factories
  BY <1>3 DEF Inv, WiredInv, IsFrame
<1> QED
  BY <1>1, <1>3, <1>4 DEF Inv, WiredInv, StackInv, Top, IsFrame

\* The outermost process() ends: the caller gets what the role said, or its own fault.
LEMMA LastLeaves ==
    ASSUME Inv, stack # <<>>, Len(stack) = 1, NEW a, Fits(Top, a), Leave(a)
    PROVE  Inv'
<1> DEFINE out == Overlay(Top, a)
           s == Said(Top.role, Top.payload, Top.path, out)
<1>1. /\ stack' = <<>> /\ answer' = <<out>>
      /\ told' = IF IsRaised(out) THEN told ELSE told \cup {s}
      /\ UNCHANGED <<registry, handlers, request>>
  BY DEF Leave
<1>2. /\ IsFrame(Top, handlers) /\ ResultsHold(Top, handlers, told)
      /\ handlers \in Factories /\ request # <<>>
      /\ Top.role = request[1].role /\ Top.payload = request[1].payload
      /\ Top.path = <<request[1].role>>
  BY TopIs
<1>3. \/ /\ IsRaised(out)
         /\ DOMAIN Top.payload = {"dict"} => OwnFault(Top.role, Top.payload)
      \/ Conforms(Top, out) /\ BriefIsWhole(Top, out)
  BY OverlayFits
<1> HIDE DEF out
<1>4. WiredInv'
  BY <1>1, <1>2 DEF Inv, WiredInv
<1>5. StackInv'
  <2>1. <<>> \in Seq(Items(<<>>)) /\ Len(<<>>) = 0
    OBVIOUS
  <2> QED
    BY <1>1, <2>1 DEF StackInv
<1>6. HouseholdStaysHome'
  BY <1>1 DEF HouseholdStaysHome
<1>7. BriefsTruthful'
  <2>1. ASSUME NEW t \in told' PROVE Truth(t, handlers, told')
    <3>1. CASE t \in told
      BY <1>1, <3>1, TruthGrows, TruthfulIs DEF Inv, BriefsTruthful
    <3>2. CASE t \notin told
      <4>1. t = s /\ ~IsRaised(out)
        BY <1>1, <2>1, <3>2
      <4>2. Truth(s, handlers, told)
        BY <1>2, <1>3, <4>1, AnswerIsTrue
      <4> QED
        BY <1>1, <4>1, <4>2, TruthGrows
    <3> QED
      BY <3>1, <3>2
  <2>2. \A t : Truth(t, handlers, told') => Truthful(t)'
    BY <1>1 DEF Truthful, Truth, Available, Peers, Asked
  <2>3. ~IsRaised(out) =>
            Said(request[1].role, request[1].payload, <<request[1].role>>, out) \in told'
    BY <1>1, <1>2
  <2> QED
    BY <1>1, <2>1, <2>2, <2>3 DEF BriefsTruthful
<1>8. AnswersConform'
  <2>1. ASSUME ~IsRaised(out)
        PROVE  Review(request[1].role, out, Principal, <<request[1].role>>) = "CONFORMS"
    BY <1>2, <1>3, <2>1 DEF Conforms, IsFrame
  <2> QED
    BY <1>1, <2>1 DEF AnswersConform
<1>9. RaisesAreOwn'
  <2>1. ASSUME IsRaised(out) PROVE OwnFault(request[1].role, request[1].payload)
    <3>1. DOMAIN Top.payload = {"dict"}
      BY <1>2, PayloadsAssumption DEF Inv, WiredInv
    <3> QED
      BY <1>2, <1>3, <2>1, <3>1 DEF Conforms
  <2> QED
    BY <1>1, <2>1 DEF RaisesAreOwn, OwnFault, Available
<1> QED
  BY <1>4, <1>5, <1>6, <1>7, <1>8, <1>9 DEF Inv

\* A peer's process() ends: the synthesis below takes what it returned, or notes that it
\* raised.
LEMMA PeerLeaves ==
    ASSUME Inv, stack # <<>>, Len(stack) # 1, NEW a, Fits(Top, a), Leave(a)
    PROVE  Inv'
<1> DEFINE n == Len(stack)
           k == n - 1
           f == stack[k]
           out == Overlay(Top, a)
           s == Said(Top.role, Top.payload, Top.path, out)
           x == IF IsRaised(out) THEN Failed(Top.role) ELSE Returned(Top.role, out)
           g == Hears(f, x)
<1>1. /\ stack' = Heard(Below, k, x) /\ answer' = answer
      /\ told' = IF IsRaised(out) THEN told ELSE told \cup {s}
      /\ UNCHANGED <<registry, handlers, request>>
  BY DEF Leave, Heard
<1>2. /\ n \in Nat /\ k \in 1..k /\ k + 1 = n /\ Top = stack[k + 1]
      /\ IsFrame(Top, handlers) /\ ResultsHold(Top, handlers, told)
      /\ handlers \in Factories /\ request # <<>> /\ answer = <<>>
  BY TopIs
<1>3. /\ IsFrame(f, handlers) /\ ResultsHold(f, handlers, told)
      /\ Serves(f, Top, handlers)
  BY <1>2 DEF Inv, StackInv
<1>4. \/ IsRaised(out)
      \/ Conforms(Top, out) /\ BriefIsWhole(Top, out)
  BY OverlayFits
<1> HIDE DEF out, s, k, n
<1>5. told \subseteq told' /\ (~IsRaised(out) => s \in told')
  BY <1>1
<1>6. ResultHolds(f, PeersOf(f)[Len(f.results) + 1], x, handlers, told')
  <2>1. /\ Top.role = PeersOf(f)[Len(f.results) + 1]
        /\ Top.role \in Peers(f.role, handlers)
        /\ Top.path = Append(f.path, Top.role)
        /\ Top.payload = PayloadFor(f.payload, Top.role)
    BY <1>3 DEF Serves
  <2>2. x.role_id = Top.role /\ x.invoked = TRUE
    BY DEF Failed, Returned
  <2>3. ASSUME x.artifact # <<>>
        PROVE  Said(Top.role, PayloadFor(f.payload, Top.role), Append(f.path, Top.role),
                    x.artifact[1]) \in told'
    <3>1. ~IsRaised(out) /\ x.artifact[1] = out
      BY <2>3 DEF Failed, Returned
    <3> QED
      BY <1>5, <2>1, <3>1 DEF s
  <2> HIDE DEF x
  <2> QED
    BY <2>1, <2>2, <2>3 DEF ResultHolds
<1>7. /\ IsFrame(g, handlers) /\ ResultsHold(g, handlers, told')
      /\ g.role = f.role /\ g.payload = f.payload /\ g.path = f.path
  <2>1. ResultsHold(f, handlers, told')
    BY <1>3, <1>5, ResultsHoldMore
  <2>2. Orchestrates(f) /\ Len(f.results) < Len(PeersOf(f))
    BY <1>3 DEF Serves
  <2> HIDE DEF x, f
  <2> QED
    BY <1>3, <1>6, <2>1, <2>2, FrameHears
<1> HIDE DEF x, g
<1>8. /\ stack' \in Seq(Items(stack')) /\ Len(stack') = k
      /\ \A i \in 1..k : i # k => stack'[i] = stack[i]
      /\ stack'[k] = g
  <2>1. /\ Below \in Seq(Items(Below)) /\ Len(Below) = k
        /\ \A i \in 1..k : Below[i] = stack[i]
    BY ButLast DEF Inv, StackInv, Below, n, k
  <2>2. k \in 1..Len(Below)
    BY <1>2, <2>1
  <2>3. Changed(Heard(Below, k, x), Below, k, Hears(Below[k], x))
    BY <2>1, <2>2, HeardIs
  <2>4. Below[k] = f
    BY <1>2, <2>1
  <2> QED
    BY <1>1, <2>1, <2>3, <2>4 DEF g, Changed
<1>9. \A i \in 1..k : /\ stack'[i].role = stack[i].role
                      /\ stack'[i].payload = stack[i].payload
                      /\ stack'[i].path = stack[i].path
  BY <1>7, <1>8
<1>10. WiredInv'
  BY <1>1, <1>2 DEF Inv, WiredInv
<1>11. StackInv'
  <2>1. ASSUME NEW i \in 1..k
        PROVE  IsFrame(stack'[i], handlers) /\ ResultsHold(stack'[i], handlers, told')
    <3>1. CASE i = k
      BY <1>7, <1>8, <3>1
    <3>2. CASE i # k
      <4>1. i \in 1..Len(stack)
        BY <1>2 DEF n
      <4>2. IsFrame(stack[i], handlers) /\ ResultsHold(stack[i], handlers, told)
        BY <4>1 DEF Inv, StackInv
      <4> QED
        BY <1>5, <1>8, <3>2, <4>2, ResultsHoldMore
    <3> QED
      BY <3>1, <3>2
  <2>2. ASSUME NEW i \in 1..(k - 1)
        PROVE  Serves(stack'[i], stack'[i + 1], handlers)
    <3>1. i \in 1..(Len(stack) - 1) /\ i \in 1..k /\ i + 1 \in 1..k /\ i # k
      BY <1>2 DEF n
    <3>2. Serves(stack[i], stack[i + 1], handlers)
      BY <3>1 DEF Inv, StackInv
    <3>3. /\ stack'[i] = stack[i]
          /\ stack'[i + 1].role = stack[i + 1].role
          /\ stack'[i + 1].payload = stack[i + 1].payload
          /\ stack'[i + 1].path = stack[i + 1].path
      BY <1>8, <1>9, <3>1
    <3> QED
      BY <3>2, <3>3 DEF Serves
  <2>3. /\ stack'[1].role = request[1].role /\ stack'[1].payload = request[1].payload
        /\ stack'[1].path = <<request[1].role>>
    BY <1>2, <1>9 DEF Inv, StackInv
  <2> QED
    BY <1>1, <1>8, <2>1, <2>2, <2>3 DEF StackInv
<1>12. HouseholdStaysHome'
  <2>1. DOMAIN stack' = 1..k /\ 1..k \subseteq DOMAIN stack
    BY <1>2, <1>8 DEF Inv, StackInv, n
  <2> QED
    BY <1>9, <2>1 DEF Inv, HouseholdStaysHome
<1>13. BriefsTruthful'
  <2>1. ASSUME NEW t \in told' PROVE Truth(t, handlers, told')
    <3>1. CASE t \in told
      BY <1>5, <3>1, TruthGrows, TruthfulIs DEF Inv, BriefsTruthful
    <3>2. CASE t \notin told
      <4>1. t = s /\ ~IsRaised(out)
        BY <1>1, <2>1, <3>2
      <4>2. Truth(s, handlers, told)
        BY <1>2, <1>4, <4>1, AnswerIsTrue DEF s
      <4> QED
        BY <1>5, <4>1, <4>2, TruthGrows
    <3> QED
      BY <3>1, <3>2
  <2>2. \A t : Truth(t, handlers, told') => Truthful(t)'
    BY <1>1 DEF Truthful, Truth, Available, Peers, Asked
  <2> QED
    BY <1>1, <1>2, <2>1, <2>2 DEF BriefsTruthful
<1>14. AnswersConform' /\ RaisesAreOwn'
  BY <1>1, <1>2 DEF AnswersConform, RaisesAreOwn
<1> QED
  BY <1>10, <1>11, <1>12, <1>13, <1>14 DEF Inv

LEMMA LeaveStep ==
    ASSUME Inv, stack # <<>>, NEW a, Fits(Top, a), Leave(a)
    PROVE  Inv'
BY LastLeaves, PeerLeaves

LEMMA PeersLeftIs ==
    ASSUME PeersLeft
    PROVE  /\ stack # <<>> /\ Orchestrates(Top)
           /\ Len(Top.results) < Len(PeersOf(Top))
BY DEF PeersLeft, Orchestrating, Synthesizing, Orchestrates

LEMMA AnswerStep ==
    ASSUME Inv, \/ AnswerForecast \/ AnswerCompliance \/ SynthesisRaises
                \/ SynthesisRefuses \/ PeerPayloadRaises \/ Integrate
    PROVE  Inv'
<1>1. CASE AnswerForecast
  <2>1. Fits(Top, ForecastAnswer(Top)) /\ Fits(Top, ForecastGraphAnswer(Top))
    BY <1>1, ForecastFits DEF AnswerForecast
  <2> QED
    BY <1>1, <2>1, LeaveStep DEF AnswerForecast
<1>2. CASE AnswerCompliance
  <2>1. Fits(Top, ComplianceAnswer(Top)) /\ Fits(Top, ComplianceGraphAnswer(Top))
    BY ComplianceFits, ComplianceGraphFits
  <2> QED
    BY <1>2, <2>1, LeaveStep DEF AnswerCompliance
<1>3. CASE SynthesisRaises
  BY <1>3, LeaveStep, SynthesisRaisesFits DEF SynthesisRaises, Synthesizing
<1>4. CASE SynthesisRefuses
  BY <1>4, LeaveStep, RefusedFits DEF SynthesisRefuses, Synthesizing
<1>5. CASE PeerPayloadRaises
  <2>1. NextPeer \in Available(Top.role) /\ UnusablePayload(Top, NextPeer)
        /\ Leave(Raised("payload"))
    BY <1>5 DEF PeerPayloadRaises
  <2>2. stack # <<>> /\ Orchestrates(Top)
    BY <1>5, PeersLeftIs DEF PeerPayloadRaises
  <2>3. Fits(Top, Raised("payload"))
    BY <2>1, <2>2, PeerPayloadFits
  <2> QED
    BY <2>1, <2>2, <2>3, LeaveStep
<1>6. CASE Integrate
  <2>1. stack # <<>> /\ Orchestrates(Top) /\ Len(Top.results) = Len(PeersOf(Top))
    BY <1>6 DEF Integrate, Orchestrating, Synthesizing, Orchestrates
  <2> QED
    BY <1>6, <2>1, LeaveStep, BriefFits DEF Integrate
<1> QED
  BY <1>1, <1>2, <1>3, <1>4, <1>5, <1>6

-----------------------------------------------------------------------------
(* The other steps *)

\* A peer nobody can call is noted as not invoked.
LEMMA SkipStep ==
    ASSUME Inv, SkipPeer
    PROVE  Inv'
<1> DEFINE n == Len(stack)
           x == Unavailable(NextPeer)
           g == Hears(Top, x)
<1>1. /\ stack' = Heard(stack, n, x)
      /\ UNCHANGED <<registry, handlers, request, answer, told>>
      /\ NextPeer \notin Available(Top.role)
  BY DEF SkipPeer, Heard, Top
<1>2. /\ stack # <<>> /\ Orchestrates(Top) /\ Len(Top.results) < Len(PeersOf(Top))
  BY PeersLeftIs DEF SkipPeer
<1>3. /\ n \in Nat \ {0} /\ Top = stack[n]
      /\ IsFrame(Top, handlers) /\ ResultsHold(Top, handlers, told)
  BY <1>2, TopIs
<1>4. ResultHolds(Top, PeersOf(Top)[Len(Top.results) + 1], x, handlers, told)
  BY <1>1 DEF ResultHolds, Unavailable, NextPeer, Available, Peers
<1> HIDE DEF x, n
<1>5. /\ IsFrame(g, handlers) /\ ResultsHold(g, handlers, told)
      /\ g.role = Top.role /\ g.payload = Top.payload /\ g.path = Top.path
  BY <1>2, <1>3, <1>4, FrameHears
<1> HIDE DEF g
<1>6. /\ stack' \in Seq(Items(stack')) /\ Len(stack') = n
      /\ \A i \in 1..n : i # n => stack'[i] = stack[i]
      /\ stack'[n] = g
  <2>1. stack \in Seq(Items(stack)) /\ Len(stack) = n
    BY DEF Inv, StackInv, n
  <2>2. n \in 1..Len(stack)
    BY <1>3 DEF n
  <2>3. Changed(Heard(stack, n, x), stack, n, Hears(stack[n], x))
    BY <2>1, <2>2, HeardIs
  <2> QED
    BY <1>1, <1>3, <2>1, <2>3 DEF g, Changed
<1>7. \A i \in 1..n : /\ stack'[i].role = stack[i].role
                      /\ stack'[i].payload = stack[i].payload
                      /\ stack'[i].path = stack[i].path
  BY <1>3, <1>5, <1>6
<1>8. WiredInv'
  BY <1>1, <1>2 DEF Inv, WiredInv
<1>9. StackInv'
  <2>1. ASSUME NEW i \in 1..n
        PROVE  IsFrame(stack'[i], handlers) /\ ResultsHold(stack'[i], handlers, told)
    BY <1>5, <1>6 DEF Inv, StackInv, n
  <2>2. ASSUME NEW i \in 1..(n - 1)
        PROVE  Serves(stack'[i], stack'[i + 1], handlers)
    <3>1. i \in 1..n /\ i + 1 \in 1..n /\ i # n
      BY <1>3
    <3>2. Serves(stack[i], stack[i + 1], handlers)
      BY DEF Inv, StackInv, n
    <3>3. /\ stack'[i] = stack[i]
          /\ stack'[i + 1].role = stack[i + 1].role
          /\ stack'[i + 1].payload = stack[i + 1].payload
          /\ stack'[i + 1].path = stack[i + 1].path
      BY <1>6, <1>7, <3>1
    <3> QED
      BY <3>2, <3>3 DEF Serves
  <2>3. /\ stack'[1].role = request[1].role /\ stack'[1].payload = request[1].payload
        /\ stack'[1].path = <<request[1].role>>
    BY <1>2, <1>3, <1>7 DEF Inv, StackInv
  <2> QED
    BY <1>1, <1>6, <2>1, <2>2, <2>3 DEF StackInv
<1>10. HouseholdStaysHome'
  <2>1. DOMAIN stack' = 1..n /\ DOMAIN stack = 1..n
    BY <1>6 DEF Inv, StackInv, n
  <2> QED
    BY <1>7, <2>1 DEF Inv, HouseholdStaysHome
<1>11. BriefsTruthful'
  <2>1. \A t : Truthful(t) => Truthful(t)'
    BY <1>1 DEF Truthful, Available
  <2> QED
    BY <1>1, <2>1 DEF Inv, BriefsTruthful
<1>12. AnswersConform' /\ RaisesAreOwn'
  BY <1>1, <1>2, TopIs DEF AnswersConform, RaisesAreOwn
<1> QED
  BY <1>8, <1>9, <1>10, <1>11, <1>12 DEF Inv

\* A fresh frame of a wired role.
LEMMA FreshFrame ==
    ASSUME NEW r, r \in DOMAIN handlers, NEW path, NEW p, p \in Values
    PROVE  LET g == Frame(r, Principal, path, p)
           IN /\ IsFrame(g, handlers) /\ ResultsHold(g, handlers, told)
              /\ g.role = r /\ g.path = path /\ g.payload = p
<1>1. <<>> \in Seq(Items(<<>>))
  OBVIOUS
<1> QED
  BY <1>1 DEF Frame, IsFrame, ResultsHold

\* A peer is called with the payload its caller's request holds for it; a household
\* synthesis, and whoever it called, has none but family roles to call.
LEMMA InvokeStep ==
    ASSUME Inv, InvokePeer
    PROVE  Inv'
<1> DEFINE n == Len(stack)
           g == BuildPeerRequest(Top, NextPeer)
<1>1. /\ stack' = Append(stack, g)
      /\ UNCHANGED <<registry, handlers, request, answer, told>>
      /\ NextPeer \in Available(Top.role)
  BY DEF InvokePeer
<1>2. /\ stack # <<>> /\ Orchestrates(Top) /\ Len(Top.results) < Len(PeersOf(Top))
  BY PeersLeftIs DEF InvokePeer
<1>3. /\ n \in Nat \ {0} /\ Top = stack[n] /\ answer = <<>>
      /\ IsFrame(Top, handlers) /\ handlers \in Factories /\ Top.role \in DOMAIN handlers
  BY <1>2, TopIs
<1>4. NextPeer \in DOMAIN handlers
  BY <1>1, <1>3, PeersWired
<1>5. /\ IsFrame(g, handlers) /\ ResultsHold(g, handlers, told)
      /\ g.role = NextPeer /\ g.path = Append(Top.path, NextPeer)
      /\ g.payload = PayloadFor(Top.payload, NextPeer)
  <2> DEFINE path == Append(Top.path, NextPeer)
             p == PayloadFor(Top.payload, NextPeer)
  <2>1. g = Frame(NextPeer, Principal, path, p)
    BY <1>3 DEF BuildPeerRequest, PeerPayloads, PayloadFor, IsFrame
  <2>2. p \in Values
    BY <1>3, PayloadForIsValue DEF IsFrame
  <2> HIDE DEF g, path, p
  <2>3. LET h == Frame(NextPeer, Principal, path, p)
        IN /\ IsFrame(h, handlers) /\ ResultsHold(h, handlers, told)
           /\ h.role = NextPeer /\ h.path = path /\ h.payload = p
    BY <1>4, <2>2, FreshFrame
  <2> QED
    BY <2>1, <2>3 DEF path, p
<1>6. Serves(Top, g, handlers)
  BY <1>1, <1>2, <1>5 DEF Serves, NextPeer, Available, Peers
<1> HIDE DEF g, n
<1>7. /\ stack' \in Seq(Items(stack')) /\ Len(stack') = n + 1
      /\ \A i \in 1..n : stack'[i] = stack[i]
      /\ stack'[n + 1] = g
  BY <1>1, OneMore DEF Inv, StackInv, n
<1>8. WiredInv'
  BY <1>1, <1>2, <1>3 DEF Inv, WiredInv
<1>9. StackInv'
  <2>1. ASSUME NEW i \in 1..(n + 1)
        PROVE  IsFrame(stack'[i], handlers) /\ ResultsHold(stack'[i], handlers, told)
    <3>1. CASE i \in 1..n
      BY <1>7, <3>1 DEF Inv, StackInv, n
    <3>2. CASE i = n + 1
      BY <1>5, <1>7, <3>2
    <3> QED
      BY <1>3, <3>1, <3>2
  <2>2. ASSUME NEW i \in 1..n
        PROVE  Serves(stack'[i], stack'[i + 1], handlers)
    <3>1. CASE i = n
      BY <1>3, <1>6, <1>7, <3>1
    <3>2. CASE i # n
      <4>1. i \in 1..(Len(stack) - 1) /\ i + 1 \in 1..n
        BY <1>3, <3>2 DEF n
      <4>2. Serves(stack[i], stack[i + 1], handlers)
        BY <4>1 DEF Inv, StackInv
      <4> QED
        BY <1>7, <4>1, <4>2
    <3> QED
      BY <3>1, <3>2
  <2>3. stack'[1] = stack[1]
    BY <1>3, <1>7
  <2>4. Len(stack') - 1 = n
    BY <1>3, <1>7
  <2> QED
    BY <1>1, <1>2, <1>7, <2>1, <2>2, <2>3, <2>4 DEF Inv, StackInv
<1>10. HouseholdStaysHome'
  <2>1. DOMAIN stack' = 1..(n + 1) /\ DOMAIN stack = 1..n
    BY <1>3, <1>7 DEF Inv, StackInv, n
  <2>2. "household_synthesis_agent" \in Family
    BY DEF Family
  <2>3. Top.role \in Family => NextPeer \in Family
    BY <1>1, <1>3, PeersWired
  <2>4. ASSUME NEW i \in 1..(n + 1), NEW j \in 1..(n + 1), i < j,
               stack'[i].role = "household_synthesis_agent"
        PROVE  stack'[j].role \in Family
    <3>1. i \in 1..n /\ stack'[i] = stack[i]
      BY <1>3, <1>7, <2>4
    <3>2. CASE j \in 1..n
      BY <1>7, <2>1, <2>4, <3>1, <3>2 DEF Inv, HouseholdStaysHome
    <3>3. CASE j = n + 1
      <4>1. Top.role \in Family
        <5>1. CASE i = n
          BY <1>3, <2>2, <2>4, <3>1, <5>1
        <5>2. CASE i # n
          <6>1. i < n /\ n \in 1..n
            BY <1>3, <3>1, <5>2
          <6> QED
            BY <1>3, <2>1, <2>4, <3>1, <6>1 DEF Inv, HouseholdStaysHome
        <5> QED
          BY <5>1, <5>2
      <4> QED
        BY <1>5, <1>7, <2>3, <3>3, <4>1
    <3> QED
      BY <1>3, <3>2, <3>3
  <2> QED
    BY <2>1, <2>4 DEF HouseholdStaysHome
<1>11. BriefsTruthful'
  <2>1. \A t : Truthful(t) => Truthful(t)'
    BY <1>1 DEF Truthful, Available
  <2> QED
    BY <1>1, <2>1 DEF Inv, BriefsTruthful
<1>12. AnswersConform' /\ RaisesAreOwn'
  BY <1>1, <1>3 DEF AnswersConform, RaisesAreOwn
<1> QED
  BY <1>8, <1>9, <1>10, <1>11, <1>12 DEF Inv

\* A call begins with one frame, at the role and the payload of the request.
LEMMA CallStep ==
    ASSUME Inv, NEW r, NEW p \in Payloads, Call(r, p)
    PROVE  Inv'
<1> DEFINE g == Frame(r, Principal, <<r>>, p)
<1>1. /\ stack = <<>> /\ answer = <<>> /\ r \in DOMAIN handlers
      /\ request' = <<[role |-> r, payload |-> p]>> /\ stack' = <<g>>
      /\ UNCHANGED <<registry, handlers, answer, told>>
  BY DEF Call
<1>2. /\ IsFrame(g, handlers) /\ ResultsHold(g, handlers, told)
      /\ g.role = r /\ g.path = <<r>> /\ g.payload = p
  <2>1. p \in Values
    BY PayloadsAssumption
  <2> QED
    BY <1>1, <2>1, FreshFrame
<1> HIDE DEF g
<1>3. /\ stack' \in Seq(Items(stack')) /\ Len(stack') = 1 /\ stack'[1] = g
  <2>1. <<g>> \in Seq({g}) /\ Len(<<g>>) = 1 /\ <<g>>[1] = g
    OBVIOUS
  <2>2. <<g>> \in Seq(Items(<<g>>))
    BY <2>1, OwnItems
  <2> QED
    BY <1>1, <2>1, <2>2
<1>4. WiredInv'
  BY <1>1 DEF Inv, WiredInv
<1>5. StackInv'
  BY <1>1, <1>2, <1>3 DEF StackInv
<1>6. HouseholdStaysHome'
  <2>1. DOMAIN stack' = {1}
    BY <1>3
  <2> QED
    BY <2>1 DEF HouseholdStaysHome
<1>7. BriefsTruthful'
  <2>1. \A t : Truthful(t) => Truthful(t)'
    BY <1>1 DEF Truthful, Available
  <2> QED
    BY <1>1, <2>1 DEF Inv, BriefsTruthful
<1>8. AnswersConform' /\ RaisesAreOwn'
  BY <1>1 DEF AnswersConform, RaisesAreOwn
<1> QED
  BY <1>4, <1>5, <1>6, <1>7, <1>8 DEF Inv

\* The steps between calls.
LEMMA IdleStep ==
    ASSUME Inv, \/ RegisterDemo2Roles \/ RegisterFamilyRoles \/ Release
                \/ \E table \in Factories : Wire(table)
    PROVE  Inv'
<1>1. CASE RegisterDemo2Roles \/ RegisterFamilyRoles
  <2>1. /\ registry' \subseteq RoleIds
        /\ UNCHANGED <<handlers, stack, request, answer, told>>
    BY <1>1 DEF RegisterDemo2Roles, RegisterFamilyRoles, RoleIds, Inv, WiredInv
  <2>2. \A t : Truthful(t) => Truthful(t)'
    BY <2>1 DEF Truthful, Available
  <2> QED
    BY <2>1, <2>2 DEF Inv, WiredInv, StackInv, HouseholdStaysHome, BriefsTruthful,
                      AnswersConform, RaisesAreOwn, Available
<1>2. CASE Release
  <2>1. /\ answer # <<>> /\ request' = <<>> /\ answer' = <<>> /\ told' = {}
        /\ stack = <<>> /\ UNCHANGED <<registry, handlers, stack>>
    BY <1>2 DEF Release, Inv, WiredInv
  <2>2. <<>> \in Seq(Items(<<>>)) /\ Len(<<>>) = 0 /\ DOMAIN <<>> = {}
    OBVIOUS
  <2> QED
    BY <2>1, <2>2 DEF Inv, WiredInv, StackInv, HouseholdStaysHome, BriefsTruthful,
                      AnswersConform, RaisesAreOwn
<1>3. CASE \E table \in Factories : Wire(table)
  <2>1. /\ handlers = <<>> /\ handlers' \in Factories
        /\ UNCHANGED <<registry, stack, request, answer, told>>
    BY <1>3 DEF Wire
  <2>2. stack = <<>> /\ request = <<>> /\ answer = <<>> /\ told = {}
    BY <2>1 DEF Inv, WiredInv
  <2> QED
    BY <2>1, <2>2 DEF Inv, WiredInv, StackInv, HouseholdStaysHome, BriefsTruthful,
                      AnswersConform, RaisesAreOwn
<1> QED
  BY <1>1, <1>2, <1>3

-----------------------------------------------------------------------------
(* The invariant and what follows from it *)

LEMMA InitInv == ASSUME Init PROVE Inv
<1>1. <<>> \in Seq(Items(<<>>)) /\ Len(<<>>) = 0 /\ DOMAIN <<>> = {}
  OBVIOUS
<1> QED
  BY <1>1 DEF Init, Inv, WiredInv, StackInv, HouseholdStaysHome, BriefsTruthful,
              AnswersConform, RaisesAreOwn

LEMMA StutterInv == ASSUME Inv, UNCHANGED vars PROVE Inv'
<1>1. UNCHANGED <<registry, handlers, stack, request, answer, told>>
  BY DEF vars
<1>2. \A t : Truthful(t) => Truthful(t)'
  BY <1>1 DEF Truthful, Available
<1> QED
  BY <1>1, <1>2 DEF Inv, WiredInv, StackInv, HouseholdStaysHome, BriefsTruthful,
                    AnswersConform, RaisesAreOwn, Available

LEMMA Invariant == Spec => []Inv
<1>1. Init => Inv
  BY InitInv
<1>2. Inv /\ [Next]_vars => Inv'
  <2> SUFFICES ASSUME Inv, [Next]_vars PROVE Inv'
    OBVIOUS
  <2>1. CASE \/ RegisterDemo2Roles \/ RegisterFamilyRoles \/ Release
             \/ \E table \in Factories : Wire(table)
    BY <2>1, IdleStep
  <2>2. CASE \E r \in RoleIds, p \in Payloads : Call(r, p)
    BY <2>2, CallStep
  <2>3. CASE \/ AnswerForecast \/ AnswerCompliance \/ SynthesisRaises
             \/ SynthesisRefuses \/ PeerPayloadRaises \/ Integrate
    BY <2>3, AnswerStep
  <2>4. CASE SkipPeer
    BY <2>4, SkipStep
  <2>5. CASE InvokePeer
    BY <2>5, InvokeStep
  <2>6. CASE UNCHANGED vars
    BY <2>6, StutterInv
  <2> QED
    BY <2>1, <2>2, <2>3, <2>4, <2>5, <2>6 DEF Next, Serve
<1> QED
  BY <1>1, <1>2, PTL DEF Spec

\* Frames are of wired roles in a flavour of the deployment; a call has a request and
\* leaves one answer.
THEOREM TypeCorrect == Spec => []TypeOK
<1>1. Inv => TypeOK
  <2> SUFFICES ASSUME Inv PROVE TypeOK
    OBVIOUS
  <2>1. ASSUME NEW i \in DOMAIN stack
        PROVE  stack[i].role \in RoleIds /\ stack[i].flavour \in {"pure", "graph"}
    <3>1. i \in 1..Len(stack) /\ stack # <<>>
      BY DEF Inv, StackInv
    <3>2. IsFrame(stack[i], handlers)
      BY <3>1 DEF Inv, StackInv
    <3>3. /\ DOMAIN handlers \in {Exec, Family, RoleIds}
          /\ \A r \in DOMAIN handlers : handlers[r] \in {"pure", "graph"}
      BY <3>1, TopIs, FactoryShape
    <3> QED
      BY <3>2, <3>3 DEF IsFrame, RoleIds
  <2> QED
    BY <2>1 DEF Inv, WiredInv, TypeOK
<1> QED
  BY <1>1, Invariant, PTL

\* A brief lists every peer it was asked for, in order, and what it says one of them
\* answered is what that peer answered in this call to the request made for it, however
\* deep the syntheses nest (apply_synthesis, _invoke_peer).
THEOREM BriefsTellTheTruth == Spec => []BriefsTruthful
<1>1. Inv => BriefsTruthful
  BY DEF Inv
<1> QED
  BY <1>1, Invariant, PTL

\* Whatever a request carries, what a shipped handler returns passes the critic
\* (RoleArtifactCritic.review).
THEOREM AnswersPassTheCritic == Spec => []AnswersConform
<1>1. Inv => AnswersConform
  BY DEF Inv
<1> QED
  BY <1>1, Invariant, PTL

\* No chain of syntheses leads from a household one to an executive handler
\* (create_family_handlers gives it a dict of its own).
THEOREM HouseholdsStayHome == Spec => []HouseholdStaysHome
<1>1. Inv => HouseholdStaysHome
  BY DEF Inv
<1> QED
  BY <1>1, Invariant, PTL

\* What the caller gets as an exception is its own request's fault: what a peer raises
\* ends in the brief of the synthesis that called it (_invoke_peer's except).
THEOREM NoPeerTakesACallDown == Spec => []RaisesAreOwn
<1>1. Inv => RaisesAreOwn
  BY DEF Inv
<1> QED
  BY <1>1, Invariant, PTL

-----------------------------------------------------------------------------
(* The two flavours *)

\* What a node's state without outputs becomes.
NodeRefused(f, framework, why) ==
    [Refused(f, framework, why) EXCEPT !.outputs = {}, !.body = [nothing |-> TRUE]]

LEMMA SimilarRefusals ==
    ASSUME NEW f, NEW framework, NEW other, NEW why
    PROVE  Similar(Refused(f, framework, why), NodeRefused(f, other, why))
<1> DEFINE a == Refused(f, framework, why)
           b == NodeRefused(f, other, why)
<1>1. /\ DOMAIN a = {"role_id", "framework", "status", "principal_id", "request_id",
                     "refusal_reason", "outputs", "body"}
      /\ DOMAIN b = DOMAIN a
  BY DEF Refused, NodeRefused
<1>2. /\ a.role_id = b.role_id /\ a.status = b.status /\ a.principal_id = b.principal_id
      /\ a.request_id = b.request_id /\ a.refusal_reason = b.refusal_reason
      /\ a.outputs = b.outputs /\ a.body = b.body /\ a.status = "refused"
  BY DEF Refused, NodeRefused
<1> HIDE DEF a, b
<1>3. \A part \in DOMAIN a \ {"framework"} : a[part] = b[part]
  BY <1>1, <1>2
<1>4. ~IsRaised(a) /\ ~IsRaised(b)
  BY <1>1 DEF IsRaised
<1>5. Similar(a, b)
  BY <1>1, <1>2, <1>3, <1>4 DEF Similar
<1> QED
  BY <1>5 DEF a, b

LEMMA ForecastFlavours ==
    ASSUME NEW f, IsDict(f.payload)
    PROVE  Similar(ForecastAnswer(f), ForecastGraphAnswer(f))
<1> DEFINE early == /\ ~IsNumber(f.payload)
                    /\ ~Has(f.payload, "financial_data") \/ ~Has(f.payload, "forecast_horizon")
<1>1. CASE early
  <2>1. ApplyForecast(f.payload) = "refuses"
    BY <1>1 DEF ApplyForecast, InvalidForecast
  <2>2. ForecastAnswer(f) = Refused(f, "FORECAST", "invalid_forecast_inputs")
    BY <2>1 DEF ForecastAnswer
  <2> QED
    BY <1>1, <2>2 DEF ForecastGraphAnswer, Similar
<1>2. CASE ~early
  BY <1>2 DEF ForecastGraphAnswer, Similar
<1> QED
  BY <1>1, <1>2

LEMMA ComplianceFlavours ==
    ASSUME NEW f, IsDict(f.payload)
    PROVE  Similar(ComplianceAnswer(f), ComplianceGraphAnswer(f))
<1> DEFINE p == f.payload
           mode == Get(p, "mode", Text("None"))
           artifact == Get(p, "peer_artifact", Text("None"))
           found == CharterViolations(artifact)
<1>1. CASE mode \notin ValidModes
  <2>1. ComplianceAnswer(f) = Refused(f, "AUDIT", "unknown_mode")
    BY <1>1 DEF ComplianceAnswer, ValidModes
  <2>2. RouteByMode(p) = "finalize"
    BY <1>1 DEF RouteByMode, ValidModes
  <2>3. /\ NodeDispatch(p).refusal = "unknown_mode" /\ NodeDispatch(p).outputs = {}
        /\ NodeDispatch(p).body = [nothing |-> TRUE]
        /\ NodeDispatch(p).framework_used = "AUDIT"
    BY <2>2 DEF NodeDispatch
  <2>4. ComplianceGraphAnswer(f) = NodeFinalize(f, NodeDispatch(p))
    BY <2>2 DEF ComplianceGraphAnswer
  <2>5. ComplianceGraphAnswer(f) =
            NodeRefused(f, "AUDIT", "unknown_mode")
    BY <2>3, <2>4 DEF NodeFinalize, NodeRefused
  <2> QED
    BY <2>1, <2>5, SimilarRefusals
<1>2. CASE mode = Text("charter_v7_review")
  <2> DEFINE state == NodeCharterV7(p, NodeDispatch(p))
  <2>1. RouteByMode(p) = "charter_v7" /\ ComplianceAnswer(f) =
            IF ~IsDict(artifact)
            THEN Refused(f, "AUDIT", "missing_or_invalid_peer_artifact")
            ELSE CharterAnswer(f, artifact)
    BY <1>2 DEF ComplianceAnswer, RouteByMode, ValidModes, Text
  <2>2. ComplianceGraphAnswer(f) = NodeFinalize(f, state)
    BY <2>1 DEF ComplianceGraphAnswer
  <2>3. state.framework_used = "charter_v7_enforcement"
    BY DEF NodeCharterV7, NodeDispatch
  <2>4. CASE ~IsDict(artifact)
    <3>1. /\ state.refusal = "missing_or_invalid_peer_artifact" /\ state.outputs = {}
          /\ state.body = [nothing |-> TRUE]
      BY <2>4 DEF NodeCharterV7, NodeDispatch
    <3> HIDE DEF state
    <3>2. NodeFinalize(f, state) =
              NodeRefused(f, "charter_v7_enforcement", "missing_or_invalid_peer_artifact")
      BY <2>3, <3>1 DEF NodeFinalize, NodeRefused
    <3> QED
      BY <2>1, <2>2, <2>4, <3>2, SimilarRefusals
  <2>5. CASE IsDict(artifact)
    <3>1. /\ state.refusal = IF found = {} THEN "" ELSE "charter_v7_drift_detected"
          /\ state.outputs = {"verdict"} /\ state.body = [verdict |-> found]
      BY <2>5 DEF NodeCharterV7, NodeDispatch
    <3> HIDE DEF state
    <3>2. NodeFinalize(f, state) = CharterAnswer(f, artifact)
      BY <2>3, <3>1 DEF NodeFinalize, CharterAnswer
    <3> QED
      BY <2>1, <2>2, <2>5, <3>2 DEF Similar
  <2> QED
    BY <2>4, <2>5
<1>3. CASE mode = Text("compliance_review")
  <2> DEFINE state == NodeComplianceReview(p, NodeDispatch(p))
             window == Get(p, "time_window", Dict(<<>>))
  <2>1. RouteByMode(p) = "compliance_review" /\ ComplianceAnswer(f) =
            IF ~IsDict(window)
            THEN Refused(f, "AUDIT", "invalid_time_window")
            ELSE Produced(f, "compliance_review", {"evidence_bundle"}, EvidenceBundle)
    BY <1>3 DEF ComplianceAnswer, RouteByMode, ValidModes, Text
  <2>2. ComplianceGraphAnswer(f) = NodeFinalize(f, state)
    BY <2>1 DEF ComplianceGraphAnswer
  <2>3. state.framework_used = "compliance_review"
    BY DEF NodeComplianceReview, NodeDispatch
  <2>4. CASE ~IsDict(window)
    <3>1. /\ state.refusal = "invalid_time_window" /\ state.outputs = {}
          /\ state.body = [nothing |-> TRUE]
      BY <2>4 DEF NodeComplianceReview, NodeDispatch
    <3> HIDE DEF state
    <3>2. NodeFinalize(f, state) =
              NodeRefused(f, "compliance_review", "invalid_time_window")
      BY <2>3, <3>1 DEF NodeFinalize, NodeRefused
    <3> QED
      BY <2>1, <2>2, <2>4, <3>2, SimilarRefusals
  <2>5. CASE IsDict(window)
    <3>1. /\ state.refusal = "" /\ state.outputs = {"evidence_bundle"}
          /\ state.body = EvidenceBundle
      BY <2>1, <2>5 DEF NodeComplianceReview, NodeDispatch
    <3> HIDE DEF state
    <3>2. NodeFinalize(f, state) =
              Produced(f, "compliance_review", {"evidence_bundle"}, EvidenceBundle)
      BY <2>3, <3>1 DEF NodeFinalize
    <3> QED
      BY <2>1, <2>2, <2>5, <3>2 DEF Similar
  <2> QED
    BY <2>4, <2>5
<1> QED
  BY <1>1, <1>2, <1>3 DEF ValidModes

\* What the wrapper's validate node refuses, apply_synthesis refuses too.
LEMMA SynthesisFlavours ==
    ASSUME NEW p, NodeValidate(p)
    PROVE  ~ValidSynthesis(p)
<1> SUFFICES ASSUME ValidSynthesis(p) PROVE FALSE
  OBVIOUS
<1> DEFINE summary == p.dict["request_summary"]
           peers == p.dict["peer_roles_to_invoke"]
<1>1. /\ Get(p, "request_summary", Text("")) = summary
      /\ Get(p, "peer_roles_to_invoke", List(<<>>)) = peers
  BY DEF ValidSynthesis, Get
<1>2. IsText(summary) /\ Truthy(summary)
  BY DEF ValidSynthesis, Truthy
<1>3. IsList(peers) /\ Truthy(peers)
  BY DEF ValidSynthesis, Truthy
<1> QED
  BY <1>1, <1>2, <1>3 DEF NodeValidate

\* A deployment that changes the flavour of its handlers changes no answer to a dict,
\* but for the framework a refusal names (the *_graph.py wrappers).
THEOREM FlavoursAnswerAlike == Spec => []FlavoursAgree
<1>1. FlavoursAgree
  <2> SUFFICES ASSUME stack # <<>>, IsDict(Top.payload)
               PROVE  CASE Core(Top.role) = "cfo_agent" ->
                             Similar(ForecastAnswer(Top), ForecastGraphAnswer(Top))
                        [] Core(Top.role) = "compliance_agent" ->
                             Similar(ComplianceAnswer(Top), ComplianceGraphAnswer(Top))
                        [] OTHER -> NodeValidate(Top.payload) => ~ValidSynthesis(Top.payload)
    BY DEF FlavoursAgree
  <2>1. /\ Similar(ForecastAnswer(Top), ForecastGraphAnswer(Top))
        /\ Similar(ComplianceAnswer(Top), ComplianceGraphAnswer(Top))
        /\ NodeValidate(Top.payload) => ~ValidSynthesis(Top.payload)
    BY ForecastFlavours, ComplianceFlavours, SynthesisFlavours
  <2> QED
    BY <2>1
<1> QED
  BY <1>1, PTL
=============================================================================
