------------------------------- MODULE Kernel -------------------------------
(***************************************************************************)
(* kernel/primitives: the registry of specs, the Constructor, the Critic   *)
(* and the Governor of a kernel that KernelBoot brought to life, and the   *)
(* program that moves artifacts from one to the next.  The primitives do   *)
(* not call one another and keep no record: what ties a decision to a spec *)
(* is what each checks of what it is handed.                               *)
(***************************************************************************)
EXTENDS KernelBoot

CONSTANTS
    Ids,            \* spec ids
    NoParent,       \* the seed's own parent
    MaxLayer,       \* bound: the highest layer
    MaxAmended,     \* bound: registered specs that are changed
    MaxArtifacts,   \* bound: artifacts constructed
    MaxReports      \* bound: critic reports

VARIABLES
    specs,      \* SpecRegistry._by_id
    artifacts,  \* the artifacts constructed: from which entry, and the spec_id they carry
    reports,    \* critic reports: the spec named, the artifact, the verdict
    layer,      \* the layer the program has reached
    amended,    \* history: registered specs changed otherwise than by signing them
    signed,     \* history: layers left with a human signature
    basis       \* history: the reports the Governor approved on

ASSUME KernelAssumption ==
    /\ NoParent \notin Ids
    /\ {MaxLayer, MaxAmended, MaxArtifacts, MaxReports} \subseteq Nat

primVars == <<specs, artifacts, reports, layer, amended, signed, basis>>
vars == <<bootVars, primVars>>

Specs == [id : Ids, parent : Ids \cup {NoParent}, signed : BOOLEAN, body : BOOLEAN]
Artifacts == [from : Ids, spec_id : Ids]
Reports == [spec : Ids, artifact : Artifacts, verdict : {"CONFORMS", "DEFECT"}]

KernelInit ==
    /\ Init
    /\ specs = <<>> /\ artifacts = {} /\ reports = {}
    /\ layer = 1 /\ amended = {} /\ signed = {} /\ basis = {}

Registered == DOMAIN specs

\* SpecRegistry.register: the id is new, the parent is there, signed or not.
Register(spec) ==
    /\ at = "serving" /\ spec.id \notin Registered
    /\ spec.parent = NoParent \/ spec.parent \in Registered
    /\ specs' = [i \in Registered \cup {spec.id} |-> IF i = spec.id THEN spec ELSE specs[i]]
    /\ UNCHANGED <<artifacts, reports, layer, amended, signed, basis>>

\* A registered Spec is a mutable model: its proposer may sign it afterwards.
Sign(id) ==
    /\ at = "serving" /\ id \in Registered /\ ~specs[id].signed
    /\ specs' = [specs EXCEPT ![id].signed = TRUE]
    /\ UNCHANGED <<artifacts, reports, layer, amended, signed, basis>>

\* And whoever holds it may change anything else: take a signature back, empty the body,
\* name another parent, registered or not, or another id; its entry stays where it is.
Amend(id, spec) ==
    /\ at = "serving" /\ id \in Registered /\ spec # specs[id]
    /\ Cardinality(amended \cup {id}) <= MaxAmended
    /\ specs' = [specs EXCEPT ![id] = spec]
    /\ amended' = amended \cup {id}
    /\ UNCHANGED <<artifacts, reports, layer, signed, basis>>

IsReal(id) == id \in Registered /\ specs[id].signed

\* Constructor.construct, which looks at the entry as it is now; its refusals change nothing.
Construct(id) ==
    /\ at = "serving" /\ id \in Registered /\ Cardinality(artifacts) < MaxArtifacts
    /\ specs[id].parent = NoParent \/ IsReal(specs[id].parent)
    /\ specs[id].body
    /\ artifacts' = artifacts \cup {[from |-> id, spec_id |-> specs[id].id]}
    /\ UNCHANGED <<specs, reports, layer, amended, signed, basis>>

\* Mutant: the artifact may be another spec's.
VerdictOnRegistered(id, artifact, body) ==
    IF id \in Registered /\ body THEN "CONFORMS" ELSE "DEFECT"

\* Critic.review: the spec is there, the artifact carries the id the spec has now, and
\* its body, a dict the program could empty, is not empty.
Verdict(id, artifact, body) ==
    IF id \in Registered /\ body /\ artifact.spec_id = specs[id].id THEN "CONFORMS" ELSE "DEFECT"

Review(id, artifact, body) ==
    /\ at = "serving" /\ artifact \in artifacts /\ Cardinality(reports) < MaxReports
    /\ reports' = reports \cup {[spec |-> id, artifact |-> artifact,
                                 verdict |-> Verdict(id, artifact, body)]}
    /\ UNCHANGED <<specs, artifacts, layer, amended, signed, basis>>

HumanApprovalRequiredLayers == {<<0, 1>>, <<1, 2>>, <<4, 5>>}

\* Governor.review_elevation approves.
Approves(from, to, based, modifies, signature) ==
    /\ \A r \in based : r.verdict = "CONFORMS"
    /\ ~modifies
    /\ <<from, to>> \in HumanApprovalRequiredLayers => signature

\* The program proposes its next layer with reports of the Critic, and goes there when
\* the Governor approves; a denial changes nothing.
ReviewElevation(based, modifies, signature) ==
    /\ at = "serving" /\ layer < MaxLayer
    /\ Approves(layer, layer + 1, based, modifies, signature)
    /\ layer' = layer + 1
    /\ signed' = IF signature THEN signed \cup {layer} ELSE signed
    /\ basis' = basis \cup based
    /\ UNCHANGED <<specs, artifacts, reports, amended>>

Primitives ==
    \/ \E spec \in Specs : Register(spec)
    \/ \E id \in Ids : Sign(id) \/ Construct(id)
    \/ \E id \in Ids, spec \in Specs : Amend(id, spec)
    \/ \E id \in Ids, artifact \in artifacts, body \in BOOLEAN : Review(id, artifact, body)
    \/ \E based \in SUBSET reports, modifies, signature \in BOOLEAN :
          ReviewElevation(based, modifies, signature)

Next == \/ BootNext /\ UNCHANGED primVars
        \/ Primitives /\ UNCHANGED bootVars

\* The script runs on, time passes, and a person at the terminal types sooner or later.
Fairness == /\ WF_vars(Run /\ UNCHANGED primVars)
            /\ WF_vars(Tick /\ UNCHANGED primVars)
            /\ WF_vars(Operator /\ UNCHANGED primVars)

Spec == KernelInit /\ [][Next]_vars /\ Fairness

-----------------------------------------------------------------------------
(* Properties *)

PrimitivesTypeOK ==
    /\ Registered \subseteq Ids /\ specs \in [Registered -> Specs]
    /\ artifacts \subseteq Artifacts /\ reports \subseteq Reports
    /\ layer \in Nat /\ amended \subseteq Registered
    /\ signed \subseteq Nat /\ basis \subseteq reports

TypeOK == BootTypeOK /\ PrimitivesTypeOK

\* The custody of an approved artifact: what the Governor approved on are conforming
\* reports about artifacts that were constructed.  Nothing keeps a registered spec as it
\* was, so where the artifact came from is known as far as nobody changed one: unless the
\* spec the report names or the one the artifact was made from was amended, they are the
\* same spec, which has a body and no parent or, unless that was amended, a real one.
\* And a program that climbs layer by layer left layers 1 and 4 with a human signature
\* only, on a kernel that is there.
ApprovalsEarned ==
    /\ \A r \in basis :
         /\ r.verdict = "CONFORMS" /\ r.artifact \in artifacts
         /\ {r.spec, r.artifact.from} \cap amended = {} =>
              LET spec == specs[r.spec] IN
              /\ r.artifact.from = r.spec
              /\ spec.body
              /\ spec.parent = NoParent \/ spec.parent \in amended \/ IsReal(spec.parent)
    /\ layer > 1 => 1 \in signed /\ kernel # <<>>
    /\ layer > 4 => 4 \in signed

\* What the seed manifest and is_real() say of specs: one without signatures cannot be
\* referenced, so no elevation rests on a report that names one, unless its signature was
\* taken back afterwards.  The Constructor asks for the signature of the parent only.
UnsignedNeverReferenced ==
    \A r \in basis : r.spec \in amended \/ IsReal(r.spec)
=============================================================================
