--------------------------- MODULE RequestPipeline ---------------------------
(***************************************************************************)
(* platform_layer/plugin_interface.py: route_request, from the lookup of   *)
(* the role to the answer, for several calls in flight in one process.     *)
(*                                                                         *)
(* The calls share the cost meter (CostMeter, whose steps are taken here   *)
(* inside the gate and the reconciliation), the cylinder chain and the     *)
(* receipt service.  Role registry and vocabulary are fixed at boot.  The  *)
(* process may die between any two steps; the chain, the receipts and the  *)
(* answers already given outlive it, everything else is lost.              *)
(*                                                                         *)
(* Each arrival is an attempt of its own, numbered in order of arrival: a  *)
(* client that retries makes a new attempt, nothing in the code matches it *)
(* with the old one.                                                       *)
(***************************************************************************)
EXTENDS Naturals, Sequences, FiniteSets

CONSTANTS
    Calls, Roles, Principals, Est, Estimates,
    CapRequest, CapRole, CapPrincipal, CapSession,
    Day, Hour, MaxTime, MaxRestarts,   \* as in CostMeter
    Strangers,        \* role targets that are not registered
    Wired,            \* roles with an entry in role_handlers
    Classes,          \* action classes a request may name
    CharterForbidden, \* ActionClassRegistry.charter_v7_forbidden
    Vocabulary,       \* keys of ActionClassRegistry.allowed
    AlwaysAvailable,  \* those of them that are always_available
    RoleAllowed,      \* per role: allowed_action_classes
    RoleForbidden,    \* per role: forbidden_action_classes, Charter V.7 merged in
    MaxAttempts       \* bound: attempts in a behaviour

ASSUME RegistryAssumption ==
    /\ Strangers \cap Roles = {}
    /\ Wired \subseteq Roles
    /\ AlwaysAvailable \subseteq Vocabulary

\* What ActionClassRegistry.from_yaml and PermissionSpec.from_yaml refuse to load.
ASSUME LoadedSpecAssumption ==
    /\ CharterForbidden \cap Vocabulary = {}
    /\ RoleAllowed \in [Roles -> SUBSET Vocabulary]
    /\ \A r \in Roles : CharterForbidden \subseteq RoleForbidden[r]

ASSUME AttemptsAssumption == MaxAttempts \in Nat

VARIABLES
    now, sessionTotal, roleSpend, principalSpend, phase, callRole, callPrincipal,
    stamp, forgotten, restarts,   \* the shared CostMeter
    stage,      \* how far each call is inside route_request
    mine,       \* the attempt a call works on
    about,      \* what the call is about to seal, or has sealed
    attempts,   \* history: one record per attempt, with its outcome
    chain,      \* the cylinder chain on disk
    receipts    \* attempts the receipt service has issued a receipt for

meterVars == <<now, sessionTotal, roleSpend, principalSpend, phase, callRole,
               callPrincipal, stamp, forgotten, restarts>>
vars == <<meterVars, stage, mine, about, attempts, chain, receipts>>

Meter == INSTANCE CostMeter

\* The constants the meter shares are what CostMeter assumes of them.
ASSUME MeterAssumption ==
    /\ Meter!CallsAssumption
    /\ Meter!AmountAssumption
    /\ Meter!NamesAssumption
    /\ Meter!TimeAssumption

Stage == {"ready", "gate", "handler", "reconcile", "seal", "written", "mint", "answer"}
About == {"artifact", "cost_ceiling_breach", "critic_non_conforming"}
Screenings == {"role_unknown", "class_unknown", "class_forbidden", "class_outside"}
Refusals == Screenings \cup {"cost_ceiling_breach", "critic_non_conforming"}
Outcomes == Refusals \cup {"open", "accepted", "stub", "handler_error", "audit_error", "lost"}

-----------------------------------------------------------------------------
(* The envelope filter *)

Known == Vocabulary \cup CharterForbidden

\* Mutant: every class of the vocabulary passes, whatever the role's envelope.
VerdictKnownIsEnough(r, k) == IF k \in Known THEN "ok" ELSE "class_unknown"

\* PermissionSpec.check: an always-available class passes before anything is
\* looked up, a class the role allows passes unless the role also forbids it.
Verdict(r, k) ==
    CASE k \in AlwaysAvailable \cup (RoleAllowed[r] \ RoleForbidden[r])    -> "ok"
      [] k \notin Known                                                    -> "class_unknown"
      [] k \in (Known \cap RoleForbidden[r]) \ AlwaysAvailable             -> "class_forbidden"
      [] k \in Known \ (RoleForbidden[r] \cup RoleAllowed[r] \cup AlwaysAvailable)
                                                                           -> "class_outside"

\* What a request is answered with on sight, or "ok": the registry is asked first.
Screened(r, k) == IF r \in Strangers THEN "role_unknown" ELSE Verdict(r, k)

-----------------------------------------------------------------------------
(* Helpers *)

Go(c, from, to) ==
    /\ stage[c] = from
    /\ stage' = [stage EXCEPT ![c] = to]

\* The call returns or raises: its attempt gets its outcome and the call is free.
Finish(c, from, outcome) ==
    /\ Go(c, from, "ready")
    /\ attempts' = [attempts EXCEPT ![mine[c]].outcome = outcome]

Role(c) == attempts[mine[c]].role
Principal(c) == attempts[mine[c]].principal

\* Which records of the chain come from attempt a.
CylindersOf(a) == {i \in DOMAIN chain : chain[i].attempt = a}

-----------------------------------------------------------------------------
Init ==
    /\ Meter!Init
    /\ stage = [c \in Calls |-> "ready"]
    /\ mine = [c \in Calls |-> 0]
    /\ about = [c \in Calls |-> "artifact"]
    /\ attempts = <<>>
    /\ chain = <<>>
    /\ receipts = {}

\* A request arrives and is looked up: an unregistered target or a class outside
\* the envelope is answered at once, without a word to the Auditor.
Receive(c, r, p, k) ==
    /\ stage[c] = "ready"
    /\ Len(attempts) < MaxAttempts
    /\ LET verdict == Screened(r, k)
           ok == verdict = "ok"
       IN  /\ attempts' = Append(attempts,
                 [role |-> r, principal |-> p, class |-> k, ran |-> FALSE, cylinder |-> 0,
                  outcome |-> IF ok THEN "open" ELSE verdict])
           /\ stage' = [stage EXCEPT ![c] = IF ok THEN "gate" ELSE "ready"]
           /\ mine' = [mine EXCEPT ![c] = Len(attempts) + 1]
    /\ UNCHANGED <<meterVars, about, chain, receipts>>

\* The cost gate, cap by cap.
GateRole(c, e) ==
    /\ stage[c] = "gate"
    /\ Meter!CheckRole(c, Role(c), Principal(c), e)
    /\ UNCHANGED <<stage, mine, about, attempts, chain, receipts>>

GateOthers(c) ==
    /\ stage[c] = "gate"
    /\ Meter!CheckPrincipal(c) \/ Meter!CheckSession(c)
    /\ UNCHANGED <<stage, mine, about, attempts, chain, receipts>>

\* Mutant: a call over a cap tries again instead of being refused.
GateRefusesRetries(c) ==
    /\ stage[c] = "gate"
    /\ Meter!Refuse(c)
    /\ UNCHANGED <<stage, mine, about, attempts, chain, receipts>>

\* CostCapBreach: the refusal is audited before it is answered.
GateRefuses(c) ==
    /\ Go(c, "gate", "seal")
    /\ Meter!Refuse(c)
    /\ about' = [about EXCEPT ![c] = "cost_ceiling_breach"]
    /\ UNCHANGED <<mine, attempts, chain, receipts>>

\* Mutant: the stub gives an estimate back that was never charged.
AnswerStubRefunds(c) ==
    /\ Finish(c, "gate", "stub")
    /\ Role(c) \notin Wired
    /\ Meter!Move(c, "reserved", "idle")
    /\ sessionTotal' = sessionTotal - Est
    /\ UNCHANGED <<now, roleSpend, principalSpend, callRole, callPrincipal, stamp, forgotten,
                   restarts, mine, about, chain, receipts>>

\* No handler is wired: the stub is accepted, the reservation is dropped and
\* nothing is audited.
AnswerStub(c) ==
    /\ Finish(c, "gate", "stub")
    /\ Role(c) \notin Wired
    /\ Meter!Abandon(c)
    /\ UNCHANGED <<mine, about, chain, receipts>>

\* Mutant: the handler is invoked while the gate is still deciding.
InvokeEarly(c) ==
    /\ Go(c, "gate", "handler")
    /\ phase[c] \in {"role_ok", "principal_ok", "reserved"}
    /\ Role(c) \in Wired
    /\ attempts' = [attempts EXCEPT ![mine[c]].ran = TRUE]
    /\ UNCHANGED <<meterVars, mine, about, chain, receipts>>

Invoke(c) ==
    /\ Go(c, "gate", "handler")
    /\ phase[c] = "reserved"
    /\ Role(c) \in Wired
    /\ attempts' = [attempts EXCEPT ![mine[c]].ran = TRUE]
    /\ UNCHANGED <<meterVars, mine, about, chain, receipts>>

\* The handler's exception reaches the caller; nothing is audited.
HandlerRaises(c) ==
    /\ Finish(c, "handler", "handler_error")
    /\ Meter!Abandon(c)
    /\ UNCHANGED <<mine, about, chain, receipts>>

\* The critic refuses the artifact: the refusal is audited, never charged.
CriticRefuses(c) ==
    /\ Go(c, "handler", "seal")
    /\ Meter!Abandon(c)
    /\ about' = [about EXCEPT ![c] = "critic_non_conforming"]
    /\ UNCHANGED <<mine, attempts, chain, receipts>>

\* Mutant: a conforming artifact is sealed before it is charged.
CriticPassesUncharged(c) ==
    /\ Go(c, "handler", "seal")
    /\ Meter!Abandon(c)
    /\ about' = [about EXCEPT ![c] = "artifact"]
    /\ UNCHANGED <<mine, attempts, chain, receipts>>

CriticPasses(c) ==
    /\ Go(c, "handler", "reconcile")
    /\ about' = [about EXCEPT ![c] = "artifact"]
    /\ UNCHANGED <<meterVars, mine, attempts, chain, receipts>>

\* The reconciliation: its last write takes the call on to the seal.
Reconcile(c) ==
    /\ stage[c] = "reconcile"
    /\ \/ (Meter!ReadClock(c) \/ Meter!ReconcileRole(c) \/ Meter!ReconcilePrincipal(c))
          /\ UNCHANGED stage
       \/ Meter!ReconcileSession(c) /\ Go(c, "reconcile", "seal")
    /\ UNCHANGED <<mine, about, attempts, chain, receipts>>

\* Mutant: seal.sh failed before it wrote and the call goes on regardless.
SealFailsIgnored(c) ==
    /\ Go(c, "seal", "mint")
    /\ UNCHANGED <<meterVars, mine, about, attempts, chain, receipts>>

\* seal.sh fails, or is killed by its timeout, before it wrote a cylinder.
SealFails(c) ==
    /\ Finish(c, "seal", "audit_error")
    /\ UNCHANGED <<meterVars, mine, about, chain, receipts>>

\* seal.sh writes the cylinder of this attempt.
SealWrites(c) ==
    /\ Go(c, "seal", "written")
    /\ chain' = Append(chain, [attempt |-> mine[c], about |-> about[c], process |-> restarts])
    /\ UNCHANGED <<meterVars, mine, about, attempts, receipts>>

\* Mutant: a seal that raised after the write is tried again.
SealRaisesRetried(c) ==
    /\ Go(c, "written", "seal")
    /\ UNCHANGED <<meterVars, mine, about, attempts, chain, receipts>>

\* The cylinder is on disk but the adapter raises: the timeout struck after the
\* write, the output does not parse, or the sentinel's hook found the chain bad.
SealRaises(c) ==
    /\ Finish(c, "written", "audit_error")
    /\ UNCHANGED <<meterVars, mine, about, chain, receipts>>

\* Mutant: the refusal path goes on to the mint as the accepting path does.
SealReturnsToMint(c) ==
    /\ Go(c, "written", "mint")
    /\ \E i \in CylindersOf(mine[c]) : attempts' = [attempts EXCEPT ![mine[c]].cylinder = i]
    /\ UNCHANGED <<meterVars, mine, about, chain, receipts>>

\* _apply_audit returns the id of the cylinder; an artifact goes on to the mint.
SealReturns(c) ==
    /\ Go(c, "written", IF about[c] = "artifact" THEN "mint" ELSE "answer")
    /\ \E i \in CylindersOf(mine[c]) : attempts' = [attempts EXCEPT ![mine[c]].cylinder = i]
    /\ UNCHANGED <<meterVars, mine, about, chain, receipts>>

\* The mint is best effort: whatever the minter answers or raises, the call goes
\* on, and a receipt may have been issued although the answer was lost.
Mint(c, issued) ==
    /\ Go(c, "mint", "answer")
    /\ receipts' = IF issued THEN receipts \cup {mine[c]} ELSE receipts
    /\ UNCHANGED <<meterVars, mine, about, attempts, chain>>

Answer(c) ==
    /\ Finish(c, "answer", IF about[c] = "artifact" THEN "accepted" ELSE about[c])
    /\ UNCHANGED <<meterVars, mine, about, chain, receipts>>

Tick ==
    /\ Meter!Tick
    /\ UNCHANGED <<stage, mine, about, attempts, chain, receipts>>

\* The process dies and is started again: calls in flight are never answered.
Restart ==
    /\ Meter!Restart
    /\ stage' = [c \in Calls |-> "ready"]
    /\ attempts' = [a \in DOMAIN attempts |->
                       IF attempts[a].outcome = "open"
                       THEN [attempts[a] EXCEPT !.outcome = "lost"] ELSE attempts[a]]
    /\ UNCHANGED <<mine, about, chain, receipts>>

\* The bound on attempts is reached and every call has ended: the node waits.
Idle ==
    /\ Len(attempts) = MaxAttempts
    /\ \A c \in Calls : stage[c] = "ready"
    /\ UNCHANGED vars

\* The steps a call takes once its request was admitted.
Proceed(c) ==
    \/ \E e \in Estimates : GateRole(c, e)
    \/ GateOthers(c)
    \/ GateRefuses(c)
    \/ AnswerStub(c)
    \/ Invoke(c)
    \/ HandlerRaises(c)
    \/ CriticRefuses(c)
    \/ CriticPasses(c)
    \/ Reconcile(c)
    \/ SealFails(c)
    \/ SealWrites(c)
    \/ SealRaises(c)
    \/ SealReturns(c)
    \/ \E issued \in BOOLEAN : Mint(c, issued)
    \/ Answer(c)

Next ==
    \/ \E c \in Calls, r \in Roles \cup Strangers, p \in Principals, k \in Classes :
           Receive(c, r, p, k)
    \/ \E c \in Calls : Proceed(c)
    \/ Tick
    \/ Restart
    \/ Idle

Spec == Init /\ [][Next]_vars

\* Every step of an admitted call is code of the process itself, or waits for a
\* subprocess or a post that has a timeout.
FairSpec == Spec /\ \A c \in Calls : WF_vars(Proceed(c))

-----------------------------------------------------------------------------
Attempt == [role : Roles \cup Strangers, principal : Principals, class : Classes,
            ran : BOOLEAN, cylinder : Nat, outcome : Outcomes]
Cylinder == [attempt : 1..MaxAttempts, about : About, process : 0..MaxRestarts]

TypeOK ==
    /\ Meter!TypeOK
    /\ stage \in [Calls -> Stage]
    /\ mine \in [Calls -> 0..MaxAttempts]
    /\ about \in [Calls -> About]
    /\ attempts \in Seq(Attempt) /\ Len(attempts) <= MaxAttempts
    /\ chain \in Seq(Cylinder)
    /\ receipts \subseteq 1..MaxAttempts

\* No bypass of the chain: an accepted answer of a handler, and a refusal by the
\* cost gate or the critic, names a cylinder that is on the chain, is about this
\* very attempt and says what the answer says.  "Audit fires on success AND
\* refusal" (plugin_interface.py:528) holds no further than that: a request that
\* is refused on sight, or answered by the stub or with the handler's exception,
\* never leaves a cylinder.
AnswersAudited ==
    \A a \in DOMAIN attempts :
        /\ attempts[a].outcome \in {"accepted", "cost_ceiling_breach", "critic_non_conforming"} =>
              /\ attempts[a].cylinder \in CylindersOf(a)
              /\ chain[attempts[a].cylinder].about =
                     IF attempts[a].outcome = "accepted" THEN "artifact" ELSE attempts[a].outcome
        /\ attempts[a].outcome \in Screenings \cup {"stub", "handler_error"} =>
              CylindersOf(a) = {}

\* No attempt is sealed twice, not even when the answer was lost or the adapter
\* raised after the write.
SealedOnce == \A a \in DOMAIN attempts : Cardinality(CylindersOf(a)) <= 1

\* The handler never sees a request that Charter V.7 forbids, whose class its role
\* does not allow or forbids while it allows it, or that holds no reservation.  An
\* always-available class passes whatever the role's own lists say of it, as
\* action_classes.yaml:109 announces; the charter's list it cannot pass.
OnlyAdmittedRuns ==
    /\ \A a \in DOMAIN attempts : attempts[a].ran =>
           /\ attempts[a].role \in Wired
           /\ attempts[a].class \notin CharterForbidden
           /\ \/ attempts[a].class \in AlwaysAvailable
              \/ attempts[a].class \in
                     RoleAllowed[attempts[a].role] \ RoleForbidden[attempts[a].role]
    /\ \A c \in Calls : stage[c] = "handler" => phase[c] = "reserved"

\* The session is charged once for each artifact it sealed, is sealing or failed
\* to seal, and for nothing else: refusals, stubs and raising handlers are free,
\* and a charge whose seal failed is not given back.
ChargedForArtifacts ==
    LET sealedNow == {a \in DOMAIN attempts : \E i \in CylindersOf(a) :
                         chain[i].about = "artifact" /\ chain[i].process = restarts}
        sealing == {c \in Calls : stage[c] = "seal" /\ about[c] = "artifact"}
        unsealed == {a \in DOMAIN attempts : /\ attempts[a].outcome = "audit_error"
                                             /\ CylindersOf(a) = {}}
        charged == Cardinality(sealedNow) + Cardinality(sealing)
    IN  /\ Est * charged <= sessionTotal
        /\ sessionTotal <= Est * (charged + Cardinality(unsealed))

\* Read through the outcomes and the chain, the pipeline is the audited service:
\* evidence first, receipt and accepted answer after it, nothing taken back.
Outcome(set) == {a \in DOMAIN attempts : attempts[a].outcome \in set}
Promise == INSTANCE AuditedService WITH
    asked <- Len(attempts),
    evidence <- {chain[i].attempt : i \in {j \in DOMAIN chain : chain[j].about = "artifact"}},
    receipts <- receipts,
    granted <- Outcome({"accepted"}),
    denied <- Outcome(Outcomes \ {"open", "accepted"})
KeepsPromise == Promise!Spec

\* Every admitted request is answered, one way or another, or its process dies:
\* a call never keeps its place for ever.
Answered == \A c \in Calls : stage[c] # "ready" ~> stage[c] = "ready"
=============================================================================
