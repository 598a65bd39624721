---------------------------- MODULE AuditedService ----------------------------
(***************************************************************************)
(* What the node promises about its answers, with no word about how:       *)
(* requests are numbered as they come, the evidence for one is written     *)
(* once, a receipt is issued and an answer granted only on evidence, and   *)
(* neither evidence, receipt nor answer is ever taken back.                *)
(***************************************************************************)
EXTENDS Naturals

VARIABLES
    asked,     \* how many requests have come
    evidence,  \* requests whose artifact the audit chain holds
    receipts,  \* requests a receipt was issued for
    granted,   \* requests answered with an artifact
    denied     \* requests answered, or never to be answered, without one

vars == <<asked, evidence, receipts, granted, denied>>

Open(a) == a \in 1..asked /\ a \notin granted \cup denied

Init ==
    /\ asked = 0
    /\ evidence = {} /\ receipts = {} /\ granted = {} /\ denied = {}

\* A request comes; some are denied on sight.
Ask ==
    /\ asked' = asked + 1
    /\ denied' \in {denied, denied \cup {asked'}}
    /\ UNCHANGED <<evidence, receipts, granted>>

Record(a) ==
    /\ Open(a) /\ a \notin evidence
    /\ evidence' = evidence \cup {a}
    /\ UNCHANGED <<asked, receipts, granted, denied>>

Issue(a) ==
    /\ Open(a) /\ a \in evidence
    /\ receipts' = receipts \cup {a}
    /\ UNCHANGED <<asked, evidence, granted, denied>>

Grant(a) ==
    /\ Open(a) /\ a \in evidence
    /\ granted' = granted \cup {a}
    /\ UNCHANGED <<asked, evidence, receipts, denied>>

\* One request is denied, or a dying node leaves several without an answer.
Deny(S) ==
    /\ \A a \in S : Open(a)
    /\ denied' = denied \cup S
    /\ UNCHANGED <<asked, evidence, receipts, granted>>

Next ==
    \/ Ask
    \/ \E a \in 1..asked : Record(a) \/ Issue(a) \/ Grant(a)
    \/ \E S \in SUBSET (1..asked) : Deny(S)

Spec == Init /\ [][Next]_vars

-----------------------------------------------------------------------------
(* What follows from the promise *)

\* A receipt or a granted answer has evidence of a request that came, and no request is
\* both granted and denied.
Backed ==
    /\ asked \in Nat
    /\ receipts \cup granted \subseteq evidence
    /\ evidence \cup denied \subseteq 1..asked
    /\ granted \cap denied = {}

\* Nothing that was said or written is taken back.
Lasting ==
    /\ asked <= asked' /\ evidence \subseteq evidence' /\ receipts \subseteq receipts'
    /\ granted \subseteq granted' /\ denied \subseteq denied'
=============================================================================
