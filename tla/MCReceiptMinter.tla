--------------------------- MODULE MCReceiptMinter ---------------------------
(* ReceiptMinter with two threads, a limit of two a minute, and the three
   kinds of section the taxonomy has; a configuration chooses the events asked for. *)
EXTENDS ReceiptMinter

CONSTANTS t1, t2, p1, p2, boot, brief, acted

MCThreads == {t1, t2}
MCPrincipals == {p1, p2}
MCEvents == {boot, acted}
MCDeniedEvents == {brief}
MCTaxonomy ==
    [section \in {"kernel", "default_deny_explicit", "configurable"} |->
        CASE section = "kernel"                -> {[event |-> boot, default |-> "unset"]}
          [] section = "default_deny_explicit" -> {[event |-> brief, default |-> "unset"]}
          [] section = "configurable"          -> {[event |-> acted, default |-> "off"]}]
MCSymmetry == Permutations(MCThreads) \cup Permutations(MCPrincipals)
MCLimit == [e \in {boot, brief, acted} |-> 2]
=============================================================================
