----------------------------- MODULE MCCostMeter -----------------------------
(* CostMeter with two calls in flight, caps worth a few estimates each and a
   clock that outlives both windows. *)
EXTENDS CostMeter

CONSTANTS c1, c2, r1, p1, p2

MCCalls == {c1, c2}
MCRoles == {r1}
MCPrincipals == {p1, p2}
MCEstimates == {1, 6}
=============================================================================
