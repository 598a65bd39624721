-------------------------- MODULE MCRequestPipeline --------------------------
(* RequestPipeline with two calls in flight, a wired and an unwired role, and a
   vocabulary with one class of each kind the envelope filter tells apart: allowed,
   always available (and forbidden to a role all the same), forbidden by the
   charter, both allowed and forbidden to a role, and in no list at all. *)
EXTENDS RequestPipeline

CONSTANTS c1, c2, p1, wired, unwired, stranger,
          planning, status, weapons, torn, ghost

MCCalls == {c1, c2}
MCRoles == {wired, unwired}
MCPrincipals == {p1}
MCEstimates == {1, 3}
MCStrangers == {stranger}
MCWired == {wired}
MCClasses == {planning, status, weapons, torn, ghost}
MCCharterForbidden == {weapons}
MCVocabulary == {planning, status, torn}
MCAlwaysAvailable == {status}
MCRoleAllowed == [r \in MCRoles |-> IF r = wired THEN {planning, torn} ELSE {}]
MCRoleForbidden == [r \in MCRoles |-> {weapons, torn, status}]
=============================================================================
