------------------------------ MODULE MCKernel ------------------------------
(* Kernel with two good releases and checkouts that fail each test, and two specs. *)
EXTENDS Kernel, TLC

CONSTANTS t1, t2, p1, p2, ban, plan, none, a, b

Good(t, p, allowed) ==
    [fingerprints |-> [constitution |-> t, charter |-> t],
     manifest |-> [parents |-> TRUE, prompts |-> p],
     constitution |-> t, charter |-> t,
     classes |-> [allowed |-> {plan}, forbidden |-> {ban}],
     specs |-> [r \in RoleSet |-> [allowed |-> allowed, forbidden |-> {}]],
     seal_sh |-> TRUE, chain |-> TRUE, taxonomy |-> TRUE]

First == Good(t1, p1, {plan})

\* Files gone, and files that will not do.
Bare == [fingerprints |-> Missing, manifest |-> Missing, constitution |-> Missing, charter |-> Missing,
         classes |-> Missing, specs |-> [r \in RoleSet |-> Missing],
         seal_sh |-> FALSE, chain |-> FALSE, taxonomy |-> FALSE]
Faulty == [Good(t2, Missing, {ban}) EXCEPT !.manifest.parents = FALSE,
              !.classes = [allowed |-> {ban}, forbidden |-> {ban}]]
\* The classes of a later release forbid what an earlier one allowed.
Second == [Good(t2, p2, {plan, ban}) EXCEPT !.classes = [allowed |-> {ban}, forbidden |-> {plan}]]

MCReleases == {First, Second, Faulty, Bare}
MCGoodRelease == {First}
MCRoles == <<"cfo_agent", "synthesis_agent">>
MCMaxEdits == [script |-> 3, program |-> 0]
MCNoEdits == [script |-> 0, program |-> 0]
=============================================================================
