----------------------------- MODULE MCNodeApi -----------------------------
(* NodeApi with checkouts chosen for the branches of the handlers, and a chain of up
   to five cylinders of two kinds, one more than a replay takes. *)
EXTENDS NodeApi, TLC

CONSTANTS alice, nobody, breach, plain

Mapping(series, platform) ==
    [kind |-> "mapping", series |-> series, platform |-> platform, worded |-> TRUE]
Unusable(k) == [kind |-> k, series |-> <<>>, platform |-> "absent", worded |-> FALSE]
Active(level) == [active |-> TRUE, level |-> level]
Inactive == [active |-> FALSE, level |-> Number(3)]

Tree(m, whole, env, fallback) ==
    [manifest |-> m, kernel |-> whole, keys |-> whole, specs |-> whole,
     listed |-> IF whole THEN {<<"family", "family_cfo_agent_v1">>, <<"_base", "base_constitution_v1">>}
                ELSE {},
     env |-> env, fallback |-> fallback]

MCHome == Tree(Mapping(<<>>, "mapping"), TRUE, "directory", FALSE)

MCTrees == {
    MCHome,
    Tree(Mapping(<<Inactive, Active(Number(4)), Active(Number(2))>>, "absent"), TRUE, "unset", TRUE),
    Tree(Mapping(<<Active(Text("two"))>>, "mapping"), FALSE, "gone", TRUE),
    Tree(Mapping(<<Active(List(<<>>))>>, "mapping"), FALSE, "unset", FALSE),
    Tree(Mapping(<<>>, "other"), TRUE, "gone", FALSE),
    Tree([Mapping(<<>>, "absent") EXCEPT !.worded = FALSE], TRUE, "unset", TRUE),
    Tree(Unusable("absent"), FALSE, "directory", TRUE),
    Tree(Unusable("unparsable"), TRUE, "unset", TRUE) }

\* Nothing tells the kinds of cylinder apart but the filter, which takes either.
MCSymmetry == Permutations({breach, plain})

\* A filter found in no kind, in either one, or in both.
MCFilters == SUBSET Kinds

\* With no callable, with one that knows a principal and with one that answers nobody.
MCServers == [authenticate : Callers \cup {NotGiven}, checked : BOOLEAN]

MCRegistries == {{nobody}, {}, {"cfo_agent"}}
=============================================================================
