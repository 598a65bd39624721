------------------------------ MODULE Documents ------------------------------
(***************************************************************************)
(* What a JSON or YAML document is once Python has parsed it, as far as    *)
(* the handlers tell values apart.  A value is a record with one field,    *)
(* named for its type, so that values of different types compare unequal.  *)
(***************************************************************************)
EXTENDS Integers, Sequences

Text(s) == [text |-> s]
Number(n) == [number |-> n]
List(q) == [list |-> q]
Dict(f) == [dict |-> f]

IsText(d) == "text" \in DOMAIN d
IsNumber(d) == "number" \in DOMAIN d
IsList(d) == "list" \in DOMAIN d
IsDict(d) == "dict" \in DOMAIN d

\* k in d, for a key d may have; a text or a list of these models holds no key.
Has(d, k) == IsDict(d) /\ k \in DOMAIN d.dict

\* d.get(k, default)
Get(d, k, default) == IF Has(d, k) THEN d.dict[k] ELSE default

\* bool(d) of Python: what `if not d` tells apart.
Truthy(d) ==
    \/ IsText(d) /\ d.text # ""
    \/ IsNumber(d) /\ d.number # 0
    \/ IsList(d) /\ d.list # <<>>
    \/ IsDict(d) /\ DOMAIN d.dict # {}
=============================================================================
