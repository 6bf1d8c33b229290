-------------------------------- MODULE Orders --------------------------------
(* Orders of finite sets: what sort.Slice and sort.Strings make of one, and in  *)
(* what order a Go map or the API server hands out its elements.                *)
EXTENDS Naturals, FiniteSets

\* How many elements of S a strict order, a set of pairs, puts before x.
Behind(x, S, before) == Cardinality({y \in S : <<y, x>> \in before})

\* S in that order, which has to be total on S.
InOrder(S, before) ==
    [i \in 1..Cardinality(S) |-> CHOOSE x \in S : Behind(x, S, before) = i - 1]

\* The numbers of S, the lowest first.
Ascending(S) == InOrder(S, {p \in S \X S : p[1] < p[2]})

\* The order in which the API server lists objects.
Stored(S) ==
    InOrder(S, {p \in S \X S : \/ p[1].ns < p[2].ns
                               \/ p[1].ns = p[2].ns /\ p[1].name < p[2].name})

\* A range over a map with these keys visits them in any order.
Ranges(keys) == {s \in [1..Cardinality(keys) -> keys] : {s[i] : i \in DOMAIN s} = keys}
=============================================================================
