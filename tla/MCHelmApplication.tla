-------------------------- MODULE MCHelmApplication --------------------------
(* The specs that callers and others write in TLC's runs. *)
EXTENDS HelmApplication, TLC

S(r, c, v) == [repoURL |-> r, chart |-> c, values |-> v]

\* A repository alone, a chart with a list, and one value instead of a list.
Sent == {S("set", "-", "-"), S("-", "set", "list"), S("-", "-", "scalar")}

\* A usable application with a list, and one with nothing but a chart.
Edited == {S("set", "set", "list"), S("-", "set", "-")}

Callers == Permutations(Calls)
=============================================================================
