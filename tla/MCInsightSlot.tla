---------------------------- MODULE MCInsightSlot ----------------------------
(* The constants of InsightSlot for TLC. *)
EXTENDS InsightSlot, TLC

CONSTANTS p1, p2, c1, c2, c3

\* Two calls share a process, the third has one of its own.
TwoProcs == c1 :> p1 @@ c2 :> p1 @@ c3 :> p2

\* ARNs, queries and the calls of one process are interchangeable.
Alike == Permutations(Arns) \cup Permutations(Queries) \cup Permutations({c1, c2})
=============================================================================
