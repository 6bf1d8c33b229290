--------------------------- MODULE MCWorkloadWrites ---------------------------
(* Which tasks the calls are of, for TLC.                                  *)
EXTENDS WorkloadWatch, TLC

\* Scalings, restarts, or evictions and NodeClaim deletions together: no task of
\* one of these reads what one of another writes.
Together == [Calls -> {"scale"}] \cup [Calls -> {"restart"}]
              \cup [Calls -> {"evict", "nodeclaim"}]

Callers == Permutations(Calls)
=============================================================================
