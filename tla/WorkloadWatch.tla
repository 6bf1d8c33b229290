---------------------------- MODULE WorkloadWatch ----------------------------
(***************************************************************************)
(* What the checks of the write tasks are worth although nothing ties them *)
(* to the write: everything a check found was so at some moment of the     *)
(* call.  History variables keep, for each call, what has been so ever     *)
(* since it was made; they are not part of the program.                    *)
(***************************************************************************)
EXTENDS WorkloadWrites

VARIABLES
    alwaysOut,      \* annotations that have opted out during all of the call
    alwaysBlocked,  \* the budget has been visibly blocked during all of it
    during,         \* the replicas there have been during the call
    rolledBefore    \* rollouts before the call

history == <<alwaysOut, alwaysBlocked, during, rolledBefore>>
watchVars == <<vars, history>>

\* The annotations that opt out of their task; those from before the rename
\* still opt out of the two tasks whose code says so.
Out(m) == {a \in Annotations : \/ m[a] = "true"
                               \/ m[a] = "legacy" /\ a[2] \in {"scale", "restart"}}

WatchTypeOK ==
    /\ TypeOK
    /\ alwaysOut \in [Calls -> SUBSET Annotations]
    /\ alwaysBlocked \in [Calls -> BOOLEAN]
    /\ during \in [Calls -> SUBSET Replicas]
    /\ rolledBefore \in [Calls -> Nat]

WatchInit ==
    /\ Init
    /\ alwaysOut = [c \in Calls |-> Annotations]
    /\ alwaysBlocked = [c \in Calls |-> TRUE]
    /\ during = [c \in Calls |-> {}]
    /\ rolledBefore = [c \in Calls |-> 0]

\* The step is one that call c may see the state before: it is being made, or
\* has been made and has not ended.
Sees(c) == pc'[c] # "idle" /\ pc[c] \notin Outcomes

Watch ==
    /\ alwaysOut' = [c \in Calls |->
           IF Sees(c) THEN alwaysOut[c] \cap Out(marks) ELSE alwaysOut[c]]
    /\ alwaysBlocked' = [c \in Calls |->
           IF Sees(c) THEN alwaysBlocked[c] /\ budget = "blocked" ELSE alwaysBlocked[c]]
    /\ during' = [c \in Calls |->
           IF Sees(c) THEN during[c] \cup {replicas} ELSE during[c]]
    /\ rolledBefore' = [c \in Calls |->
           IF pc[c] = "idle" THEN rollouts ELSE rolledBefore[c]]

WatchSpec == WatchInit /\ [][Next /\ Watch]_watchVars

Written == {"done", "unanswered"}

-----------------------------------------------------------------------------
\* A task never writes an object whose opt-out, or whose namespace's, has been
\* there since before the call.  Only nodeclaim_delete has a way around its
\* annotation, and does not ask a namespace.
OptOutHonoured ==
    \A c \in Calls : pc[c] \in Written =>
        /\ kind[c] # "nodeclaim" => <<"namespace", kind[c]>> \notin alwaysOut[c]
        /\ kind[c] # "nodeclaim" \/ ~force[c] => <<"object", kind[c]>> \notin alwaysOut[c]

\* A scale-up is at most threefold of replicas there have been during the call,
\* or from zero; down to zero only if that was allowed.
ScaleWithinCall ==
    \A c \in Calls : pc[c] \in Written /\ kind[c] = "scale" =>
        /\ \E n \in during[c] : n = 0 \/ want[c] <= n * 3
        /\ want[c] = 0 => allowZero[c]

\* The restart of a Deployment or StatefulSet happens only if its visible
\* budgets have not been blocked during all of the call.
BudgetHonoured ==
    \A c \in Calls : pc[c] \in Written /\ kind[c] = "restart" /\ ~daemon[c]
                       => ~alwaysBlocked[c]

\* "restart triggered": a rollout has begun since the call was made, unless
\* another restart has the same second in its annotation.
RestartRolls ==
    \A c \in Calls : pc[c] = "done" /\ kind[c] = "restart" =>
        \/ rollouts > rolledBefore[c]
        \/ \E d \in Calls \ {c} : stamp[d] = stamp[c]
=============================================================================
