---------------------------- MODULE WorkloadWrites ----------------------------
(***************************************************************************)
(* The imperative write tasks workload_scale, workload_restart, pod_evict  *)
(* and nodeclaim_delete.  Each reads what might forbid the operation, one  *)
(* Kubernetes request after the other, and then writes without a           *)
(* precondition; the objects may change between any two requests.          *)
(*                                                                         *)
(* There is one object of each sort: a namespace, a workload, a pod and a  *)
(* NodeClaim.  An action is one request with what the task decides on its  *)
(* answer.                                                                 *)
(***************************************************************************)
EXTENDS Integers, FiniteSets

CONSTANTS
    Calls,        \* calls of the tasks
    Mixes,        \* bound: which of the four tasks the calls are of
    Wanted,       \* bound: the replicas that calls ask for
    Replicas,     \* bound: the replicas a workload may have
    MaxEdits,     \* bound: changes that others make
    MaxSecond     \* bound on the clock

Tasks == {"scale", "restart", "evict", "nodeclaim"}

ASSUME WritesAssumption ==
    /\ Mixes \subseteq [Calls -> Tasks]
    /\ Replicas \subseteq Nat /\ Wanted \subseteq Replicas
    /\ MaxEdits \in Nat /\ MaxSecond \in Nat \ {0}

\* What a task's opt-out annotation says: it is missing, "true" under its
\* current key, "true" under the key from before the rename, or has another
\* value under the current key.
Marks == {"missing", "true", "legacy", "other"}

\* The annotation of a task on the namespace, and on the object it writes.
Annotations == {"namespace", "object"} \X Tasks

\* Whether a PodDisruptionBudget for the workload's pods allows a disruption;
\* "unseen" is one that does not, and selects the pods with an expression.
Budgets == {"none", "open", "blocked", "unseen"}

VARIABLES
    marks,        \* the annotations
    replicas,     \* spec.replicas of the workload
    budget,       \* the budget of its pods
    restartedAt,  \* its restartedAt annotation: a second, or 0
    rollouts,     \* how often its pod template was changed
    pod,          \* the pod's name is taken
    claim,        \* the NodeClaim exists
    clock,        \* the second it is
    edits,        \* changes made by others so far
    pc,           \* where a call is, or its outcome
    kind,         \* which task it calls
    want,         \* scale: replicas,
    allowZero,    \*   allow_scale_to_zero
    daemon,       \* restart: of a DaemonSet
    force,        \* evict and nodeclaim: force
    dryRun,       \* dry_run
    read,         \* the replicas that scale read
    stamp         \* the restartedAt that restart is about to write

cluster == <<marks, replicas, budget, restartedAt, rollouts, pod, claim>>
payload == <<kind, want, allowZero, daemon, force, dryRun>>
local == <<read, stamp>>
vars == <<cluster, clock, edits, pc, payload, local>>

Outcomes == {"refused", "dry", "done", "error",
             "unanswered"} \* an error too: the write was done, its answer lost

TypeOK ==
    /\ marks \in [Annotations -> Marks]
    /\ replicas \in Replicas
    /\ budget \in Budgets
    /\ restartedAt \in 0..MaxSecond
    /\ rollouts \in Nat
    /\ pod \in {"gone", "there"} /\ claim \in {"gone", "there"}
    /\ clock \in 1..MaxSecond
    /\ edits \in 0..MaxEdits
    /\ pc \in [Calls -> {"idle", "namespace", "object", "check", "write"} \cup Outcomes]
    /\ kind \in Mixes
    /\ want \in [Calls -> Wanted]
    /\ allowZero \in [Calls -> BOOLEAN] /\ daemon \in [Calls -> BOOLEAN]
    /\ force \in [Calls -> BOOLEAN] /\ dryRun \in [Calls -> BOOLEAN]
    /\ read \in [Calls -> Nat]
    /\ stamp \in [Calls -> 0..MaxSecond]

-----------------------------------------------------------------------------
\* hasNoScaleAnnotation, hasNoRestartAnnotation, hasNoEvictAnnotation and
\* karpenter.sh/do-not-disrupt: four readings of an annotation.
OptedOut(task, mark) ==
    \/ task \in {"scale", "restart"} /\ mark \in {"true", "legacy"}
    \/ task = "evict" /\ mark \in {"true", "other"}
    \/ task = "nodeclaim" /\ mark = "true"

\* The tasks that are called: nothing else reads the other tasks' annotations.
Called == {kind[c] : c \in Calls}

\* Payloads; what a task does not have is fixed.
Init ==
    /\ kind \in Mixes
    /\ marks = [a \in Annotations |-> "missing"]
    /\ replicas \in Replicas \ {0}
    /\ "scale" \in Called \/ replicas = CHOOSE n \in Replicas \ {0} : TRUE
    /\ budget \in Budgets
    /\ Called \cap {"restart", "evict"} # {} \/ budget = "none"
    /\ restartedAt = 0 /\ rollouts = 0
    /\ pod = "there" /\ claim = "there"
    /\ clock = 1 /\ edits = 0
    /\ pc = [c \in Calls |-> "idle"]
    /\ want \in [Calls -> Wanted]
    /\ allowZero \in [Calls -> BOOLEAN] /\ daemon \in [Calls -> BOOLEAN]
    /\ force \in [Calls -> BOOLEAN] /\ dryRun \in [Calls -> BOOLEAN]
    /\ \A c \in Calls :
         /\ kind[c] # "scale" => want[c] = (CHOOSE n \in Wanted : TRUE) /\ ~allowZero[c]
         /\ kind[c] # "restart" => ~daemon[c]
         /\ kind[c] \notin {"evict", "nodeclaim"} => ~force[c]
    /\ read = [c \in Calls |-> 0]
    /\ stamp = [c \in Calls |-> 0]

Return(c, outcome) == pc' = [pc EXCEPT ![c] = outcome]

-----------------------------------------------------------------------------
\* validatePayload: zero replicas must be asked for twice.
Call(c) ==
    /\ pc[c] = "idle"
    /\ Return(c, IF kind[c] = "scale" /\ want[c] = 0 /\ ~allowZero[c] THEN "refused"
                 ELSE IF kind[c] = "nodeclaim" THEN "object" ELSE "namespace")
    /\ UNCHANGED <<cluster, clock, edits, payload, local>>

\* The Get of the namespace.
GetNamespace(c) ==
    /\ pc[c] = "namespace"
    /\ \/ Return(c, IF OptedOut(kind[c], marks[<<"namespace", kind[c]>>])
                    THEN "refused" ELSE "object")
       \/ Return(c, "error")
    /\ UNCHANGED <<cluster, clock, edits, payload, local>>

\* Mutant of TooMuch: the bound is taken from what is asked for.
TooMuchDown(c) == replicas > 0 /\ want[c] * 3 < replicas

\* More than three times what there is; from zero anything goes.
TooMuch(c) == replicas > 0 /\ want[c] > replicas * 3

\* What a call whose checks have passed does next.
Passed(c) == IF dryRun[c] THEN "dry" ELSE "write"

\* The object's annotation opts out of what call c is about to do.
ObjectOut(c) == OptedOut(kind[c], marks[<<"object", kind[c]>>])

\* The Get of a workload to scale, with the limit on what it has.
ReadToScale(c) ==
    /\ kind[c] = "scale"
    /\ Return(c, IF ObjectOut(c) \/ TooMuch(c) THEN "refused" ELSE "check")
    /\ read' = [read EXCEPT ![c] = replicas]
    /\ UNCHANGED stamp

\* The Get of a workload to restart.  A DaemonSet's budgets are not looked at.
ReadToRestart(c) ==
    /\ kind[c] = "restart"
    /\ Return(c, IF ObjectOut(c) THEN "refused" ELSE IF daemon[c] THEN Passed(c) ELSE "check")
    /\ stamp' = [stamp EXCEPT ![c] = clock]
    /\ UNCHANGED read

\* Mutant of ReadPod: force overrides the annotation.
ReadPodForced(c) ==
    /\ kind[c] = "evict" /\ pod = "there"
    /\ Return(c, IF ObjectOut(c) /\ ~force[c] THEN "refused" ELSE Passed(c))
    /\ UNCHANGED local

\* The Get of a pod to evict or delete.
ReadPod(c) ==
    /\ kind[c] = "evict" /\ pod = "there"
    /\ Return(c, IF ObjectOut(c) THEN "refused" ELSE Passed(c))
    /\ UNCHANGED local

\* The Get of a NodeClaim; force overrides its annotation.
ReadNodeClaim(c) ==
    /\ kind[c] = "nodeclaim" /\ claim = "there"
    /\ Return(c, IF ObjectOut(c) /\ ~force[c] THEN "refused" ELSE Passed(c))
    /\ UNCHANGED local

GetObject(c) ==
    /\ pc[c] = "object"
    /\ \/ ReadToScale(c) \/ ReadToRestart(c) \/ ReadPod(c) \/ ReadNodeClaim(c)
       \/ Return(c, "error") /\ UNCHANGED local
    /\ UNCHANGED <<cluster, clock, edits, payload>>

\* checkHPA's List, which at most adds a warning.
CheckHPA(c) ==
    /\ kind[c] = "scale"
    /\ Return(c, Passed(c))
    /\ UNCHANGED stamp

\* Mutant of CheckPDB: a blocked budget is not looked at.
CheckPDBNever(c) ==
    /\ kind[c] = "restart"
    /\ Return(c, Passed(c))
    /\ stamp' = [stamp EXCEPT ![c] = clock]

\* checkPDB's List, which matches budgets by their labels only; then the time
\* is taken for the annotation.
CheckPDB(c) ==
    /\ kind[c] = "restart"
    /\ Return(c, IF budget = "blocked" THEN "refused" ELSE Passed(c))
    /\ stamp' = [stamp EXCEPT ![c] = clock]

Check(c) ==
    /\ pc[c] = "check"
    /\ \/ CheckHPA(c) \/ CheckPDB(c)
       \/ Return(c, "error") /\ UNCHANGED stamp
    /\ UNCHANGED <<cluster, clock, edits, payload, read>>

\* UpdateScale, without a resourceVersion.
WriteScale(c) ==
    /\ kind[c] = "scale"
    /\ replicas' = want[c]
    /\ UNCHANGED <<marks, budget, restartedAt, rollouts, pod, claim>>

\* Mutant of WriteRestart: an annotation that is there is left alone.
WriteRestartOnce(c) ==
    /\ kind[c] = "restart"
    /\ restartedAt' = IF restartedAt = 0 THEN stamp[c] ELSE restartedAt
    /\ rollouts' = IF restartedAt = 0 THEN rollouts + 1 ELSE rollouts
    /\ UNCHANGED <<marks, replicas, budget, pod, claim>>

\* The patch of restartedAt: a rollout, unless it says the same second already.
WriteRestart(c) ==
    /\ kind[c] = "restart"
    /\ restartedAt' = stamp[c]
    /\ rollouts' = IF restartedAt = stamp[c] THEN rollouts ELSE rollouts + 1
    /\ UNCHANGED <<marks, replicas, budget, pod, claim>>

\* An Eviction, which the API server refuses over budget, or with force a Delete.
WriteEvict(c) ==
    /\ kind[c] = "evict"
    /\ pod = "there"
    /\ force[c] \/ budget \notin {"blocked", "unseen"}
    /\ pod' = "gone"
    /\ UNCHANGED <<marks, replicas, budget, restartedAt, rollouts, claim>>

WriteNodeClaim(c) ==
    /\ kind[c] = "nodeclaim"
    /\ claim = "there"
    /\ claim' = "gone"
    /\ UNCHANGED <<marks, replicas, budget, restartedAt, rollouts, pod>>

\* The writing request: it succeeds, fails, or is done and not answered.
Write(c) ==
    /\ pc[c] = "write"
    /\ \/ /\ WriteScale(c) \/ WriteRestart(c) \/ WriteEvict(c) \/ WriteNodeClaim(c)
          /\ Return(c, "done") \/ Return(c, "unanswered")
       \/ /\ Return(c, "error")
          /\ UNCHANGED cluster
    /\ UNCHANGED <<clock, edits, payload, local>>

-----------------------------------------------------------------------------
\* Users and controllers change what the tasks look at: annotations, replicas,
\* budgets, the existence of the pod and of the NodeClaim.
Others ==
    /\ edits < MaxEdits
    /\ edits' = edits + 1
    /\ \/ /\ \E a \in {"namespace", "object"} \X Called, m \in Marks :
               marks' = [marks EXCEPT ![a] = m]
          /\ UNCHANGED <<replicas, budget, pod, claim>>
       \/ /\ "scale" \in Called
          /\ replicas' \in Replicas
          /\ UNCHANGED <<marks, budget, pod, claim>>
       \/ /\ Called \cap {"restart", "evict"} # {}
          /\ budget' \in Budgets
          /\ UNCHANGED <<marks, replicas, pod, claim>>
       \/ /\ Called \cap {"evict", "nodeclaim"} # {}
          /\ pod' \in {"gone", "there"} /\ claim' \in {"gone", "there"}
          /\ UNCHANGED <<marks, replicas, budget>>
    /\ UNCHANGED <<restartedAt, rollouts, clock, pc, payload, local>>

\* Only restart looks at the clock.
Tick ==
    /\ clock < MaxSecond /\ "restart" \in Called
    /\ clock' = clock + 1
    /\ UNCHANGED <<cluster, edits, pc, payload, local>>

Step(c) == Call(c) \/ GetNamespace(c) \/ GetObject(c) \/ Check(c) \/ Write(c)

Done ==
    /\ \A c \in Calls : pc[c] \in Outcomes
    /\ UNCHANGED vars

Next == Others \/ Tick \/ (\E c \in Calls : Step(c)) \/ Done

Spec == Init /\ [][Next]_vars
=============================================================================
