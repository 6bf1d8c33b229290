----------------------------- MODULE ClusterHealth -----------------------------
(***************************************************************************)
(* cluster_health reads pods, workloads and nodes, one list after the      *)
(* other, and calls the cluster healthy if it found nothing wrong; warning *)
(* events, read last, are only named.  list_pods shows a status for the    *)
(* same pods.  What is still starting is not wrong yet, and what Karpenter *)
(* takes away is not wrong at all.                                         *)
(*                                                                         *)
(* The call is for all namespaces, and not for disrupted nodes.            *)
(* One pod of one Deployment on one node: the pod starts, hangs, crashes   *)
(* and backs off, the node fails and is disrupted, the Deployment's status *)
(* follows behind, and a caller asks again and again.  Times are in ticks; *)
(* those that nothing asks for any more are put beyond their bound.        *)
(***************************************************************************)
EXTENDS Naturals

CONSTANTS
    PendingGrace,   \* ticks
    NodeGrace,
    RestartWindow,
    Threshold,      \* restarts that are not yet many
    MaxRestarts     \* bound: restarts counted

ASSUME HealthAssumption == {PendingGrace, NodeGrace, RestartWindow, Threshold, MaxRestarts} \subseteq Nat

VARIABLES
    init,       \* the init container: "run", "backoff", or "done"
    main,       \* the container: "hold" for its init container, "create", "error",
                \* "run", "exit", or "backoff"
    phase,      \* of the pod
    age,        \* of the pod
    restarts,   \* of the container
    since,      \* ticks since it started, or since it ended if it has
    ended,      \* ticks since the end before that (LastTerminationState)
    deleting,   \* the pod has a deletion timestamp
    ready,      \* the Deployment's ReadyReplicas; one is desired
    nodeUp, nodeAge,
    disrupted,  \* Karpenter's taint
    pc,         \* the read that is next; a call begins with the first one
    found,      \* the kinds of trouble found so far
    verdict     \* the last report: Healthy, and what it names

pod == <<init, main, phase, age, restarts, since, ended, deleting>>
node == <<nodeUp, nodeAge, disrupted>>
cluster == <<pod, ready, node>>
vars == <<cluster, pc, found, verdict>>

Past == RestartWindow + 1
Capped(n, bound) == IF n > bound THEN bound ELSE n
Reads == {"pods", "workloads", "nodes", "events"}

TypeOK ==
    /\ init \in {"run", "backoff", "done"}
    /\ main \in {"hold", "create", "error", "run", "exit", "backoff"}
    /\ phase \in {"Pending", "Running", "Succeeded", "Failed"}
    /\ age \in 0..PendingGrace
    /\ restarts \in 0..MaxRestarts
    /\ {since, ended} \subseteq 0..Past
    /\ ready \in 0..1
    /\ {deleting, nodeUp, disrupted} \subseteq BOOLEAN
    /\ nodeAge \in 0..NodeGrace
    /\ pc \in Reads
    /\ found \subseteq Reads
    /\ verdict \in [healthy : BOOLEAN, names : SUBSET Reads]

Init ==
    /\ init \in {"run", "done"}
    /\ main = IF init = "run" THEN "hold" ELSE "create"
    /\ phase = "Pending"
    /\ age = 0
    /\ restarts = 0
    /\ since = Past /\ ended = Past
    /\ deleting = FALSE
    /\ ready = 0
    /\ nodeUp = FALSE
    /\ nodeAge = 0
    /\ disrupted = FALSE
    /\ pc = "pods"
    /\ found = {}
    /\ verdict = [healthy |-> TRUE, names |-> {}]

-----------------------------------------------------------------------------
\* The reason a container waits for, if it is one that fails (failingWaitReasons).
Failing(state) == state \in {"error", "backoff"}
Waiting(state) == state \in {"hold", "create", "error", "backoff"}

hasFailingContainer == Failing(init) \/ Failing(main)

\* Mutant of StillStarting: a container that fails is tolerated too.
StillStartingAnyhow == phase = "Pending" /\ age < PendingGrace

StillStarting == phase = "Pending" /\ age < PendingGrace /\ ~hasFailingContainer

\* getLastRestartTime: the start of a container that runs, or the last end but, of
\* one that has just ended, this.
SinceRestart == IF main = "run" THEN since ELSE ended
HighRestarts == restarts > Threshold /\ SinceRestart <= RestartWindow

\* checkPods
Unhealthy ==
    /\ phase # "Succeeded"
    /\ ~StillStarting
    /\ phase # "Running" \/ Waiting(main) \/ HighRestarts

\* checkWorkloads
Degraded == ready < 1

\* Mutant of NodeIssue: it is the young nodes that are looked at.
NodeIssueYoung == ~nodeUp /\ nodeAge < NodeGrace /\ ~disrupted

\* checkNodes: NotReady.  Conditions like MemoryPressure are named without these
\* excuses.
NodeIssue == ~nodeUp /\ nodeAge >= NodeGrace /\ ~disrupted

Found(read) ==
    CASE read = "pods" -> Unhealthy
      [] read = "workloads" -> Degraded
      [] read = "nodes" -> NodeIssue
      [] read = "events" -> FALSE

After(read) ==
    CASE read = "pods" -> "workloads"
      [] read = "workloads" -> "nodes"
      [] read = "nodes" -> "events"
      [] read = "events" -> "pods"

Named(read) == IF Found(read) THEN found \cup {read} ELSE found

\* The report is made.
Report(names) ==
    /\ verdict' = [healthy |-> names = {}, names |-> names]
    /\ found' = {}

\* One list after the other.
Read ==
    /\ pc' = After(pc)
    /\ IF pc = "events" THEN Report(Named(pc)) ELSE found' = Named(pc) /\ UNCHANGED verdict
    /\ UNCHANGED cluster

\* The call ends with an error.
ReadFails ==
    /\ pc # "pods"
    /\ pc' = "pods"
    /\ found' = {}
    /\ UNCHANGED <<cluster, verdict>>

-----------------------------------------------------------------------------
\* getPodStatus of list_pods: the reason the container waits for or has exited with
\* (Error, OOMKilled, Completed), or the phase.
getPodStatus ==
    IF deleting THEN "Terminating"
    ELSE IF Waiting(main) \/ main = "exit" THEN main ELSE phase

-----------------------------------------------------------------------------
\* The kubelet runs the pod.
Rest == UNCHANGED <<deleting, ready, node, pc, found, verdict>>

InitStep ==
    /\ phase = "Pending" /\ main = "hold"
    /\ \/ init = "run" /\ init' = "done" /\ main' = "create"
       \/ init = "run" /\ init' = "backoff" /\ UNCHANGED main
       \/ init = "backoff" /\ init' = "run" /\ UNCHANGED main
    /\ Rest
    /\ UNCHANGED <<phase, age, restarts, since, ended>>

PullFails ==
    /\ phase = "Pending" /\ main = "create"
    /\ main' = "error"
    /\ Rest
    /\ UNCHANGED <<init, phase, age, restarts, since, ended>>

PullAgain ==
    /\ main = "error"
    /\ main' = "create"
    /\ Rest
    /\ UNCHANGED <<init, phase, age, restarts, since, ended>>

\* Nothing is started in a pod that is being deleted.
Start ==
    /\ phase = "Pending" /\ main = "create" /\ ~deleting
    /\ main' = "run"
    /\ phase' = "Running"
    /\ since' = 0
    /\ age' = PendingGrace
    /\ Rest
    /\ UNCHANGED <<init, restarts, ended>>

Crash ==
    /\ phase = "Running" /\ main = "run"
    /\ main' = "exit"
    /\ since' = 0
    /\ Rest
    /\ UNCHANGED <<init, phase, age, restarts, ended>>

BackOff ==
    /\ phase = "Running" /\ main = "exit" /\ ~deleting
    /\ main' = "backoff"
    /\ Rest
    /\ UNCHANGED <<init, phase, age, restarts, since, ended>>

Restart ==
    /\ phase = "Running" /\ main \in {"exit", "backoff"} /\ ~deleting
    /\ main' = "run"
    /\ since' = 0
    /\ ended' = since
    /\ restarts' = Capped(restarts + 1, MaxRestarts)
    /\ Rest
    /\ UNCHANGED <<init, phase, age>>

\* Evicted or out of resources; nothing asks for its restarts any more.
Fail ==
    /\ phase \in {"Pending", "Running"}
    /\ phase' = "Failed"
    /\ main' = "exit"
    /\ init' = "done"
    /\ age' = PendingGrace
    /\ restarts' = 0
    /\ since' = Past /\ ended' = Past
    /\ Rest

\* It stays until its containers have ended.
Delete ==
    /\ ~deleting /\ deleting' = TRUE
    /\ UNCHANGED <<init, main, phase, age, restarts, since, ended, ready, node, pc, found, verdict>>

\* The Deployment replaces its pod.
Replace ==
    /\ init' = "run"
    /\ main' = "hold"
    /\ phase' = "Pending"
    /\ age' = 0
    /\ restarts' = 0
    /\ since' = Past /\ ended' = Past
    /\ deleting' = FALSE
    /\ UNCHANGED <<ready, node, pc, found, verdict>>

\* The Deployment's controller notices; a pod that is being deleted does not count.
Reconcile ==
    /\ ready' = IF main = "run" /\ ~deleting THEN 1 ELSE 0
    /\ UNCHANGED <<pod, node, pc, found, verdict>>

NodeChanges ==
    /\ \/ nodeUp' = ~nodeUp /\ UNCHANGED <<nodeAge, disrupted>>
       \/ ~disrupted /\ disrupted' = TRUE /\ UNCHANGED <<nodeUp, nodeAge>>
       \* a new node takes its place
       \/ nodeUp' = FALSE /\ nodeAge' = 0 /\ disrupted' = FALSE
    /\ UNCHANGED <<pod, ready, pc, found, verdict>>

Tick ==
    /\ age' = Capped(age + 1, PendingGrace)
    /\ nodeAge' = Capped(nodeAge + 1, NodeGrace)
    /\ since' = Capped(since + 1, Past)
    /\ ended' = Capped(ended + 1, Past)
    /\ UNCHANGED <<init, main, phase, restarts, deleting, ready, nodeUp, disrupted, pc, found, verdict>>

Next ==
    \/ Read \/ ReadFails
    \/ InitStep \/ PullFails \/ PullAgain \/ Start \/ Crash \/ BackOff \/ Restart \/ Fail
    \/ Delete \/ Replace \/ Reconcile \/ NodeChanges \/ Tick

Spec == Init /\ [][Next]_vars

-----------------------------------------------------------------------------
\* What list_pods shows to wait for a failure (CrashLoopBackOff, an image that cannot
\* be pulled), cluster_health asked at the same moment flags, however young the pod is.
\* What it shows as exited it need not flag: not between two tries of a container that
\* has not been restarted often.
FailuresFlagged == Failing(getPodStatus) => Unhealthy

\* The pod does not get anywhere: it has failed, waits for too long, or waits for a
\* failure or crashes again and again, in whatever state it is between two tries.
PodStuck ==
    \/ phase = "Failed"
    \/ phase = "Pending" /\ (age = PendingGrace \/ Failing(init) \/ Failing(main))
    \/ phase = "Running" /\ (main = "backoff" \/ (restarts > Threshold /\ ended <= RestartWindow))

NodeLost == ~nodeUp /\ nodeAge = NodeGrace /\ ~disrupted

\* The pod runs, without many restarts or for longer than the window; the Deployment
\* is ready; the node is up or on its way out.
Well ==
    /\ main = "run" /\ (restarts <= Threshold \/ since > RestartWindow)
    /\ ready = 1
    /\ nodeUp \/ disrupted
=============================================================================
