------------------------------- MODULE PodOwners -------------------------------
(***************************************************************************)
(* list_pods and cluster_health name the workload that owns each pod: the  *)
(* controller in its owner references, or if that is a ReplicaSet the      *)
(* ReplicaSet's own controller.  They read the pods, then the ReplicaSets, *)
(* while a cluster with more than one namespace rolls out, scales and      *)
(* deletes, and list_pods then reads the pods' memory usage.               *)
(*                                                                         *)
(* A workload's name is a number; a ReplicaSet's is too.                   *)
(***************************************************************************)
EXTENDS Orders

CONSTANTS
    PodNamespaces,  \* numbers, in alphabetical order
    SetNames,       \* names of ReplicaSets
    Owners,         \* workloads [kind, name] that own ReplicaSets
    MaxSetEdits     \* bound: changes of the cluster

ASSUME OwnerAssumption ==
    /\ PodNamespaces \subseteq Nat /\ IsFiniteSet(PodNamespaces)
    /\ SetNames \subseteq Nat /\ IsFiniteSet(SetNames)
    /\ MaxSetEdits \in Nat

NoOwner == [kind |-> "", name |-> 0]
SetRef(n) == [kind |-> "ReplicaSet", name |-> n]
OwnerRefs == {NoOwner, [kind |-> "StatefulSet", name |-> 1]} \cup {SetRef(n) : n \in SetNames}

\* One pod per namespace and controller, if any.
OwnedPods == [ns : PodNamespaces, ref : OwnerRefs]
SetKeys == PodNamespaces \X SetNames

VARIABLES
    pods,       \* the pods there are
    sets,       \* the ReplicaSets there are, with their controller or NoOwner
    setEdits,   \* number of changes so far
    ownerPc,    \* "idle", "sets", "usage", or "answer"
    task,       \* "list_pods" or "cluster_health"
    scope,      \* the namespaces asked for: one or all
    listed,     \* the pods listed
    owners,     \* the map from ReplicaSets to their controllers
    measured,   \* the pods with a usage
    setsTouched \* history: ReplicaSets edited since the call began

ownersThere == <<pods, sets, setEdits>>
ownerVars == <<ownersThere, ownerPc, task, scope, listed, owners, measured, setsTouched>>

Scopes == {{n} : n \in PodNamespaces} \cup {PodNamespaces}

OwnerTypeOK ==
    /\ pods \subseteq OwnedPods
    /\ DOMAIN sets \subseteq SetKeys /\ sets \in [DOMAIN sets -> Owners \cup {NoOwner}]
    /\ setEdits \in 0..MaxSetEdits
    /\ ownerPc \in {"idle", "sets", "usage", "answer"}
    /\ task \in {"list_pods", "cluster_health"}
    /\ scope \in Scopes
    /\ {listed, measured} \subseteq SUBSET OwnedPods
    /\ owners \in [DOMAIN owners -> Owners]
    /\ setsTouched \subseteq SetKeys

NoMap == [k \in {} |-> NoOwner]

OwnerInit ==
    /\ pods = OwnedPods
    /\ sets \in [SetKeys -> Owners \cup {NoOwner}]
    /\ setEdits = 0
    /\ ownerPc = "idle"
    /\ task = "list_pods"
    /\ scope = PodNamespaces
    /\ listed = {}
    /\ owners = NoMap
    /\ measured = {}
    /\ setsTouched = {}

-----------------------------------------------------------------------------
\* The pods are listed; if they cannot be the call ends.
ListPods ==
    /\ ownerPc = "idle"
    /\ task' \in {"list_pods", "cluster_health"}
    /\ scope' \in Scopes
    /\ listed' = {p \in pods : p.ns \in scope'}
    /\ ownerPc' = "sets"
    /\ UNCHANGED <<ownersThere, owners, measured, setsTouched>>

OwnersEnd ==
    /\ ownerPc' = "idle"
    /\ task' = "list_pods"
    /\ scope' = PodNamespaces
    /\ listed' = {}
    /\ owners' = NoMap
    /\ measured' = {}
    /\ setsTouched' = {}
    /\ UNCHANGED ownersThere

\* list_pods tells ReplicaSets of the same name apart by their namespace,
\* cluster_health does not.
rsOwnerKey(t, ns, name) == IF t = "list_pods" THEN <<ns, name>> ELSE <<0, name>>

\* The ReplicaSets that are listed and have a controller; those with one key.
Controlled == {k \in DOMAIN sets : k[1] \in scope /\ sets[k] # NoOwner}
WithKey(key) == {k \in Controlled : rsOwnerKey(task, k[1], k[2]) = key}

\* The last one in the API server's order.
LastListed(K) ==
    InOrder(K, {d \in K \X K : d[1][1] < d[2][1] \/ (d[1][1] = d[2][1] /\ d[1][2] < d[2][2])})
        [Cardinality(K)]

\* resolveReplicaSetOwners: of several with one key the last one listed counts.
ListSets ==
    /\ ownerPc = "sets"
    /\ owners' = [key \in {rsOwnerKey(task, k[1], k[2]) : k \in Controlled} |->
                     sets[LastListed(WithKey(key))]]
    /\ ownerPc' = IF task = "list_pods" THEN "usage" ELSE "answer"
    /\ UNCHANGED <<ownersThere, task, scope, listed, measured, setsTouched>>

ListSetsFails == ownerPc = "sets" /\ OwnersEnd

\* getPodMetricsMap: best effort, without metrics no pod has a usage.
ReadUsage ==
    /\ ownerPc = "usage"
    /\ measured' \in {pods, {}}
    /\ ownerPc' = "answer"
    /\ UNCHANGED <<ownersThere, task, scope, listed, owners, setsTouched>>

\* resolvePodOwner
Owner(p) ==
    LET key == rsOwnerKey(task, p.ns, p.ref.name)
    IN  IF p.ref.kind = "ReplicaSet" /\ key \in DOMAIN owners THEN owners[key] ELSE p.ref

AnswerPods == ownerPc = "answer" /\ OwnersEnd

-----------------------------------------------------------------------------
SetEdit(K) ==
    /\ setEdits < MaxSetEdits
    /\ setEdits' = setEdits + 1
    /\ setsTouched' = IF ownerPc = "idle" THEN {} ELSE setsTouched \cup K
    /\ UNCHANGED <<ownerPc, task, scope, listed, owners, measured>>

\* A workload creates a ReplicaSet, or one is created on its own.
CreateSet(k, o) ==
    /\ k \notin DOMAIN sets
    /\ sets' = [j \in DOMAIN sets \cup {k} |-> IF j = k THEN o ELSE sets[j]]
    /\ SetEdit({k})
    /\ UNCHANGED pods

\* Its pods are collected after it.
DeleteSet(k) ==
    /\ k \in DOMAIN sets
    /\ sets' = [j \in DOMAIN sets \ {k} |-> sets[j]]
    /\ SetEdit({k})
    /\ UNCHANGED pods

PodComesOrGoes(p) ==
    /\ p \in pods \/ (p.ref.kind = "ReplicaSet" => <<p.ns, p.ref.name>> \in DOMAIN sets)
    /\ pods' = IF p \in pods THEN pods \ {p} ELSE pods \cup {p}
    /\ SetEdit({})
    /\ UNCHANGED sets

OwnerNext ==
    \/ ListPods \/ ListSets \/ ListSetsFails \/ ReadUsage \/ AnswerPods
    \/ \E k \in SetKeys : DeleteSet(k) \/ \E o \in Owners \cup {NoOwner} : CreateSet(k, o)
    \/ \E p \in OwnedPods : PodComesOrGoes(p)

OwnerSpec == OwnerInit /\ [][OwnerNext]_ownerVars

-----------------------------------------------------------------------------
\* "the FINAL controller workload": that of the pod's ReplicaSet if there is one.
Final(p) ==
    IF p.ref.kind # "ReplicaSet" THEN p.ref
    ELSE IF sets[<<p.ns, p.ref.name>>] = NoOwner THEN p.ref ELSE sets[<<p.ns, p.ref.name>>]

Lasting(p) ==
    p.ref.kind = "ReplicaSet" =>
        <<p.ns, p.ref.name>> \in DOMAIN sets /\ <<p.ns, p.ref.name>> \notin setsTouched

\* list_pods, and cluster_health asked for one namespace: a pod is shown with its
\* final controller unless its ReplicaSet was created or deleted meanwhile.
OwnersFinal ==
    ownerPc = "answer" /\ (task = "list_pods" \/ scope # PodNamespaces) =>
        \A p \in listed : Lasting(p) => Owner(p) = Final(p)
=============================================================================
