------------------------------ MODULE NodeAccounts ------------------------------
(***************************************************************************)
(* cluster_info and resource_pressure add up what pods request, per node,  *)
(* per namespace and in all.  Each lists the nodes, then the pods, while   *)
(* pods are created, bound, resized in place, run and end, and nodes come  *)
(* and go.                                                                 *)
(*                                                                         *)
(* A pod requests units of one resource; a share is kept as the sum that   *)
(* is divided by the node's allocatable amount.                            *)
(***************************************************************************)
EXTENDS Orders, Sequences

CONSTANTS
    Nodes,
    AccountPods,    \* [id, ns]
    Amounts,        \* units a pod may request
    Rooms,          \* units a node may have to allocate
    MinPressure,    \* min_pressure_percent
    Top             \* top_namespaces

ASSUME AccountAssumption ==
    /\ "none" \notin Nodes
    /\ IsFiniteSet(AccountPods)
    /\ Amounts \subseteq Nat
    /\ Rooms \subseteq Nat \ {0}
    /\ {MinPressure, Top} \subseteq Nat

VARIABLES
    room,       \* what each node has to allocate, 0 if it is not there
    requests,   \* of each pod
    bound,      \* the node each pod is on, or "none"
    podPhase,   \* "absent", "Pending", "Running", "Succeeded", or "Failed"
    accountPc,  \* "idle", "pods", or "answer"
    roomRead,   \* of the nodes listed; 0 for the others
    order,      \* the order in which the map of namespaces is visited
    podsRead,   \* the pods listed, with their node, phase and request
    raised,     \* history: the pods resized to more while they ran
    renewed     \* history: the nodes that came or went since they were listed

accountsThere == <<room, requests, bound, podPhase, raised>>
accountVars == <<accountsThere, accountPc, roomRead, order, podsRead, renewed>>

Phases == {"absent", "Pending", "Running", "Succeeded", "Failed"}
PodRecords == [node : Nodes \cup {"none"}, phase : Phases, request : Amounts \cup {0}]
NoPodsRead == [p \in {} |-> 0]
NoRooms == [n \in Nodes |-> 0]

AccountTypeOK ==
    /\ {room, roomRead} \subseteq [Nodes -> Rooms \cup {0}]
    /\ requests \in [AccountPods -> Amounts \cup {0}]
    /\ bound \in [AccountPods -> Nodes \cup {"none"}]
    /\ podPhase \in [AccountPods -> Phases]
    /\ accountPc \in {"idle", "pods", "answer"}
    /\ order \in Ranges({p.ns : p \in DOMAIN podsRead})
    /\ DOMAIN podsRead \subseteq AccountPods
    /\ podsRead \in [DOMAIN podsRead -> PodRecords]
    /\ raised \subseteq AccountPods
    /\ renewed \subseteq Nodes

AccountInit ==
    /\ room \in [Nodes -> Rooms]
    /\ requests = [p \in AccountPods |-> 0]
    /\ bound = [p \in AccountPods |-> "none"]
    /\ podPhase = [p \in AccountPods |-> "absent"]
    /\ accountPc = "idle"
    /\ roomRead = NoRooms
    /\ order = <<>>
    /\ podsRead = NoPodsRead
    /\ raised = {}
    /\ renewed = {}

-----------------------------------------------------------------------------
\* Both tasks list the nodes; if they cannot be listed the call ends.
ListNodes ==
    /\ accountPc = "idle"
    /\ roomRead' = room
    /\ accountPc' = "pods"
    /\ UNCHANGED <<accountsThere, order, podsRead, renewed>>

ListAccountPods ==
    /\ accountPc = "pods"
    /\ podsRead' = [p \in {q \in AccountPods : podPhase[q] # "absent"} |->
                       [node |-> bound[p], phase |-> podPhase[p], request |-> requests[p]]]
    /\ order' \in Ranges({p.ns : p \in DOMAIN podsRead'})
    /\ accountPc' = "answer"
    /\ UNCHANGED <<accountsThere, roomRead, renewed>>

AccountsEnd ==
    /\ accountPc' = "idle"
    /\ roomRead' = NoRooms
    /\ order' = <<>>
    /\ podsRead' = NoPodsRead
    /\ renewed' = {}
    /\ UNCHANGED accountsThere

ListAccountPodsFails == accountPc = "pods" /\ AccountsEnd
AnswerAccounts == accountPc = "answer" /\ AccountsEnd

-----------------------------------------------------------------------------
\* What some pods request, if each requests r[p]: the units, counted.
Requested(S, r) == Cardinality(UNION {{p} \X (1..r[p]) : p \in S})

\* What the containers of pods that were listed request.
RequestedRead(S) == Requested(S, [p \in DOMAIN podsRead |-> podsRead[p].request])

NodesRead == {n \in Nodes : roomRead[n] # 0}

\* Pods that have ended are skipped.
Live(p) == podsRead[p].phase \notin {"Succeeded", "Failed"}

\* calculateNodeResources: what is bound to the node.
ClusterInfoShare(n) == RequestedRead({p \in DOMAIN podsRead : podsRead[p].node = n /\ Live(p)})

\* resource_pressure: what runs there.
PressureShare(n) ==
    RequestedRead({p \in DOMAIN podsRead : podsRead[p].node = n /\ podsRead[p].phase = "Running"})

\* NodePressure
UnderPressure == {n \in NodesRead : PressureShare(n) * 100 >= MinPressure * roomRead[n]}

NamespaceRequests(ns) == RequestedRead({p \in DOMAIN podsRead : p.ns = ns /\ Live(p)})

\* The namespaces with live pods, and where in the order of the map each comes.
Visited == {p.ns : p \in {q \in DOMAIN podsRead : Live(q)}}
Visit(ns) == CHOOSE i \in DOMAIN order : order[i] = ns

ByVisit == {d \in Visited \X Visited : Visit(d[1]) < Visit(d[2])}
ByRequests ==
    {d \in Visited \X Visited :
       \/ NamespaceRequests(d[1]) > NamespaceRequests(d[2])
       \/ NamespaceRequests(d[1]) = NamespaceRequests(d[2]) /\ d \in ByVisit}

FirstOf(s) == SubSeq(s, 1, IF Len(s) < Top THEN Len(s) ELSE Top)

\* Mutant of PerNamespace: cut off before it is sorted.
PerNamespaceUnsorted == FirstOf(InOrder(Visited, ByVisit))

\* PerNamespace: the largest ones; up to 12 elements sort.Slice leaves equal ones in
\* place.
PerNamespace == FirstOf(InOrder(Visited, ByRequests))

-----------------------------------------------------------------------------
\* A call that has all it reads is not overtaken.
Steady == accountPc # "answer" /\ UNCHANGED <<accountPc, roomRead, order, podsRead>>

\* What is bound to a node and has not ended.
On(n) == {p \in AccountPods : bound[p] = n /\ podPhase[p] \in {"Pending", "Running"}}
Taken(n) == Requested(On(n), requests)

CreatePod(p) ==
    /\ podPhase[p] = "absent"
    /\ podPhase' = [podPhase EXCEPT ![p] = "Pending"]
    /\ \E a \in Amounts : requests' = [requests EXCEPT ![p] = a]
    /\ UNCHANGED <<room, bound, raised, renewed>>
    /\ Steady

\* The scheduler binds a pod to a node it fits on.
Bind(p, n) ==
    /\ podPhase[p] = "Pending"
    /\ bound[p] = "none"
    /\ room[n] # 0
    /\ Taken(n) + requests[p] <= room[n]
    /\ bound' = [bound EXCEPT ![p] = n]
    /\ UNCHANGED <<room, requests, podPhase, raised, renewed>>
    /\ Steady

\* The kubelet: the pod runs, or ends.
RunOrEnd(p) ==
    /\ bound[p] # "none" /\ room[bound[p]] # 0
    /\ \/ podPhase[p] = "Pending" /\ podPhase' = [podPhase EXCEPT ![p] = "Running"]
       \/ /\ podPhase[p] \in {"Pending", "Running"}
          /\ \E e \in {"Succeeded", "Failed"} : podPhase' = [podPhase EXCEPT ![p] = e]
    /\ UNCHANGED <<room, requests, bound, raised, renewed>>
    /\ Steady

\* A pod that runs is resized in place.  pod_resize adds up whole units, rounded up,
\* and two of its calls, or a call and the scheduler, can both find the same room: what
\* is requested on a node can become more than the node has.
Resize(p, a) ==
    /\ podPhase[p] = "Running"
    /\ requests' = [requests EXCEPT ![p] = a]
    /\ raised' = IF a > requests[p] THEN raised \cup {p} ELSE raised
    /\ UNCHANGED <<room, bound, podPhase, renewed>>
    /\ Steady

DeletePod(p) ==
    /\ podPhase[p] # "absent"
    /\ podPhase' = [podPhase EXCEPT ![p] = "absent"]
    /\ bound' = [bound EXCEPT ![p] = "none"]
    /\ requests' = [requests EXCEPT ![p] = 0]
    /\ raised' = raised \ {p}
    /\ UNCHANGED <<room, renewed>>
    /\ Steady

\* A node that goes leaves its pods to be collected later; one that comes, or comes
\* back under its name, runs none that it has no room for.
NodeComesOrGoes(n) ==
    /\ \/ room[n] # 0 /\ room' = [room EXCEPT ![n] = 0]
       \/ /\ room[n] = 0
          /\ \E r \in Rooms : Taken(n) <= r /\ room' = [room EXCEPT ![n] = r]
    /\ renewed' = IF accountPc = "pods" THEN renewed \cup {n} ELSE renewed
    /\ UNCHANGED <<requests, bound, podPhase, raised>>
    /\ Steady

AccountNext ==
    \/ ListNodes \/ ListAccountPods \/ ListAccountPodsFails \/ AnswerAccounts
    \/ \E p \in AccountPods : \/ CreatePod(p) \/ RunOrEnd(p) \/ DeletePod(p)
                             \/ \E n \in Nodes : Bind(p, n)
                             \/ \E a \in Amounts : Resize(p, a)
    \/ \E n \in Nodes : NodeComesOrGoes(n)

AccountSpec == AccountInit /\ [][AccountNext]_accountVars

-----------------------------------------------------------------------------
\* Although nodes and pods are read at different moments, and the room of pods that
\* have ended is given to others: if cluster_info shows a node as more than full, and
\* the node did not come or go between the two lists, then a pod on it was resized to
\* more, in place.  That is the one way in which the program itself, through
\* pod_resize, leads to such a report.
OverfullExplained ==
    accountPc = "answer" => \A n \in NodesRead \ renewed :
        ClusterInfoShare(n) > roomRead[n] => \E p \in raised \cap DOMAIN podsRead : podsRead[p].node = n

\* The two tasks agree: a node on which no bound pod is still pending is reported
\* under pressure exactly if cluster_info shows that much of it as taken.
TasksAgree ==
    accountPc = "answer" => \A n \in NodesRead :
        (\A p \in DOMAIN podsRead : podsRead[p].node = n => podsRead[p].phase # "Pending") =>
            (n \in UnderPressure <=> ClusterInfoShare(n) * 100 >= MinPressure * roomRead[n])

\* In whatever order the map is visited: the namespaces shown are no smaller than
\* those left out, and they are all unless there are more than asked for.
TopNamespacesShown ==
    accountPc = "answer" =>
        LET shown == {PerNamespace[i] : i \in DOMAIN PerNamespace}
        IN  /\ shown \subseteq Visited
            /\ Cardinality(shown) =
                   IF Cardinality(Visited) < Top THEN Cardinality(Visited) ELSE Top
            /\ \A m \in Visited \ shown, n \in shown :
                   NamespaceRequests(m) <= NamespaceRequests(n)
===============================================================================
