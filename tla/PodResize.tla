------------------------------ MODULE PodResize ------------------------------
(***************************************************************************)
(* pod_resize changes the requests and limits of one container of a        *)
(* running pod.  It looks at the pod, at the node's allocatable resources  *)
(* and the requests of the pods there, and, when it lowers a memory limit, *)
(* at the memory in use; then it looks at the pod again and patches it,    *)
(* without a precondition.                                                 *)
(*                                                                         *)
(* Quantities are natural numbers, 0 for none.  Memory counts in the unit  *)
(* Value() counts in (bytes); CPU counts in fractions of it: Unit["cpu"]   *)
(* of them make a core.                                                    *)
(***************************************************************************)
EXTENDS Integers, Sequences, SequencesExt

CONSTANTS
    PodCalls,
    PodAsks,        \* what calls may ask for
    Pods,           \* the pods of that name that may come and go
    ContainerNames,
    Resources,      \* {"memory", "cpu"}
    Unit,           \* how many make 1 of Quantity.Value(), per resource
    Allocatable,    \* of the node, per resource
    Cap,            \* MEMORY_ABSOLUTE_CAP and CPU_ABSOLUTE_CAP
    ShrinkBuffer,   \* percentage
    PodUsages,      \* memory a container may have in use
    Rests,          \* what the node's other pods may request, per resource
    MaxPodEdits     \* bound: changes made by others

Containers == [name : ContainerNames, request : [Resources -> Nat],
               limit : [Resources -> Nat]]

\* The API server admits no pod with two containers of one name.
ASSUME PodAssumption ==
    /\ Resources = {"memory", "cpu"}
    /\ PodAsks \subseteq [container : ContainerNames \cup {""}, request : [Resources -> Nat],
                          limit : [Resources -> Nat], dryRun : BOOLEAN]
    /\ Pods \subseteq Seq(Containers)
    /\ \A p \in Pods : \A i, j \in 1..Len(p) : i # j => p[i].name # p[j].name
    /\ Rests \subseteq [Resources -> Nat]
    /\ Unit \in [Resources -> Nat \ {0}] /\ {Allocatable, Cap} \subseteq [Resources -> Nat]
    /\ PodUsages \subseteq Nat /\ {ShrinkBuffer, MaxPodEdits} \subseteq Nat

VARIABLES
    pod,        \* a sequence of containers, or NoPod
    rest,       \* requests of the other pods on its node, one container each
    usage,      \* memory in use by any container
    podEdits,   \* changes made by others so far
    podPc,      \* where each call is
    podAsk,     \* what it was asked for
    podRead,    \* the pod as it read it first
    target,     \* the name its patch will carry
    touched,    \* calls whose pod has been changed or replaced since
    fitted,     \* resources the call's increase of which has fitted meanwhile
    safe        \* calls whose memory limit has been safe meanwhile

podVars == <<pod, rest, usage, podEdits, podPc, podAsk, podRead, target, touched, fitted, safe>>

NoPod == <<>>
PodOutcomes == {"refused", "error", "dry", "done", "unanswered"}
PodSteps == {"idle", "get", "memory", "usage", "cpu", "again", "patch"}

PodTypeOK ==
    /\ pod \in Seq(Containers)
    /\ rest \in Rests
    /\ usage \in PodUsages
    /\ podEdits \in 0..MaxPodEdits
    /\ podPc \in [PodCalls -> PodSteps \cup PodOutcomes]
    /\ podAsk \in [PodCalls -> PodAsks]
    /\ target \in [PodCalls -> ContainerNames \cup {""}]
    /\ touched \subseteq PodCalls
    /\ fitted \in [PodCalls -> SUBSET Resources]
    /\ safe \subseteq PodCalls

PodInit ==
    /\ pod \in Pods
    /\ rest \in Rests
    /\ usage \in PodUsages
    /\ podEdits = 0
    /\ podPc = [c \in PodCalls |-> "idle"]
    /\ podAsk \in [PodCalls -> PodAsks]
    /\ podRead = [c \in PodCalls |-> NoPod]
    /\ target = [c \in PodCalls |-> ""]
    /\ touched = {}
    /\ fitted = [c \in PodCalls |-> {}]
    /\ safe = {}

-----------------------------------------------------------------------------
(* The checks, on the pod as first read. *)

\* Quantity.Value(): rounded up to whole units.
Value(r, q) == (q + Unit[r] - 1) \div Unit[r]

\* findContainer: the named one, or the first.
Index(c, p) ==
    LET named == {i \in 1..Len(p) : podAsk[c].container \in {"", p[i].name}}
    IN  IF named = {} THEN 0 ELSE CHOOSE i \in named : \A j \in named : i <= j
Container(c) == podRead[c][Index(c, podRead[c])]

Wants(c, r) == podAsk[c].request[r] # 0

\* isGuaranteed: requests equal limits; an absent quantity reads as zero.
Guaranteed(p) == \A i \in 1..Len(p) : p[i].request = p[i].limit

\* The limit the patch will carry for r, 0 for none: an explicit one, or the
\* request where that is above the container's limit.  Without a request for r
\* its limit is ignored.
NewLimit(c, r) ==
    IF ~Wants(c, r)                 THEN 0
    ELSE IF podAsk[c].limit[r] # 0  THEN podAsk[c].limit[r]
    ELSE IF Container(c).limit[r] # 0 /\ podAsk[c].request[r] > Container(c).limit[r]
                                    THEN podAsk[c].request[r]
    ELSE 0

\* What is wrong with a request for r before the node is asked (validateAbsoluteCap,
\* validateQoSPreservation), or with its limit afterwards.
RequestBad(c, r) ==
    \/ Container(c).request[r] = 0
    \/ podAsk[c].request[r] > Cap[r]
    \/ Guaranteed(podRead[c]) /\ Container(c).limit[r] \notin {0, podAsk[c].request[r]}
LimitBad(c, r) ==
    /\ podAsk[c].limit[r] # 0
    /\ podAsk[c].limit[r] < podAsk[c].request[r] \/ podAsk[c].limit[r] > Cap[r]

\* Mutant of TotalRequests: the pods already there are not counted.
OwnRequests(r) == FoldLeft(LAMBDA sum, k : sum + Value(r, k.request[r]), 0, pod)

\* checkNodeResourceCapacity with the pods that are there now, in whole units.
TotalRequests(r) == FoldLeft(LAMBDA sum, k : sum + Value(r, k.request[r]),
                             Value(r, rest[r]), pod)
HasRoom(c, r) ==
    Value(r, podAsk[c].request[r]) + TotalRequests(r)
        <= Value(r, Allocatable[r]) + Value(r, Container(c).request[r])

Refuses(c, r) == Wants(c, r) /\ (RequestBad(c, r) \/ ~HasRoom(c, r) \/ LimitBad(c, r))

\* validateLimitReduction
LowersLimit(c) ==
    /\ Wants(c, "memory")
    /\ podAsk[c].limit["memory"] # 0
    /\ podAsk[c].limit["memory"] < Container(c).limit["memory"]
SafeLimit == usage + (usage * ShrinkBuffer) \div 100

-----------------------------------------------------------------------------
PodGoTo(c, p) == podPc' = [podPc EXCEPT ![c] = p]
PodIsNow(p) == pod' = p /\ touched' = PodCalls
Others == UNCHANGED <<pod, rest, usage, podEdits, touched>>

\* What is asked for fits beside the whole units requested there by all others.
Fits(c, r) ==
    LET there == [i \in 1..Len(pod) |-> Value(r, pod[i].request[r])]
    IN  FoldLeft(+, Value(r, rest[r]), there) + Value(r, podAsk[c].request[r])
            - Value(r, Container(c).request[r]) <= Value(r, Allocatable[r])

\* History: the increase has fitted, and the limit was safe, at some moment
\* between the call's first read of the pod and its end.
PodWatch ==
    /\ fitted' = [c \in PodCalls |-> fitted[c] \cup
           {r \in Resources : podPc[c] \in {"memory", "usage", "cpu"} /\ Fits(c, r)}]
    /\ safe' = safe \cup {c \in PodCalls : podAsk[c].limit["memory"] >= SafeLimit
                                            /\ podPc[c] \in {"memory", "usage", "cpu"}}

PodArrive(c) ==
    /\ podPc[c] = "idle"
    /\ PodGoTo(c, "get")
    /\ Others
    /\ UNCHANGED <<podAsk, podRead, target>>

GetPod(c) ==
    /\ podPc[c] = "get"
    /\ podRead' = [podRead EXCEPT ![c] = pod]
    /\ touched' = touched \ {c}
    /\ PodGoTo(c, IF pod = NoPod            THEN "error"
                  ELSE IF Index(c, pod) = 0 THEN "refused" ELSE "memory")
    /\ UNCHANGED <<pod, rest, usage, podEdits, podAsk, target>>

CheckMemory(c) ==
    /\ podPc[c] = "memory"
    /\ PodGoTo(c, IF Refuses(c, "memory")  THEN "refused"
                  ELSE IF LowersLimit(c)   THEN "usage" ELSE "cpu")
    /\ Others
    /\ UNCHANGED <<podAsk, podRead, target>>

\* The memory limit may go down to what is in use and a buffer; the metrics must
\* answer for that.
CheckUsage(c) ==
    /\ podPc[c] = "usage"
    /\ PodGoTo(c, IF podAsk[c].limit["memory"] < SafeLimit THEN "refused" ELSE "cpu")
    /\ Others
    /\ UNCHANGED <<podAsk, podRead, target>>

CheckCpu(c) ==
    /\ podPc[c] = "cpu"
    /\ PodGoTo(c, IF Refuses(c, "cpu")     THEN "refused"
                  ELSE IF podAsk[c].dryRun THEN "dry" ELSE "again")
    /\ Others
    /\ UNCHANGED <<podAsk, podRead, target>>

\* resizePod reads the pod again and takes the name of the container at the
\* index found in the first one.
GetAgain(c) ==
    /\ podPc[c] = "again"
    /\ IF Index(c, podRead[c]) \in 1..Len(pod)
       THEN /\ target' = [target EXCEPT ![c] = pod[Index(c, podRead[c])].name]
            /\ PodGoTo(c, "patch")
       ELSE PodGoTo(c, "error") /\ UNCHANGED target
    /\ Others
    /\ UNCHANGED <<podAsk, podRead>>

\* The patch as the API server merges it into the container of that name.
Merged(c, k) ==
    [k EXCEPT !.request = [r \in Resources |->
                  IF Wants(c, r) THEN podAsk[c].request[r] ELSE k.request[r]],
              !.limit = [r \in Resources |->
                  IF NewLimit(c, r) # 0 THEN NewLimit(c, r) ELSE k.limit[r]]]

\* It refuses a patch for a container that is not there, or that would leave a
\* request above its limit.
Patched(c) == [i \in 1..Len(pod) |-> IF pod[i].name = target[c] THEN Merged(c, pod[i])
                                     ELSE pod[i]]
Acceptable(p) == \A i \in 1..Len(p), r \in Resources :
                     p[i].limit[r] # 0 => p[i].request[r] <= p[i].limit[r]
Patch(c) ==
    /\ podPc[c] = "patch"
    /\ IF /\ \E i \in 1..Len(pod) : pod[i].name = target[c]
          /\ Acceptable(Patched(c))
       THEN /\ PodIsNow(Patched(c))
            /\ PodGoTo(c, "done") \/ PodGoTo(c, "unanswered")   \* the answer may be lost
       ELSE PodGoTo(c, "error") /\ UNCHANGED <<pod, touched>>
    /\ UNCHANGED <<rest, usage, podEdits, podAsk, podRead, target>>

\* Any request may fail; the checks answer that with a refusal.
PodApiError(c) ==
    /\ \/ podPc[c] \in {"get", "again", "patch"} /\ PodGoTo(c, "error")
       \/ podPc[c] \in {"memory", "usage", "cpu"} /\ PodGoTo(c, "refused")
    /\ Others
    /\ UNCHANGED <<podAsk, podRead, target>>

-----------------------------------------------------------------------------
\* The pod is deleted or another of its name started, pods come and go on the
\* node, and memory is used.
PodEdit ==
    /\ podEdits < MaxPodEdits
    /\ podEdits' = podEdits + 1
    /\ \/ \E p \in Pods \cup {NoPod} : p # pod /\ PodIsNow(p) /\ UNCHANGED <<rest, usage>>
       \/ rest' \in Rests \ {rest} /\ UNCHANGED <<pod, touched, usage>>
       \/ usage' \in PodUsages \ {usage} /\ UNCHANGED <<pod, touched, rest>>
    /\ UNCHANGED <<podPc, podAsk, podRead, target>>

PodStep(c) ==
    \/ PodArrive(c) \/ GetPod(c) \/ CheckMemory(c) \/ CheckUsage(c) \/ CheckCpu(c)
    \/ GetAgain(c) \/ Patch(c) \/ PodApiError(c)

PodEnded ==
    /\ \A c \in PodCalls : podPc[c] \in PodOutcomes
    /\ UNCHANGED podVars

PodNext == \/ ((\E c \in PodCalls : PodStep(c)) \/ PodEdit) /\ PodWatch
           \/ PodEnded

PodSpec == PodInit /\ [][PodNext]_podVars

-----------------------------------------------------------------------------
\* c patches the pod it read.  Nothing is claimed for one that has changed since:
\* the increase was computed from the old one, the index found in it.
Patches(c) == podPc[c] = "patch" /\ podPc'[c] \in {"done", "unanswered"} /\ c \notin touched

\* A request is raised only if that fitted on the node, counted in whole units,
\* at some moment of the call.
RoomSeen ==
    \A c \in PodCalls : Patches(c) => \A r \in Resources : Wants(c, r) => r \in fitted[c]

\* A memory limit is lowered only if the usage and the buffer have fitted under
\* it at some moment of the call.
ShrinkChecked ==
    \A c \in PodCalls : Patches(c) =>
        \/ c \in safe
        \/ \A i \in 1..Len(pod) : pod'[i].limit["memory"] >= pod[i].limit["memory"]

\* The container that is changed is the one asked for.
RightContainer ==
    \A c \in PodCalls : Patches(c) =>
        \A i \in 1..Len(pod) : pod'[i] # pod[i] =>
            IF podAsk[c].container = "" THEN i = 1 ELSE pod[i].name = podAsk[c].container

\* pod_resize: a request is raised only if that fitted on the node at some moment of
\* the call, a memory limit lowered only if the usage and its buffer fitted under it
\* at some moment, and the container changed is the one asked for unless the pod
\* has been replaced.
PodPatchSound == [][PodTypeOK' /\ RoomSeen /\ ShrinkChecked /\ RightContainer]_podVars
=============================================================================
