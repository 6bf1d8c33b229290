------------------------------ MODULE MCResizes ------------------------------
(* pv_resize with pv_resize_status, and pod_resize.  They share nothing: a run *)
(* is of one of them, named by part, and leaves the other's state alone.       *)
EXTENDS PvResize, PodResize, TLC

VARIABLE part

\* Sizes 1 to 3 let a claim be grown twice, and grown again by another call.
Request(w, wait, dry) == [kind |-> "resize", want |-> w, wait |-> wait, dryRun |-> dry]
ClaimAsks == {Request(2, TRUE, FALSE), Request(3, TRUE, FALSE), Request(3, FALSE, FALSE),
              Request(3, FALSE, TRUE), [Request(1, FALSE, FALSE) EXCEPT !.kind = "status"]}

\* A pod of two containers, the same in another order, and a Guaranteed one.
Of(m, p) == [memory |-> m, cpu |-> p]
App == [name |-> "app", request |-> Of(2, 1), limit |-> Of(3, 0)]
Side == [name |-> "side", request |-> Of(1, 0), limit |-> Of(1, 0)]
Fixed == [name |-> "app", request |-> Of(1, 2), limit |-> Of(1, 2)]

\* More memory; a lower limit for the first container; more CPU; a container
\* without a CPU request; a dry run.
PodRequest(n, request, limit, dry) ==
    [container |-> n, request |-> request, limit |-> limit, dryRun |-> dry]
PodAsked ==
    {PodRequest("app", Of(3, 0), Of(0, 0), FALSE), PodRequest("", Of(1, 0), Of(2, 0), FALSE),
     PodRequest("app", Of(1, 3), Of(2, 0), FALSE), PodRequest("side", Of(0, 2), Of(0, 2), FALSE),
     PodRequest("app", Of(0, 2), Of(0, 0), TRUE)}

\* The pods there may be, the requests of the others on the node, and what it has; a
\* core counts as two.
PodsSeen == {<<App, Side>>, <<Side, App>>, <<Fixed>>}
Rested == {Of(1, 1), Of(2, 2)}
HalfCores == Of(1, 2)
NodeHas == Of(5, 3)
Caps == Of(4, 3)

claimVars == vars

\* The state a part is left in when it is not looked at.
Idle == [c \in Calls |-> "idle"]
ClaimAside ==
    /\ claim = NoClaim /\ expandable = TRUE /\ edits = 0 /\ pc = Idle
    /\ ask = [c \in Calls |-> Request(2, TRUE, FALSE)]
    /\ read = [c \in Calls |-> NoClaim]
    /\ shown = [c \in Calls |-> [volume |-> 0, fs |-> 0]]
    /\ fresh = {} /\ same = {} /\ forbidden = {} /\ wrote = {} /\ reached = {}
PodAside ==
    /\ pod = <<>> /\ rest = Of(1, 1) /\ usage = 1 /\ podEdits = 0
    /\ podPc = [c \in PodCalls |-> "idle"]
    /\ podAsk = [c \in PodCalls |-> PodRequest("app", Of(3, 0), Of(0, 0), FALSE)]
    /\ podRead = [c \in PodCalls |-> <<>>] /\ target = [c \in PodCalls |-> ""]
    /\ touched = {} /\ fitted = [c \in PodCalls |-> {}] /\ safe = {}

ResizesInit ==
    \/ part = "claim" /\ Init /\ PodAside
    \/ part = "pod" /\ PodInit /\ ClaimAside

ResizesNext ==
    /\ UNCHANGED part
    /\ \/ part = "claim" /\ Next /\ UNCHANGED podVars
       \/ part = "pod" /\ PodNext /\ UNCHANGED claimVars

ResizesSpec == ResizesInit /\ [][ResizesNext]_<<part, claimVars, podVars>>

Symmetry == Permutations(Calls)
=============================================================================
