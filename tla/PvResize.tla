------------------------------- MODULE PvResize -------------------------------
(***************************************************************************)
(* pv_resize grows a volume claim: it reads the claim and its storage      *)
(* class, updates the claim under the version it read, and on request      *)
(* polls until the capacity has followed.  pv_resize_status tells how far  *)
(* that has come, from three reads one after the other.                    *)
(*                                                                         *)
(* Meanwhile the resizer expands the volume and the file system and        *)
(* reports both on the claim, and users grow, delete and recreate claims   *)
(* and change storage classes.  Every change of a claim gives it a new     *)
(* resourceVersion; fresh[c] says that it still has the one call c read.   *)
(***************************************************************************)
EXTENDS Naturals

CONSTANTS
    Calls,      \* calls of the two tasks
    Sizes,      \* sizes a claim may have or be asked for
    Asks,       \* what calls may ask for
    MaxEdits    \* bound: changes made by users, a new claim in place of a
                \* deleted one not counted

ASSUME ResizeAssumption ==
    /\ Sizes \subseteq Nat \ {0}
    /\ MaxEdits \in Nat
    /\ Asks \subseteq [kind : {"resize", "status"}, want : Sizes, wait : BOOLEAN,
                       dryRun : BOOLEAN]

VARIABLES
    claim,      \* the claim on the API server, or NoClaim
    expandable, \* its storage class allows expansion, or it has none; if not,
                \* the class forbids it, says nothing, or does not exist
    edits,      \* changes made by users so far
    pc,         \* where each call is
    ask,        \* what it was asked for
    read,       \* the claim as it read it
    shown,      \* the volume and the file system as a status shows them
    fresh,      \* calls whose claim has not changed since they read it
    same,       \* calls whose claim has not been deleted since they read it
    forbidden,  \* calls during all of which the class has not allowed a resize
    wrote,      \* calls that have updated the claim
    reached     \* calls whose size some claim has reached since they did

vars == <<claim, expandable, edits, pc, ask, read, shown, fresh, same, forbidden,
          wrote, reached>>

NoClaim == [size |-> 0, capacity |-> 0, volume |-> 0, fs |-> 0, condition |-> "absent"]

\* A claim, the volume and the file system behind it, and the resize condition.
\* "failed" is Resizing=False with reason ResizeFailed, "pending" is
\* FileSystemResizePending.
Claims == [size : Sizes, capacity : Sizes, volume : Sizes, fs : Sizes,
           condition : {"none", "resizing", "failed", "pending"}]

Outcomes == {"refused", "error", "dry", "started", "done", "failed", "timeout",
             "unanswered", "status"}
Steps == {"idle", "get", "class", "update", "wait", "volume", "stats"}

TypeOK ==
    /\ claim \in Claims \cup {NoClaim}
    /\ expandable \in BOOLEAN
    /\ edits \in 0..MaxEdits
    /\ pc \in [Calls -> Steps \cup Outcomes]
    /\ ask \in [Calls -> Asks]
    /\ read \in [Calls -> Claims \cup {NoClaim}]
    /\ shown \in [Calls -> [volume : Sizes \cup {0}, fs : Sizes \cup {0}]]
    /\ {fresh, same, forbidden, wrote, reached} \subseteq SUBSET Calls

Init ==
    /\ \E s \in Sizes : claim = [size |-> s, capacity |-> s, volume |-> s, fs |-> s,
                                 condition |-> "none"]
    /\ expandable \in BOOLEAN
    /\ edits = 0
    /\ pc = [c \in Calls |-> "idle"]
    /\ ask \in [Calls -> Asks]
    /\ read = [c \in Calls |-> NoClaim]
    /\ shown = [c \in Calls |-> [volume |-> 0, fs |-> 0]]
    /\ fresh = {}
    /\ same = {}
    /\ forbidden = Calls
    /\ wrote = {}
    /\ reached = {}

-----------------------------------------------------------------------------
GoTo(c, p) == pc' = [pc EXCEPT ![c] = p]

\* Storing a claim gives it a new version.
Store(new) ==
    /\ claim' = new
    /\ fresh' = {}
    /\ same' = IF new = NoClaim THEN {} ELSE same

\* History: nothing of this is in the program.
Watch ==
    /\ forbidden' = {c \in forbidden : pc[c] = "idle" \/ ~expandable}
    /\ reached' = reached \cup {c \in wrote' : claim'.capacity >= ask[c].want}

\* The call arrives; its payload is valid.
Arrive(c) ==
    /\ pc[c] = "idle"
    /\ GoTo(c, "get")
    /\ UNCHANGED <<claim, expandable, edits, ask, read, shown, fresh, same, wrote>>

GetClaim(c) ==
    /\ pc[c] = "get"
    /\ IF claim = NoClaim
       THEN GoTo(c, "refused") /\ UNCHANGED <<read, fresh, same>>
       ELSE /\ read' = [read EXCEPT ![c] = claim]
            /\ fresh' = fresh \cup {c}
            /\ same' = same \cup {c}
            /\ GoTo(c, IF ask[c].kind = "resize" THEN "class" ELSE "volume")
    /\ UNCHANGED <<claim, expandable, edits, ask, shown, wrote>>

\* The claim's class allows it, or it has no class.
ClassAllows == expandable

\* Mutant of CheckExpansionAllowed: the class is not looked at.
ClassUnchecked(c) ==
    /\ pc[c] = "class"
    /\ GoTo(c, IF ask[c].want <= read[c].size THEN "refused" ELSE "update")
    /\ UNCHANGED <<claim, expandable, edits, ask, read, shown, fresh, same, wrote>>

\* After the class, the call asks the kubelets for the size of the file system,
\* for its messages only.
CheckExpansionAllowed(c) ==
    /\ pc[c] = "class"
    /\ GoTo(c, IF ~ClassAllows \/ ask[c].want <= read[c].size THEN "refused"
               ELSE IF ask[c].dryRun THEN "dry" ELSE "update")
    /\ UNCHANGED <<claim, expandable, edits, ask, read, shown, fresh, same, wrote>>

\* The claim that is sent back.
Resized(c) == [claim EXCEPT !.size = ask[c].want]

\* Mutant of Accepts: the update does not carry the version.
AcceptsAnyVersion(c) == claim # NoClaim

\* The whole claim is sent back with the version it was read with, and refused
\* if that is no longer the stored one.
Accepts(c) == claim # NoClaim /\ c \in fresh
UpdateClaim(c) ==
    /\ pc[c] = "update"
    /\ \/ /\ Accepts(c)
          /\ Store(Resized(c))
          /\ wrote' = wrote \cup {c}
          /\ GoTo(c, IF ask[c].wait THEN "wait" ELSE "started")
       \/ /\ Accepts(c)   \* and the answer is lost
          /\ Store(Resized(c))
          /\ wrote' = wrote \cup {c}
          /\ GoTo(c, "unanswered")
       \/ /\ ~Accepts(c)
          /\ GoTo(c, "error")
          /\ UNCHANGED <<claim, fresh, same, wrote>>
    /\ UNCHANGED <<expandable, edits, ask, read, shown>>

\* Mutant of Poll: the requested size is compared, not the capacity.
PollSpec(c) ==
    /\ pc[c] = "wait"
    /\ claim.size >= ask[c].want
    /\ GoTo(c, "done")
    /\ UNCHANGED <<claim, expandable, edits, ask, read, shown, fresh, same, wrote>>

\* One poll of waitForResize that decides something; one that fails, finds no
\* claim or finds it still growing leaves everything as it is.
Poll(c) ==
    /\ pc[c] = "wait"
    /\ \/ claim.condition = "failed" /\ GoTo(c, "failed")
       \/ /\ claim.condition # "failed"
          /\ claim.capacity >= ask[c].want
          /\ GoTo(c, "done")
    /\ UNCHANGED <<claim, expandable, edits, ask, read, shown, fresh, same, wrote>>

\* The timeout, or the end of the caller, comes between two polls.
WaitTimeout(c) ==
    /\ pc[c] = "wait"
    /\ GoTo(c, "timeout")
    /\ UNCHANGED <<claim, expandable, edits, ask, read, shown, fresh, same, wrote>>

\* pv_resize_status reads the volume of the claim it has read.  If the volume
\* has gone, no size is shown.
ShowVolume(c) ==
    /\ pc[c] = "volume"
    /\ \E v \in {0} \cup IF c \in same THEN {claim.volume} ELSE {} :
           shown' = [shown EXCEPT ![c].volume = v]
    /\ GoTo(c, "stats")
    /\ UNCHANGED <<claim, expandable, edits, ask, read, fresh, same, wrote>>

\* It then asks the nodes that run a pod with the claim, by the claim's name.
ShowFilesystem(c) ==
    /\ pc[c] = "stats"
    /\ \E s \in {0, claim.fs} : shown' = [shown EXCEPT ![c].fs = s]
    /\ GoTo(c, "status")
    /\ UNCHANGED <<claim, expandable, edits, ask, read, fresh, same, wrote>>

\* Any other request to the API server may fail; a failed lookup of the class
\* is answered as a refusal.
ApiError(c) ==
    /\ \/ pc[c] \in {"get", "update"} /\ GoTo(c, "error")
       \/ pc[c] = "class" /\ GoTo(c, "refused")
    /\ UNCHANGED <<claim, expandable, edits, ask, read, shown, fresh, same, wrote>>

\* Phase of a status, from the conditions of the claim it read.
Phase(c) == CASE read[c].condition = "resizing" -> "resizing"
              [] read[c].condition = "pending"  -> "fs_expansion_pending"
              [] OTHER                          -> "ready"

-----------------------------------------------------------------------------
(* The resizer and the kubelet. *)
Quiet == UNCHANGED <<expandable, edits, pc, ask, read, shown, wrote>>

ResizeBegins ==
    /\ claim.size > claim.volume
    /\ claim.condition \in {"none", "failed"}
    /\ Store([claim EXCEPT !.condition = "resizing"])
    /\ Quiet

VolumeExpands ==
    /\ claim.condition = "resizing"
    /\ Store([claim EXCEPT !.volume = claim.size, !.condition = "pending"])
    /\ Quiet

ResizeFails ==
    /\ claim.condition = "resizing"
    /\ Store([claim EXCEPT !.condition = "failed"])
    /\ Quiet

FilesystemGrows ==
    /\ claim.condition = "pending"
    /\ claim.fs < claim.volume
    /\ claim' = [claim EXCEPT !.fs = claim.volume]  \* on the node, not the claim
    /\ Quiet
    /\ UNCHANGED <<fresh, same>>

CapacityReported ==
    /\ claim.condition = "pending"
    /\ claim.fs = claim.volume
    /\ Store([claim EXCEPT !.capacity = claim.fs, !.condition = "none"])
    /\ Quiet

\* Users grow a claim, delete it, make another of the same name, or change the
\* class.
Edit ==
    /\ IF claim = NoClaim THEN UNCHANGED edits
       ELSE edits < MaxEdits /\ edits' = edits + 1
    /\ \/ /\ claim # NoClaim
          /\ \E s \in Sizes : s > claim.size /\ Store([claim EXCEPT !.size = s])
          /\ UNCHANGED expandable
       \/ claim # NoClaim /\ Store(NoClaim) /\ UNCHANGED expandable
       \/ /\ claim = NoClaim
          /\ \E s \in Sizes : Store([size |-> s, capacity |-> s, volume |-> s,
                                     fs |-> s, condition |-> "none"])
          /\ UNCHANGED expandable
       \/ claim # NoClaim /\ expandable' = ~expandable /\ UNCHANGED <<claim, fresh, same>>
    /\ UNCHANGED <<pc, ask, read, shown, wrote>>

Step(c) ==
    \/ Arrive(c) \/ GetClaim(c) \/ CheckExpansionAllowed(c) \/ UpdateClaim(c)
    \/ Poll(c) \/ WaitTimeout(c) \/ ShowVolume(c) \/ ShowFilesystem(c) \/ ApiError(c)

Resizer == ResizeBegins \/ VolumeExpands \/ ResizeFails \/ FilesystemGrows
           \/ CapacityReported

\* All calls have ended and the resizer has nothing to do.
Ended ==
    /\ \A c \in Calls : pc[c] \in Outcomes
    /\ UNCHANGED vars

Next == \/ ((\E c \in Calls : Step(c)) \/ Resizer \/ Edit) /\ Watch
        \/ Ended

Spec == Init /\ [][Next]_vars

-----------------------------------------------------------------------------
\* A resize never makes a claim smaller, although the size was compared with one
\* read before and others may have grown the claim since.
GrowsOnly ==
    [][claim # NoClaim /\ claim' # NoClaim => claim'.size >= claim.size]_vars

\* A claim is not resized by a call during all of which its class did not allow
\* it or did not exist.
ForbiddenStays == wrote \cap forbidden = {}

\* "resized from .. to ..": since the update, a claim of that name has reported at
\* least the size asked for.
DoneMeansGrown == \A c \in Calls : pc[c] = "done" => c \in reached

\* A status is put together from three moments, and yet consistent, as long as
\* the claim is not replaced: with a file system expansion pending it shows a
\* volume larger than the claim's capacity, and never a volume or a file system
\* smaller than that capacity.
StatusInOrder ==
    \A c \in Calls \cap same : pc[c] = "status" =>
        /\ shown[c].volume # 0 =>
              /\ shown[c].volume >= read[c].capacity
              /\ Phase(c) = "fs_expansion_pending" => shown[c].volume > read[c].capacity
        /\ shown[c].fs # 0 => shown[c].fs >= read[c].capacity

\* What the two tasks tell about a claim is so: that a resize is done, and a status.
ClaimTold == DoneMeansGrown /\ StatusInOrder
=============================================================================
