---------------------------- MODULE ResizesProofs ----------------------------
(***************************************************************************)
(* pv_resize, pv_resize_status and pod_resize for any calls, sizes,        *)
(* containers and number of changes.                                       *)
(*                                                                         *)
(* Volumes: one inductive invariant carries the four properties.  Its      *)
(* parts say what a claim is like behind what it reports (Behind), what a  *)
(* call may rely on while the version it read is the stored one (Fresh),   *)
(* while the claim it read is not replaced (Same), and what it has checked *)
(* or done by the time it updates, waits or ends (Checked, Waited).        *)
(*                                                                         *)
(* Pods: a lemma on sums, by the least number for which it would be        *)
(* false, shows that what checkNodeResourceCapacity adds up is what fits   *)
(* beside the others; the invariant says what the pod read has to do with  *)
(* the pod there is, and what each check passed so far has seen.           *)
(***************************************************************************)
EXTENDS PvResize, PodResize, WellFoundedInduction, TLAPS

-----------------------------------------------------------------------------
(* Volumes: the invariant *)

\* The file system is between the capacity reported and the volume, and a resize
\* that is being carried out leads upwards.
Behind ==
    /\ claim # NoClaim => claim.size \in Sizes
    /\ claim.capacity <= claim.fs /\ claim.fs <= claim.volume
    /\ claim.volume <= claim.size
    /\ claim.condition = "pending" => claim.volume > claim.capacity
    /\ claim.condition = "resizing" => claim.size > claim.volume

Fresh == \A c \in fresh : claim # NoClaim /\ read[c].size = claim.size

\* What is shown is not less than what was read.
Same ==
    /\ \A c \in same :
          /\ claim # NoClaim
          /\ read[c].capacity <= claim.capacity
          /\ read[c].volume <= claim.volume
          /\ read[c].condition = "pending" => read[c].volume > read[c].capacity
          /\ read[c].capacity <= read[c].volume
          /\ shown[c].volume # 0 => shown[c].volume >= read[c].volume
          /\ shown[c].fs # 0 => shown[c].fs >= read[c].capacity
    /\ \A c \in Calls : pc[c] \in {"idle", "get"} =>
          c \notin same /\ shown[c].volume = 0 /\ shown[c].fs = 0

Checked ==
    /\ \A c \in Calls : pc[c] = "update" => ask[c].want > read[c].size
    /\ \A c \in Calls : pc[c] = "update" \/ c \in wrote => c \notin forbidden

Waited ==
    /\ \A c \in Calls : pc[c] = "wait" => c \in wrote
    /\ DoneMeansGrown

IInv == TypeOK /\ Behind /\ Fresh /\ Same /\ Checked /\ Waited

\* What a change of the claim that is not a replacement does to it.
Grows ==
    claim # NoClaim /\ claim' # NoClaim =>
        /\ claim'.size >= claim.size
        /\ claim'.capacity >= claim.capacity
        /\ claim'.volume >= claim.volume

-----------------------------------------------------------------------------
\* A claim is a record of sizes, and NoClaim none that the API server stores.
LEMMA ClaimTypes ==
    ASSUME TypeOK
    PROVE  /\ claim.size \in Nat /\ claim.capacity \in Nat
           /\ claim.volume \in Nat /\ claim.fs \in Nat
           /\ claim.condition # "absent" => claim \in Claims
           /\ claim # NoClaim => claim \in Claims /\ claim.condition # "absent"
           /\ NoClaim \notin Claims
  <1>1. /\ NoClaim.size = 0 /\ NoClaim.capacity = 0 /\ NoClaim.volume = 0
        /\ NoClaim.fs = 0 /\ NoClaim.condition = "absent"
    BY DEF NoClaim
  <1>2. \A k \in Claims : k.condition # "absent"
    BY DEF Claims
  <1>3. NoClaim \notin Claims
    BY <1>1, <1>2
  <1>4. CASE claim = NoClaim
    BY <1>1, <1>3, <1>4
  <1>5. CASE claim \in Claims
    <2>1. claim.size \in Nat /\ claim.capacity \in Nat /\ claim.volume \in Nat /\ claim.fs \in Nat
      BY <1>5, ResizeAssumption DEF Claims
    <2> QED
      BY <1>2, <1>3, <1>5, <2>1
  <1> QED
    BY <1>4, <1>5 DEF TypeOK

\* What a call has read has sizes too.
LEMMA SizesAreNat ==
    ASSUME NEW k \in Claims \cup {NoClaim}
    PROVE  k.size \in Nat /\ k.capacity \in Nat /\ k.volume \in Nat /\ k.fs \in Nat
  <1>1. CASE k = NoClaim
    BY <1>1 DEF NoClaim
  <1>2. CASE k \in Claims
    BY <1>2, ResizeAssumption DEF Claims
  <1> QED
    BY <1>1, <1>2

\* Init has all parts of the invariant.
LEMMA InitInv == Init => IInv
  <1> SUFFICES ASSUME Init PROVE IInv
    OBVIOUS
  <1>1. PICK s \in Sizes : claim = [size |-> s, capacity |-> s, volume |-> s, fs |-> s,
                                   condition |-> "none"]
    BY DEF Init
  <1>2. s \in Nat /\ claim \in Claims /\ claim # NoClaim
    BY <1>1, ResizeAssumption DEF Claims, NoClaim
  <1>3. TypeOK
    <2>1. edits \in 0..MaxEdits
      BY ResizeAssumption DEF Init
    <2> QED
      BY <1>2, <2>1 DEF Init, TypeOK, Steps
  <1>4. Behind
    BY <1>1, <1>2 DEF Behind
  <1>5. Fresh /\ Same /\ Checked /\ Waited
    BY DEF Init, Fresh, Same, Checked, Waited, DoneMeansGrown
  <1> QED
    BY <1>3, <1>4, <1>5 DEF IInv

-----------------------------------------------------------------------------
\* The history is made of calls, whatever else happens.
LEMMA WatchTypes ==
    ASSUME TypeOK, Watch, wrote' \subseteq Calls
    PROVE  forbidden' \subseteq Calls /\ reached' \subseteq Calls
  BY DEF TypeOK, Watch

\* A step of a call keeps the types.
LEMMA CallTypes ==
    ASSUME TypeOK, NEW c \in Calls, Step(c), Watch
    PROVE  TypeOK'
  <1> USE ResizeAssumption DEF GoTo, Steps, Outcomes
  <1>1. ask[c] \in [kind : {"resize", "status"}, want : Sizes, wait : BOOLEAN, dryRun : BOOLEAN]
    BY DEF TypeOK
  <1>2. CASE Arrive(c)
    BY <1>2, WatchTypes DEF Arrive, TypeOK
  <1>3. CASE GetClaim(c)
    <2>1. wrote' \subseteq Calls /\ fresh' \subseteq Calls /\ same' \subseteq Calls
      BY <1>3 DEF GetClaim, TypeOK
    <2>2. pc' \in [Calls -> Steps \cup Outcomes]
      <3>1. PICK p \in {"refused", "class", "volume"} : pc' = [pc EXCEPT ![c] = p]
        BY <1>3 DEF GetClaim
      <3> QED
        BY <3>1 DEF TypeOK
    <2>3. read' \in [Calls -> Claims \cup {NoClaim}]
      BY <1>3 DEF GetClaim, TypeOK
    <2> QED
      BY <1>3, <2>1, <2>2, <2>3, WatchTypes DEF GetClaim, TypeOK
  <1>4. CASE CheckExpansionAllowed(c)
    BY <1>4, WatchTypes DEF CheckExpansionAllowed, TypeOK
  <1>5. CASE UpdateClaim(c)
    <2>1. claim' \in Claims \cup {NoClaim}
      <3>1. CASE Accepts(c) /\ Store(Resized(c))
        BY <1>1, <3>1, ClaimTypes DEF Accepts, Store, Resized, Claims
      <3>2. CASE UNCHANGED claim
        BY <3>2 DEF TypeOK
      <3> QED
        BY <1>5, <3>1, <3>2 DEF UpdateClaim
    <2>2. wrote' \subseteq Calls /\ fresh' \subseteq Calls /\ same' \subseteq Calls
      BY <1>5 DEF UpdateClaim, Store, TypeOK
    <2>3. pc' \in [Calls -> Steps \cup Outcomes]
      BY <1>5 DEF UpdateClaim, TypeOK
    <2> QED
      BY <1>5, <2>1, <2>2, <2>3, WatchTypes DEF UpdateClaim, TypeOK
  <1>6. CASE Poll(c) \/ WaitTimeout(c) \/ ApiError(c)
    BY <1>6, WatchTypes DEF Poll, WaitTimeout, ApiError, TypeOK
  <1>7. CASE ShowVolume(c)
    <2>1. \E v \in Sizes \cup {0} : shown' = [shown EXCEPT ![c].volume = v]
      <3>1. PICK v \in {0} \cup IF c \in same THEN {claim.volume} ELSE {} :
                 shown' = [shown EXCEPT ![c].volume = v]
        BY <1>7 DEF ShowVolume
      <3>2. v \in Sizes \cup {0}
        BY <3>1 DEF TypeOK, Claims, NoClaim
      <3> QED
        BY <3>1, <3>2
    <2>2. shown' \in [Calls -> [volume : Sizes \cup {0}, fs : Sizes \cup {0}]]
      BY <2>1 DEF TypeOK
    <2>3. pc' \in [Calls -> Steps \cup Outcomes]
      BY <1>7 DEF ShowVolume, TypeOK
    <2> QED
      BY <1>7, <2>2, <2>3, WatchTypes DEF ShowVolume, TypeOK
  <1>8. CASE ShowFilesystem(c)
    <2>1. PICK s \in {0, claim.fs} : shown' = [shown EXCEPT ![c].fs = s]
      BY <1>8 DEF ShowFilesystem
    <2>2. s \in Sizes \cup {0}
      BY DEF TypeOK, Claims, NoClaim
    <2>3. shown' \in [Calls -> [volume : Sizes \cup {0}, fs : Sizes \cup {0}]]
      <3>1. shown[c] \in [volume : Sizes \cup {0}, fs : Sizes \cup {0}]
        BY DEF TypeOK
      <3>2. [shown[c] EXCEPT !.fs = s] \in [volume : Sizes \cup {0}, fs : Sizes \cup {0}]
        BY <2>2, <3>1
      <3> QED
        BY <2>1, <3>2 DEF TypeOK
    <2>4. pc' \in [Calls -> Steps \cup Outcomes]
      BY <1>8 DEF ShowFilesystem, TypeOK
    <2> QED
      BY <1>8, <2>3, <2>4, WatchTypes DEF ShowFilesystem, TypeOK
  <1> QED
    BY <1>2, <1>3, <1>4, <1>5, <1>6, <1>7, <1>8 DEF Step

\* So do the resizer and the users.
LEMMA OthersTypes ==
    ASSUME TypeOK, Resizer \/ Edit, Watch
    PROVE  TypeOK'
  <1> USE ResizeAssumption
  <1>1. claim' \in Claims \cup {NoClaim}
    <2>1. CASE Resizer
      <3>1. claim \in Claims
        BY <2>1, ClaimTypes DEF Resizer, ResizeBegins, VolumeExpands, ResizeFails,
                                FilesystemGrows, CapacityReported
      <3> QED
        BY <2>1, <3>1 DEF Resizer, ResizeBegins, VolumeExpands, ResizeFails, FilesystemGrows,
                          CapacityReported, Store, Claims
    <2>2. CASE Edit
      BY <2>2, ClaimTypes DEF Edit, Store, Claims
    <2> QED
      BY <2>1, <2>2
  <1>2. fresh' \subseteq Calls /\ same' \subseteq Calls
    BY DEF TypeOK, Edit, Resizer, ResizeBegins, VolumeExpands, ResizeFails, FilesystemGrows,
           CapacityReported, Store
  <1>3. UNCHANGED <<pc, ask, read, shown, wrote>>
    BY DEF Edit, Resizer, ResizeBegins, VolumeExpands, ResizeFails, FilesystemGrows,
           CapacityReported, Quiet
  <1>4. expandable' \in BOOLEAN
    BY DEF TypeOK, Edit, Resizer, ResizeBegins, VolumeExpands, ResizeFails, FilesystemGrows,
           CapacityReported, Quiet
  <1>5. edits' \in 0..MaxEdits
    <2>1. CASE Edit
      <3>1. edits' = edits \/ (edits < MaxEdits /\ edits' = edits + 1)
        BY <2>1 DEF Edit
      <3> QED
        BY <3>1 DEF TypeOK
    <2>2. CASE Resizer
      BY <2>2 DEF TypeOK, Resizer, ResizeBegins, VolumeExpands, ResizeFails, FilesystemGrows,
                  CapacityReported, Quiet
    <2> QED
      BY <2>1, <2>2
  <1> QED
    BY <1>1, <1>2, <1>3, <1>4, <1>5, WatchTypes DEF TypeOK

\* Types.
LEMMA TypeStep == TypeOK /\ [Next]_vars => TypeOK'
  <1>1. ASSUME TypeOK, UNCHANGED vars PROVE TypeOK'
    BY <1>1 DEF TypeOK, vars
  <1> QED
    BY <1>1, CallTypes, OthersTypes DEF Next, Ended

-----------------------------------------------------------------------------
\* Calls do not change the claim but by an update, and that only makes it larger:
\* under the version it read it still has the size that was compared.
LEMMA UpdateGrows ==
    ASSUME IInv, NEW c \in Calls, UpdateClaim(c)
    PROVE  Behind' /\ Grows /\ (UNCHANGED claim \/ (claim' # NoClaim /\ fresh' = {}))
  <1> USE ClaimTypes DEF IInv
  <1>1. CASE UNCHANGED claim
    <2>1. Behind'
      BY <1>1 DEF Behind
    <2>2. Grows
      BY <1>1 DEF Grows
    <2> QED
      BY <1>1, <2>1, <2>2
  <1>2. CASE Accepts(c) /\ Store(Resized(c))
    <2>1. claim \in Claims /\ claim' = [claim EXCEPT !.size = ask[c].want]
      BY <1>2 DEF Accepts, Store, Resized
    <2>2. ask[c].want \in Sizes /\ ask[c].want \in Nat
      <3>1. ask[c] \in Asks
        BY DEF TypeOK
      <3> QED
        BY <3>1, ResizeAssumption
    <2>3. ask[c].want > claim.size
      BY <1>2 DEF UpdateClaim, Checked, Accepts, Fresh
    <2>4. claim' \in Claims /\ claim' # NoClaim
      BY <2>1, <2>2 DEF Claims
    <2>5. /\ claim'.size = ask[c].want /\ claim'.capacity = claim.capacity
          /\ claim'.volume = claim.volume /\ claim'.fs = claim.fs
          /\ claim'.condition = claim.condition
      BY <2>1 DEF Claims
    <2> QED
      BY <1>2, <2>2, <2>3, <2>4, <2>5 DEF Behind, Grows, Store
  <1> QED
    BY <1>1, <1>2 DEF UpdateClaim

\* The resizer only moves what is behind the claim upwards.
LEMMA ResizerGrows ==
    ASSUME IInv, Resizer
    PROVE  /\ Behind' /\ Grows /\ claim # NoClaim /\ claim' # NoClaim
           /\ fresh' = {} \/ (UNCHANGED fresh /\ claim'.size = claim.size)
           /\ UNCHANGED same
  <1> USE ClaimTypes DEF IInv
  <1>1. claim \in Claims
    BY DEF Resizer, ResizeBegins, VolumeExpands, ResizeFails, FilesystemGrows, CapacityReported
  <1>2. CASE ResizeBegins
    <2>1. claim' = [claim EXCEPT !.condition = "resizing"] /\ claim.size > claim.volume
      BY <1>2 DEF ResizeBegins, Store
    <2>2. claim' \in Claims
      BY <1>1, <2>1 DEF Claims
    <2> QED
      BY <1>1, <1>2, <2>1, <2>2 DEF ResizeBegins, Store, Behind, Grows, Claims
  <1>3. CASE VolumeExpands
    <2>1. claim' = [claim EXCEPT !.volume = claim.size, !.condition = "pending"]
      BY <1>3 DEF VolumeExpands, Store
    <2>2. claim' \in Claims
      BY <1>1, <2>1 DEF Claims
    <2> QED
      <3>1. /\ claim'.size = claim.size /\ claim'.volume = claim.size
            /\ claim'.capacity = claim.capacity /\ claim'.fs = claim.fs
            /\ claim'.condition = "pending"
        BY <1>1, <2>1 DEF Claims
      <3> QED
        BY <1>1, <1>3, <2>2, <3>1 DEF VolumeExpands, Store, Behind, Grows
  <1>4. CASE ResizeFails
    <2>1. claim' = [claim EXCEPT !.condition = "failed"]
      BY <1>4 DEF ResizeFails, Store
    <2>2. claim' \in Claims
      BY <1>1, <2>1 DEF Claims
    <2> QED
      BY <1>1, <1>4, <2>1, <2>2 DEF ResizeFails, Store, Behind, Grows, Claims
  <1>5. CASE FilesystemGrows
    <2>1. claim' = [claim EXCEPT !.fs = claim.volume]
      BY <1>5 DEF FilesystemGrows
    <2>2. claim' \in Claims
      BY <1>1, <2>1 DEF Claims
    <2> QED
      BY <1>1, <1>5, <2>1, <2>2 DEF FilesystemGrows, Behind, Grows, Claims
  <1>6. CASE CapacityReported
    <2>1. /\ claim' = [claim EXCEPT !.capacity = claim.fs, !.condition = "none"]
          /\ claim.fs = claim.volume
      BY <1>6 DEF CapacityReported, Store
    <2>2. claim' \in Claims
      BY <1>1, <2>1 DEF Claims
    <2> QED
      <3>1. /\ claim'.size = claim.size /\ claim'.volume = claim.volume
            /\ claim'.capacity = claim.fs /\ claim'.fs = claim.fs
            /\ claim'.condition = "none"
        BY <1>1, <2>1 DEF Claims
      <3> QED
        BY <1>1, <1>6, <2>1, <2>2, <3>1 DEF CapacityReported, Store, Behind, Grows
  <1> QED
    BY <1>2, <1>3, <1>4, <1>5, <1>6 DEF Resizer

\* Users grow a claim or replace it by way of none.
LEMMA EditGrows ==
    ASSUME IInv, Edit
    PROVE  /\ Behind' /\ Grows
           /\ UNCHANGED <<claim, fresh, same>> \/ fresh' = {}
           /\ UNCHANGED same \/ same' = {}
           /\ claim # NoClaim /\ claim' = NoClaim => same' = {}
  <1> USE ClaimTypes, ResizeAssumption DEF IInv
  <1>1. CASE claim # NoClaim /\ \E s \in Sizes : s > claim.size /\ Store([claim EXCEPT !.size = s])
    <2>1. PICK s \in Sizes : s > claim.size /\ Store([claim EXCEPT !.size = s])
      BY <1>1
    <2>2. claim \in Claims /\ claim' = [claim EXCEPT !.size = s]
      BY <1>1, <2>1 DEF Store
    <2>3. claim' \in Claims
      BY <2>2 DEF Claims
    <2> QED
      BY <2>1, <2>2, <2>3 DEF Store, Behind, Grows, Claims
  <1>2. CASE Store(NoClaim)
    BY <1>2 DEF Store, Behind, Grows, NoClaim
  <1>3. CASE /\ claim = NoClaim
             /\ \E s \in Sizes : Store([size |-> s, capacity |-> s, volume |-> s,
                                        fs |-> s, condition |-> "none"])
    <2>1. PICK s \in Sizes : Store([size |-> s, capacity |-> s, volume |-> s,
                                    fs |-> s, condition |-> "none"])
      BY <1>3
    <2>2. claim' \in Claims
      BY <2>1 DEF Store, Claims
    <2> QED
      BY <1>3, <2>1, <2>2 DEF Store, Behind, Grows
  <1>4. CASE UNCHANGED <<claim, fresh, same>>
    BY <1>4 DEF Behind, Grows
  <1> QED
    BY <1>1, <1>2, <1>3, <1>4 DEF Edit

\* What lies behind the claim stays so, and the claim grows.
LEMMA BehindStep == IInv /\ [Next]_vars => Behind' /\ Grows
  <1>1. ASSUME IInv, UNCHANGED claim PROVE Behind' /\ Grows
    BY <1>1, ClaimTypes DEF IInv, Behind, Grows
  <1>2. ASSUME NEW c \in Calls, Step(c) PROVE UNCHANGED claim \/ UpdateClaim(c)
    BY <1>2 DEF Step, Arrive, GetClaim, CheckExpansionAllowed, Poll, WaitTimeout, ShowVolume,
                ShowFilesystem, ApiError
  <1> QED
    BY <1>1, <1>2, UpdateGrows, ResizerGrows, EditGrows DEF Next, Ended, vars

-----------------------------------------------------------------------------
\* The version a call has read is fresh only as long as the claim has the size it
\* read.
LEMMA FreshStep == IInv /\ [Next]_vars => Fresh'
  <1> SUFFICES ASSUME IInv, [Next]_vars PROVE Fresh'
    OBVIOUS
  <1> USE DEF IInv
  <1>1. ASSUME NEW c \in Calls, GetClaim(c) PROVE Fresh'
    <2>1. CASE claim = NoClaim
      BY <1>1, <2>1 DEF GetClaim, Fresh
    <2>2. CASE claim # NoClaim
      <3>1. read' = [read EXCEPT ![c] = claim] /\ fresh' = fresh \cup {c} /\ UNCHANGED claim
        BY <1>1, <2>2 DEF GetClaim
      <3>2. read'[c] = claim /\ \A d \in fresh : d # c => read'[d] = read[d]
        BY <3>1 DEF TypeOK
      <3> QED
        BY <2>2, <3>1, <3>2 DEF Fresh
    <2> QED
      BY <2>1, <2>2
  <1>2. ASSUME NEW c \in Calls, UpdateClaim(c) PROVE Fresh'
    BY <1>2 DEF UpdateClaim, Store, Fresh
  <1>3. ASSUME NEW c \in Calls, Step(c) PROVE Fresh'
    BY <1>1, <1>2, <1>3 DEF Step, Arrive, CheckExpansionAllowed, Poll, WaitTimeout, ShowVolume,
                            ShowFilesystem, ApiError, Fresh
  <1>4. CASE Resizer
    <2>1. UNCHANGED read
      BY <1>4 DEF Resizer, ResizeBegins, VolumeExpands, ResizeFails, FilesystemGrows,
                  CapacityReported, Quiet
    <2> QED
      BY <1>4, <2>1, ResizerGrows DEF Fresh
  <1>5. CASE Edit
    <2>1. UNCHANGED read
      BY <1>5 DEF Edit
    <2> QED
      BY <1>5, <2>1, EditGrows DEF Fresh
  <1>6. CASE UNCHANGED vars
    BY <1>6 DEF vars, Fresh
  <1> QED
    BY <1>3, <1>4, <1>5, <1>6 DEF Next, Ended

\* What is shown of a claim that has not been replaced is not less than what was
\* read of it.
LEMMA SameStep == IInv /\ [Next]_vars => Same'
  <1> SUFFICES ASSUME IInv, [Next]_vars PROVE Same'
    OBVIOUS
  <1> USE DEF IInv
  <1>1. Grows /\ Behind'
    BY BehindStep
  <1>2. ASSUME NEW c \in Calls, c \in same, UNCHANGED <<read, shown>>, claim' # NoClaim
        PROVE  /\ read'[c].capacity <= claim'.capacity
               /\ read'[c].volume <= claim'.volume
    <2>1. /\ read[c].capacity \in Nat /\ read[c].volume \in Nat
          /\ claim'.capacity \in Nat /\ claim'.volume \in Nat
      <3>1. TypeOK'
        BY TypeStep
      <3> QED
        BY <3>1, SizesAreNat DEF TypeOK
    <2>2. claim # NoClaim /\ read[c].capacity <= claim.capacity /\ read[c].volume <= claim.volume
      BY <1>2 DEF Same
    <2>3. claim'.capacity >= claim.capacity /\ claim'.volume >= claim.volume
      BY <1>1, <1>2, <2>2 DEF Grows
    <2> QED
      BY <1>2, <2>1, <2>2, <2>3, ClaimTypes
  <1>3. ASSUME UNCHANGED <<read, shown>>, same' \subseteq same, same' # {} => claim' # NoClaim,
               \A d \in Calls : pc'[d] \in {"idle", "get"} => pc[d] \in {"idle", "get"}
        PROVE  Same'
    BY <1>2, <1>3 DEF Same, TypeOK
  <1>4. ASSUME NEW c \in Calls, GetClaim(c) PROVE Same'
    <2>1. CASE claim = NoClaim
      <3>1. same = {} /\ same' = {} /\ UNCHANGED shown
        BY <1>4, <2>1 DEF GetClaim, Same
      <3>2. \A d \in Calls : pc'[d] \in {"idle", "get"} => pc[d] \in {"idle", "get"}
        BY <1>4, <2>1 DEF GetClaim, GoTo, TypeOK
      <3> QED
        BY <3>1, <3>2 DEF Same
    <2>2. CASE claim # NoClaim
      <3>1. /\ read' = [read EXCEPT ![c] = claim] /\ same' = same \cup {c}
            /\ UNCHANGED <<claim, shown>> /\ pc[c] = "get"
        BY <1>4, <2>2 DEF GetClaim
      <3>2. read'[c] = claim /\ \A d \in Calls \ {c} : read'[d] = read[d]
        BY <3>1 DEF TypeOK
      <3>3. pc'[c] \notin {"idle", "get"} /\ \A d \in Calls \ {c} : pc'[d] = pc[d]
        BY <1>4, <2>2 DEF GetClaim, GoTo, TypeOK
      <3>4. /\ claim.capacity <= claim.capacity /\ claim.volume <= claim.volume
            /\ claim.capacity <= claim.volume
        BY ClaimTypes DEF Behind
      <3>5. shown[c].volume = 0 /\ shown[c].fs = 0
        BY <3>1 DEF Same
      <3>6. same \subseteq Calls
        BY DEF TypeOK
      <3> QED
        BY <2>2, <3>1, <3>2, <3>3, <3>4, <3>5, <3>6 DEF Same, Behind
    <2> QED
      BY <2>1, <2>2
  <1>5. ASSUME NEW c \in Calls, UpdateClaim(c) PROVE Same'
    <2>1. UNCHANGED <<read, shown>> /\ same' \subseteq same /\ (same' # {} => claim' # NoClaim)
      BY <1>5 DEF UpdateClaim, Store, Same, TypeOK
    <2>2. \A d \in Calls : pc'[d] \in {"idle", "get"} => pc[d] \in {"idle", "get"}
      BY <1>5 DEF UpdateClaim, GoTo, TypeOK
    <2> QED
      BY <1>3, <2>1, <2>2
  <1>6. ASSUME NEW c \in Calls, Arrive(c) \/ CheckExpansionAllowed(c) \/ Poll(c) \/ WaitTimeout(c)
                                \/ ApiError(c)
        PROVE  Same'
    <2>1. UNCHANGED <<claim, read, shown, same>>
      BY <1>6 DEF Arrive, CheckExpansionAllowed, Poll, WaitTimeout, ApiError
    <2>2. \A d \in Calls : pc'[d] \in {"idle", "get"} => pc[d] \in {"idle", "get"}
      BY <1>6 DEF Arrive, CheckExpansionAllowed, Poll, WaitTimeout, ApiError, GoTo, TypeOK
    <2> QED
      BY <1>3, <2>1, <2>2 DEF Same
  <1>7. ASSUME NEW c \in Calls, ShowVolume(c) PROVE Same'
    <2>1. PICK v \in {0} \cup IF c \in same THEN {claim.volume} ELSE {} :
               shown' = [shown EXCEPT ![c].volume = v]
      BY <1>7 DEF ShowVolume
    <2>2. UNCHANGED <<claim, read, same>>
      BY <1>7 DEF ShowVolume
    <2>3. pc'[c] \notin {"idle", "get"} /\ \A d \in Calls \ {c} : pc'[d] = pc[d]
      BY <1>7 DEF ShowVolume, GoTo, TypeOK
    <2>4. /\ shown'[c].volume = v /\ shown'[c].fs = shown[c].fs
          /\ \A d \in Calls \ {c} : shown'[d] = shown[d]
      BY <2>1 DEF TypeOK
    <2>5. c \in same => v = 0 \/ (v = claim.volume /\ v >= read[c].volume)
      BY ClaimTypes DEF Same, TypeOK
    <2> QED
      BY <2>2, <2>3, <2>4, <2>5 DEF Same, TypeOK
  <1>8. ASSUME NEW c \in Calls, ShowFilesystem(c) PROVE Same'
    <2>1. PICK s \in {0, claim.fs} : shown' = [shown EXCEPT ![c].fs = s]
      BY <1>8 DEF ShowFilesystem
    <2>2. UNCHANGED <<claim, read, same>>
      BY <1>8 DEF ShowFilesystem
    <2>3. pc'[c] \notin {"idle", "get"} /\ \A d \in Calls \ {c} : pc'[d] = pc[d]
      BY <1>8 DEF ShowFilesystem, GoTo, TypeOK
    <2>4. /\ shown'[c].fs = s /\ shown'[c].volume = shown[c].volume
          /\ \A d \in Calls \ {c} : shown'[d] = shown[d]
      BY <2>1 DEF TypeOK
    <2>5. c \in same => s = 0 \/ s >= read[c].capacity
      <3>1. c \in same => read[c].capacity \in Nat
        BY SizesAreNat DEF TypeOK
      <3> QED
        BY <3>1, ClaimTypes DEF Same, Behind
    <2> QED
      BY <2>2, <2>3, <2>4, <2>5 DEF Same, TypeOK
  <1>9. CASE Resizer
    <2>1. UNCHANGED <<read, shown, pc>>
      BY <1>9 DEF Resizer, ResizeBegins, VolumeExpands, ResizeFails, FilesystemGrows,
                  CapacityReported, Quiet
    <2> QED
      BY <1>3, <1>9, <2>1, ResizerGrows
  <1>10. CASE Edit
    <2>1. UNCHANGED <<read, shown, pc>>
      BY <1>10 DEF Edit
    <2>2. same' \subseteq same /\ (same' # {} => claim' # NoClaim)
      <3>1. same # {} => claim # NoClaim
        BY DEF Same
      <3> QED
        BY <1>10, <3>1, EditGrows
    <2> QED
      BY <1>3, <2>1, <2>2
  <1>11. CASE UNCHANGED vars
    BY <1>3, <1>11 DEF vars, Same
  <1> QED
    BY <1>4, <1>5, <1>6, <1>7, <1>8, <1>9, <1>10, <1>11 DEF Next, Ended, Step

-----------------------------------------------------------------------------
\* What a call has checked before it updates, and that a call whose class never
\* allowed it does not get there.
LEMMA CheckedStep == IInv /\ [Next]_vars => Checked'
  <1> SUFFICES ASSUME IInv, [Next]_vars PROVE Checked'
    OBVIOUS
  <1> USE DEF IInv
  <1>1. ASSUME UNCHANGED <<pc, ask, read, wrote>>, forbidden' \subseteq forbidden PROVE Checked'
    BY <1>1 DEF Checked
  <1>2. Watch => forbidden' \subseteq forbidden
    BY DEF Watch
  <1>3. ASSUME NEW c \in Calls, Step(c), Watch PROVE Checked'
    <2>1. UNCHANGED ask /\ \A d \in Calls \ {c} : pc'[d] = pc[d] /\ read'[d] = read[d]
      BY <1>3 DEF Step, Arrive, GetClaim, CheckExpansionAllowed, UpdateClaim, Poll, WaitTimeout,
                  ShowVolume, ShowFilesystem, ApiError, GoTo, TypeOK
    <2>2. pc'[c] = "update" => CheckExpansionAllowed(c)
      BY <1>3 DEF Step, Arrive, GetClaim, UpdateClaim, Poll, WaitTimeout, ShowVolume,
                  ShowFilesystem, ApiError, GoTo, TypeOK
    <2>3. CheckExpansionAllowed(c) /\ pc'[c] = "update" =>
            expandable /\ pc[c] = "class" /\ ask[c].want > read[c].size /\ UNCHANGED read
      <3>1. ask[c].want \in Nat /\ read[c].size \in Nat
        <4>1. ask[c] \in Asks /\ read[c] \in Claims \cup {NoClaim}
          BY DEF TypeOK
        <4> QED
          BY <4>1, SizesAreNat, ResizeAssumption
      <3> QED
        BY <3>1 DEF CheckExpansionAllowed, ClassAllows, GoTo, TypeOK
    <2>4. pc'[c] = "update" => c \notin forbidden'
      BY <1>3, <2>2, <2>3 DEF Watch
    <2>5. \A d \in wrote' : d \in wrote \/ (d = c /\ pc[c] = "update")
      BY <1>3 DEF Step, Arrive, GetClaim, CheckExpansionAllowed, UpdateClaim, Poll, WaitTimeout,
                  ShowVolume, ShowFilesystem, ApiError
    <2> QED
      BY <1>2, <1>3, <2>1, <2>2, <2>3, <2>4, <2>5 DEF Checked
  <1>4. CASE (Resizer \/ Edit) /\ Watch
    BY <1>1, <1>2, <1>4 DEF Edit, Resizer, ResizeBegins, VolumeExpands, ResizeFails,
                            FilesystemGrows, CapacityReported, Quiet
  <1>5. CASE UNCHANGED vars
    BY <1>1, <1>5 DEF vars
  <1> QED
    BY <1>3, <1>4, <1>5 DEF Next, Ended

\* A call that waits has updated the claim; one that is done has seen it grown.
LEMMA WaitedStep == IInv /\ [Next]_vars => Waited'
  <1> SUFFICES ASSUME IInv, [Next]_vars PROVE Waited'
    OBVIOUS
  <1> USE DEF IInv
  <1>1. Watch => reached \subseteq reached'
    BY DEF Watch
  <1>2. ASSUME NEW c \in Calls, Step(c), Watch PROVE Waited'
    <2>1. \A d \in Calls \ {c} : pc'[d] = pc[d]
      BY <1>2 DEF Step, Arrive, GetClaim, CheckExpansionAllowed, UpdateClaim, Poll, WaitTimeout,
                  ShowVolume, ShowFilesystem, ApiError, GoTo, TypeOK
    <2>2. wrote \subseteq wrote' /\ UNCHANGED ask
      BY <1>2 DEF Step, Arrive, GetClaim, CheckExpansionAllowed, UpdateClaim, Poll, WaitTimeout,
                  ShowVolume, ShowFilesystem, ApiError
    <2>3. pc'[c] = "wait" => c \in wrote'
      BY <1>2 DEF Step, Arrive, GetClaim, CheckExpansionAllowed, UpdateClaim, Poll, WaitTimeout,
                  ShowVolume, ShowFilesystem, ApiError, GoTo, TypeOK
    <2>4. pc'[c] = "done" => c \in reached'
      <3>1. pc'[c] = "done" => Poll(c)
        BY <1>2 DEF Step, Arrive, GetClaim, CheckExpansionAllowed, UpdateClaim, WaitTimeout,
                    ShowVolume, ShowFilesystem, ApiError, GoTo, TypeOK
      <3>2. Poll(c) /\ pc'[c] = "done" =>
               claim'.capacity >= ask[c].want /\ c \in wrote'
        BY DEF Poll, Waited, GoTo, TypeOK
      <3> QED
        BY <1>2, <3>1, <3>2 DEF Watch
    <2> QED
      BY <1>1, <1>2, <2>1, <2>2, <2>3, <2>4 DEF Waited, DoneMeansGrown
  <1>3. CASE (Resizer \/ Edit) /\ Watch
    <2>1. UNCHANGED <<pc, wrote>>
      BY <1>3 DEF Edit, Resizer, ResizeBegins, VolumeExpands, ResizeFails, FilesystemGrows,
                  CapacityReported, Quiet
    <2> QED
      BY <1>1, <1>3, <2>1 DEF Waited, DoneMeansGrown
  <1>4. CASE UNCHANGED vars
    BY <1>4 DEF vars, Waited, DoneMeansGrown
  <1> QED
    BY <1>2, <1>3, <1>4 DEF Next, Ended

-----------------------------------------------------------------------------
\* The invariant holds in all states of all calls.
THEOREM Invariant == Spec => []IInv
  <1>1. IInv /\ [Next]_vars => IInv'
    BY TypeStep, BehindStep, FreshStep, SameStep, CheckedStep, WaitedStep DEF IInv
  <1> QED
    BY InitInv, <1>1, PTL DEF Spec

\* The state always has its types.
THEOREM TypeCorrect == Spec => []TypeOK
  <1>1. IInv => TypeOK
    BY DEF IInv
  <1> QED
    BY Invariant, <1>1, PTL

\* pv_resize never makes a claim smaller, however many others grow it.
THEOREM NeverShrinks == Spec => GrowsOnly
  <1>1. IInv /\ [Next]_vars => [claim # NoClaim /\ claim' # NoClaim => claim'.size >= claim.size]_vars
    BY BehindStep DEF Grows
  <1> QED
    BY Invariant, <1>1, PTL DEF Spec, GrowsOnly

\* A class that does not allow a resize during the whole call keeps the call from
\* updating the claim.
THEOREM ClassIsHonoured == Spec => []ForbiddenStays
  <1>1. IInv => ForbiddenStays
    BY DEF IInv, Checked, ForbiddenStays, TypeOK
  <1> QED
    BY Invariant, <1>1, PTL

\* A call that reports the resize as done has seen the capacity reach its size.
THEOREM DoneIsGrown == Spec => []DoneMeansGrown
  <1>1. IInv => DoneMeansGrown
    BY DEF IInv, Waited
  <1> QED
    BY Invariant, <1>1, PTL

\* What a status shows fits together, although it is read at three moments.
THEOREM StatusFitsTogether == Spec => []StatusInOrder
  <1>1. ASSUME IInv PROVE StatusInOrder
    <2> SUFFICES ASSUME NEW c \in Calls \cap same, pc[c] = "status"
                 PROVE  /\ shown[c].volume # 0 =>
                              /\ shown[c].volume >= read[c].capacity
                              /\ Phase(c) = "fs_expansion_pending" =>
                                    shown[c].volume > read[c].capacity
                        /\ shown[c].fs # 0 => shown[c].fs >= read[c].capacity
      BY DEF StatusInOrder
    <2>1. read[c].capacity \in Nat /\ read[c].volume \in Nat
      <3>1. read[c] \in Claims \cup {NoClaim}
        BY <1>1 DEF IInv, TypeOK
      <3> QED
        BY <3>1, SizesAreNat
    <2>2. shown[c].volume \in Nat
      <3>1. shown[c] \in [volume : Sizes \cup {0}, fs : Sizes \cup {0}]
        BY <1>1 DEF IInv, TypeOK
      <3>2. shown[c].volume \in Sizes \cup {0}
        BY <3>1
      <3>3. Sizes \cup {0} \subseteq Nat
        BY ResizeAssumption
      <3> QED
        BY <3>2, <3>3
    <2>3. Phase(c) = "fs_expansion_pending" => read[c].condition = "pending"
      BY DEF Phase
    <2> QED
      BY <1>1, <2>1, <2>2, <2>3 DEF IInv, Same
  <1> QED
    BY Invariant, <1>1, PTL

\* Both tell what is so.
THEOREM ClaimIsTold == Spec => []ClaimTold
  <1>1. DoneMeansGrown /\ StatusInOrder => ClaimTold
    BY DEF ClaimTold
  <1> QED
    BY DoneIsGrown, StatusFitsTogether, <1>1, PTL

-----------------------------------------------------------------------------
(* Sums *)

LEMMA Least == ASSUME NEW T \in SUBSET Nat, T # {} PROVE \E n \in T : \A m \in T : n <= m
<1> DEFINE R == OpToRel(<, Nat)
<1>1. IsWellFoundedOn(R, Nat)
  BY NatLessThanWellFounded
<1>2. \A x, y \in Nat : y < x => <<y, x>> \in R
  BY DEF OpToRel
<1> HIDE DEF R
<1>3. PICK x \in T : \A y \in T : ~(<<y, x>> \in R)
  BY <1>1, WFMin
<1>4. ASSUME NEW y \in T PROVE x <= y
  <2>1. x \in Nat /\ y \in Nat
    OBVIOUS
  <2>2. ~(y < x)
    BY <1>2, <1>3, <2>1
  <2> QED
    BY <2>1, <2>2
<1> QED
  BY <1>4

LEMMA Induction ==
    ASSUME NEW G, 0 \in G, \A n \in Nat : n \in G => n + 1 \in G
    PROVE  Nat \subseteq G
<1>1. SUFFICES ASSUME ~(Nat \subseteq G) PROVE FALSE
  OBVIOUS
<1> DEFINE T == {n \in Nat : n \notin G}
<1>2. T \in SUBSET Nat /\ T # {}
  BY <1>1
<1>3. PICK n \in T : \A m \in T : n <= m
  BY Least, <1>2
<1>4. n - 1 \in Nat /\ n - 1 \notin T
  BY <1>3
<1>5. (n - 1) + 1 \in G
  BY <1>4
<1> QED
  BY <1>5, <1>3

Highest(S) == CHOOSE x \in S : \A y \in S : x >= y

LEMMA HighestIn ==
    ASSUME NEW n \in Nat, NEW t \in SUBSET (1..n), t # {}
    PROVE  Highest(t) \in t /\ \A y \in t : Highest(t) >= y
<1> DEFINE T == {m \in Nat : \A y \in t : m >= y}
<1>1. n \in T /\ T \in SUBSET Nat
  OBVIOUS
<1>2. PICK m \in T : \A k \in T : m <= k
  BY Least, <1>1
<1>3. m \in t
  <2>1. SUFFICES ASSUME m \notin t PROVE FALSE
    OBVIOUS
  <2>2. PICK y \in t : TRUE
    OBVIOUS
  <2>3. m - 1 \in Nat
    BY <2>1, <2>2
  <2>4. ASSUME NEW z \in t PROVE m - 1 >= z
    BY <2>1
  <2>5. m - 1 \in T
    BY <2>3, <2>4
  <2> QED
    BY <1>2, <2>5
<1> QED
  BY <1>2, <1>3 DEF Highest

\* The sum of b and all of g[x], x in S, in the form in which FoldLeft computes it.
IsSum(f, b, g, S) ==
    f = [t \in SUBSET S |-> IF t = {} THEN b ELSE f[t \ {Highest(t)}] + g[Highest(t)]]

Sums(f, b, g, k) ==
    \A t \in SUBSET (1..k) : f[t] = IF t = {} THEN b ELSE f[t \ {Highest(t)}] + g[Highest(t)]

Summable(b, g, k) == \E f \in [SUBSET (1..k) -> Nat] : Sums(f, b, g, k)

LEMMA SumExists ==
    ASSUME NEW n \in Nat, NEW g \in [1..n -> Nat], NEW b \in Nat
    PROVE  \E f : IsSum(f, b, g, 1..n)
<1> DEFINE G == {k \in Nat : k <= n => Summable(b, g, k)}
<1>1. 0 \in G
  <2>1. SUBSET (1..0) = {{}}
    OBVIOUS
  <2> DEFINE f == [t \in SUBSET (1..0) |-> b]
  <2>2. f \in [SUBSET (1..0) -> Nat] /\ Sums(f, b, g, 0)
    BY <2>1 DEF Sums
  <2> QED
    BY <2>2 DEF Summable
<1>2. ASSUME NEW k \in Nat, k \in G PROVE k + 1 \in G
  <2> SUFFICES ASSUME k + 1 <= n
               PROVE  Summable(b, g, k + 1)
    OBVIOUS
  <2>0. k + 1 \in Nat /\ k <= n
    OBVIOUS
  <2>1. PICK f \in [SUBSET (1..k) -> Nat] : Sums(f, b, g, k)
    BY <1>2, <2>0 DEF Summable
  <2> DEFINE h == [t \in SUBSET (1..(k + 1)) |->
                      IF k + 1 \in t THEN f[t \ {k + 1}] + g[k + 1] ELSE f[t]]
  <2>2. ASSUME NEW t \in SUBSET (1..(k + 1)), k + 1 \in t
        PROVE  /\ Highest(t) = k + 1 /\ t \ {k + 1} \in SUBSET (1..k)
               /\ h[t] = f[t \ {k + 1}] + g[k + 1] /\ h[t \ {k + 1}] = f[t \ {k + 1}]
               /\ h[t] \in Nat
    <3>1. Highest(t) \in t /\ Highest(t) >= k + 1
      BY <2>0, <2>2, HighestIn
    <3>2. Highest(t) \in 1..(k + 1)
      BY <3>1
    <3>3. Highest(t) = k + 1
      BY <2>0, <3>1, <3>2
    <3>4. t \ {k + 1} \in SUBSET (1..k) /\ t \ {k + 1} \in SUBSET (1..(k + 1))
      OBVIOUS
    <3>5. f[t \ {k + 1}] \in Nat /\ g[k + 1] \in Nat
      BY <3>4
    <3> QED
      BY <2>2, <3>3, <3>4, <3>5
  <2>3. ASSUME NEW t \in SUBSET (1..(k + 1)), k + 1 \notin t
        PROVE  /\ t \in SUBSET (1..k) /\ h[t] = f[t] /\ h[t] \in Nat
               /\ t # {} => h[t \ {Highest(t)}] = f[t \ {Highest(t)}]
    <3>1. t \in SUBSET (1..k)
      BY <2>3
    <3>2. t \ {Highest(t)} \in SUBSET (1..(k + 1)) /\ k + 1 \notin t \ {Highest(t)}
      BY <2>3
    <3> QED
      BY <2>3, <3>1, <3>2
  <2>4. h \in [SUBSET (1..(k + 1)) -> Nat]
    BY <2>2, <2>3
  <2>5. Sums(h, b, g, k + 1)
    <3> SUFFICES ASSUME NEW t \in SUBSET (1..(k + 1))
                 PROVE  h[t] = IF t = {} THEN b ELSE h[t \ {Highest(t)}] + g[Highest(t)]
      BY DEF Sums
    <3> HIDE DEF h
    <3>1. CASE k + 1 \in t
      BY <3>1, <2>2
    <3>2. CASE k + 1 \notin t
      BY <3>2, <2>3, <2>1 DEF Sums
    <3> QED
      BY <3>1, <3>2
  <2> QED
    BY <2>4, <2>5 DEF Summable
<1>3. n \in G
  <2> HIDE DEF G
  <2> QED
    BY <1>1, <1>2, Induction
<1>4. PICK f \in [SUBSET (1..n) -> Nat] : Sums(f, b, g, n)
  <2>1. Summable(b, g, n)
    BY <1>3
  <2> QED
    BY <2>1 DEF Summable
<1>5. IsSum(f, b, g, 1..n)
  BY <1>4 DEF IsSum, Sums
<1> QED
  BY <1>5

LEMMA SumUnique ==
    ASSUME NEW n \in Nat, NEW g \in [1..n -> Nat], NEW b \in Nat,
           NEW f, IsSum(f, b, g, 1..n), NEW h, IsSum(h, b, g, 1..n)
    PROVE  f[1..n] = h[1..n] /\ f[1..n] \in Nat
<1> DEFINE G == {k \in Nat : k <= n => f[1..k] = h[1..k] /\ f[1..k] \in Nat}
<1>1. 0 \in G
  <2>1. 1..0 = {} /\ {} \in SUBSET (1..n)
    OBVIOUS
  <2> QED
    BY <2>1 DEF IsSum
<1>2. ASSUME NEW k \in Nat, k \in G PROVE k + 1 \in G
  <2> SUFFICES ASSUME k + 1 <= n
               PROVE  f[1..(k + 1)] = h[1..(k + 1)] /\ f[1..(k + 1)] \in Nat
    OBVIOUS
  <2>1. 1..(k + 1) \in SUBSET (1..n) /\ 1..(k + 1) # {} /\ k + 1 \in 1..(k + 1)
    OBVIOUS
  <2>2. Highest(1..(k + 1)) \in 1..(k + 1) /\ Highest(1..(k + 1)) >= k + 1
    BY <2>1, HighestIn
  <2>3. Highest(1..(k + 1)) = k + 1 /\ (1..(k + 1)) \ {k + 1} = 1..k
    BY <2>2
  <2>4. /\ f[1..(k + 1)] = f[1..k] + g[k + 1]
        /\ h[1..(k + 1)] = h[1..k] + g[k + 1]
    BY <2>1, <2>3 DEF IsSum
  <2>5. g[k + 1] \in Nat /\ f[1..k] = h[1..k] /\ f[1..k] \in Nat
    BY <1>2
  <2> QED
    BY <2>4, <2>5
<1>3. n \in G
  <2> HIDE DEF G
  <2> QED
    BY <1>1, <1>2, Induction
<1> QED
  BY <1>3

-----------------------------------------------------------------------------
(* Room on the node *)

LEMMA ValueIsNat ==
    ASSUME NEW r \in Resources, NEW q \in Nat
    PROVE  Value(r, q) \in Nat
<1>1. Unit[r] \in Nat \ {0}
  BY PodAssumption
<1>2. ASSUME NEW u \in Nat \ {0} PROVE (q + u - 1) \div u \in Nat
  <2>1. q + u - 1 \in Nat
    OBVIOUS
  <2>2. ASSUME NEW x \in Nat PROVE x \div u \in Nat
    OBVIOUS
  <2> QED
    BY <2>1, <2>2
<1> QED
  BY <1>1, <1>2 DEF Value

\* What checkNodeResourceCapacity adds up.
Requested(r) == [i \in 1..Len(pod) |-> Value(r, pod[i].request[r])]
Node(r) == Value(r, rest[r])

LEMMA TotalIsSum ==
    ASSUME NEW r \in Resources, pod \in Seq(Containers), rest \in [Resources -> Nat]
    PROVE  /\ Requested(r) \in [1..Len(pod) -> Nat] /\ Node(r) \in Nat
           /\ \E f : /\ IsSum(f, Node(r), Requested(r), 1..Len(pod))
                     /\ TotalRequests(r) = f[1..Len(pod)]
           /\ \E f : /\ IsSum(f, Node(r), Requested(r), 1..Len(pod))
                     /\ FoldLeft(+, Node(r), Requested(r)) = f[1..Len(pod)]
<1> DEFINE n == Len(pod)
           P(f) == f = [t \in SUBSET (DOMAIN pod) |->
                          IF t = {} THEN Value(r, rest[r])
                          ELSE f[t \ {Highest(t)}] + Value(r, pod[Highest(t)].request[r])]
<1>1. n \in Nat /\ DOMAIN pod = 1..n
  OBVIOUS
<1>2. Requested(r) \in [1..n -> Nat] /\ Node(r) \in Nat
  <2>1. ASSUME NEW i \in 1..n PROVE pod[i].request[r] \in Nat
    <3>1. pod[i] \in Containers
      OBVIOUS
    <3> QED
      BY <3>1 DEF Containers
  <2> QED
    BY <2>1, ValueIsNat DEF Requested, Node
<1>3. TotalRequests(r) = (CHOOSE f : P(f))[DOMAIN pod]
  BY DEF TotalRequests, FoldLeft, MapThenFoldSet, Max, Highest
<1>4. FoldLeft(+, Node(r), Requested(r))
        = (CHOOSE f : IsSum(f, Node(r), Requested(r), DOMAIN Requested(r)))[DOMAIN Requested(r)]
  BY DEF FoldLeft, MapThenFoldSet, Max, Highest, IsSum
<1>5. DOMAIN Requested(r) = 1..n
  BY DEF Requested
<1>6. PICK f : IsSum(f, Node(r), Requested(r), 1..n)
  BY <1>1, <1>2, SumExists
<1>7. ASSUME NEW h PROVE P(h) <=> IsSum(h, Node(r), Requested(r), 1..n)
  <2>1. ASSUME NEW t \in SUBSET (1..n), t # {}
        PROVE  Requested(r)[Highest(t)] = Value(r, pod[Highest(t)].request[r])
    <3>1. Highest(t) \in 1..n
      BY <1>1, <2>1, HighestIn
    <3> QED
      BY <3>1 DEF Requested
  <2> QED
    BY <1>1, <2>1 DEF IsSum, Node
<1>8. P(CHOOSE h : P(h))
  <2>1. P(f)
    BY <1>6, <1>7
  <2> HIDE DEF P
  <2> QED
    BY <2>1
<1> HIDE DEF P
<1> QED
  BY <1>1, <1>2, <1>3, <1>4, <1>5, <1>6, <1>7, <1>8

\* Room in the sense of the code is room in the sense of RoomSeen.
LEMMA RoomFits ==
    ASSUME NEW r \in Resources, NEW c \in PodCalls,
           pod \in Seq(Containers), rest \in [Resources -> Nat],
           podAsk[c] \in PodAsks, Container(c) \in Containers, HasRoom(c, r)
    PROVE  Fits(c, r)
<1>1. PICK f : IsSum(f, Node(r), Requested(r), 1..Len(pod)) /\ TotalRequests(r) = f[1..Len(pod)]
  BY TotalIsSum
<1>2. PICK h : /\ IsSum(h, Node(r), Requested(r), 1..Len(pod))
               /\ FoldLeft(+, Node(r), Requested(r)) = h[1..Len(pod)]
  BY TotalIsSum
<1>3. TotalRequests(r) = FoldLeft(+, Node(r), Requested(r)) /\ TotalRequests(r) \in Nat
  <2>0. Requested(r) \in [1..Len(pod) -> Nat] /\ Node(r) \in Nat
    BY TotalIsSum
  <2>1. Len(pod) \in Nat
    OBVIOUS
  <2>2. f[1..Len(pod)] = h[1..Len(pod)] /\ f[1..Len(pod)] \in Nat
    BY <1>1, <1>2, <2>0, <2>1, SumUnique
  <2> QED
    BY <1>1, <1>2, <2>2
<1>4. /\ podAsk[c].request[r] \in Nat /\ Container(c).request[r] \in Nat /\ Allocatable[r] \in Nat
  <2>1. podAsk[c].request \in [Resources -> Nat] /\ Allocatable \in [Resources -> Nat]
    BY PodAssumption
  <2>2. Container(c).request \in [Resources -> Nat]
    BY DEF Containers
  <2> QED
    BY <2>1, <2>2
<1>5. /\ Value(r, podAsk[c].request[r]) \in Nat /\ Value(r, Container(c).request[r]) \in Nat
      /\ Value(r, Allocatable[r]) \in Nat
  BY <1>4, ValueIsNat
<1>6. Value(r, podAsk[c].request[r]) + TotalRequests(r)
        <= Value(r, Allocatable[r]) + Value(r, Container(c).request[r])
  BY DEF HasRoom
<1>7. TotalRequests(r) + Value(r, podAsk[c].request[r]) - Value(r, Container(c).request[r])
        <= Value(r, Allocatable[r])
  <2>1. ASSUME NEW a \in Nat, NEW b \in Nat, NEW t \in Nat, NEW d \in Nat, a + t <= d + b
        PROVE  t + a - b <= d
    BY <2>1
  <2> QED
    BY <1>3, <1>5, <1>6, <2>1
<1> QED
  BY <1>3, <1>7 DEF Fits, Requested, Node
-----------------------------------------------------------------------------
(* The invariant of pod_resize *)

Distinct(p) == \A i, j \in 1..Len(p) : i # j => p[i].name # p[j].name

\* The calls that hold a pod they have read.
InHand(c) == podPc[c] \in {"memory", "usage", "cpu", "again", "patch"}

PodKept ==
    /\ PodTypeOK /\ Distinct(pod)
    /\ podRead \in [PodCalls -> Seq(Containers)]
    /\ \A c \in PodCalls : Distinct(podRead[c])

\* The pod a call read is the pod there is, until someone touches it.
Untouched == \A c \in PodCalls : InHand(c) /\ c \notin touched => podRead[c] = pod

\* The container asked for is in the pod the call read.
Found == \A c \in PodCalls : InHand(c) => Index(c, podRead[c]) # 0

\* The name read again is that container's, unless the pod was touched.
Named == \A c \in PodCalls :
    podPc[c] = "patch" /\ c \notin touched => target[c] = Container(c).name

\* What the checks passed so far have seen.
Roomy == \A c \in PodCalls :
    /\ podPc[c] \in {"usage", "cpu", "again", "patch"} /\ Wants(c, "memory")
           => "memory" \in fitted[c]
    /\ podPc[c] \in {"again", "patch"} /\ Wants(c, "cpu") => "cpu" \in fitted[c]
Guarded == \A c \in PodCalls :
    podPc[c] \in {"cpu", "again", "patch"} /\ LowersLimit(c) => c \in safe

PodInv == PodKept /\ Untouched /\ Found /\ Named /\ Roomy /\ Guarded

-----------------------------------------------------------------------------
(* Containers *)

\* Index, of a container's name and a pod.
Spot(name, p) ==
    LET named == {i \in 1..Len(p) : name \in {"", p[i].name}}
    IN  IF named = {} THEN 0 ELSE CHOOSE i \in named : \A j \in named : i <= j

LEMMA OneIsLeast == \A n \in Nat : \A k \in 1..n : 1 \in 1..n /\ (k <= 1 => k = 1)
OBVIOUS

\* findContainer returns the first container that answers to the name.
LEMMA SpotIsFirst ==
    ASSUME NEW name, NEW p, Len(p) \in Nat, Spot(name, p) # 0
    PROVE  /\ Spot(name, p) \in 1..Len(p) /\ name \in {"", p[Spot(name, p)].name}
           /\ name = "" => Spot(name, p) = 1
<1> DEFINE named == {i \in 1..Len(p) : name \in {"", p[i].name}}
<1>0. Spot(name, p) = IF named = {} THEN 0 ELSE CHOOSE i \in named : \A j \in named : i <= j
  BY DEF Spot
<1>1. named # {} /\ named \in SUBSET Nat
  <2>1. named # {}
    BY <1>0
  <2>2. 1..Len(p) \subseteq Nat
    OBVIOUS
  <2> QED
    BY <2>1, <2>2
<1>2. PICK i \in named : \A j \in named : i <= j
  BY <1>1, Least
<1>3. Spot(name, p) \in named /\ \A j \in named : Spot(name, p) <= j
  <2> HIDE DEF named
  <2> QED
    BY <1>0, <1>1, <1>2
<1>4. ASSUME name = "" PROVE Spot(name, p) = 1
  <2>1. Spot(name, p) \in 1..Len(p)
    BY <1>3
  <2>2. 1 \in 1..Len(p)
    BY <2>1, OneIsLeast
  <2>3. 1 \in named
    BY <1>4, <2>2
  <2>4. Spot(name, p) <= 1
    BY <1>3, <2>3
  <2> QED
    BY <2>1, <2>4, OneIsLeast
<1> QED
  BY <1>3, <1>4

LEMMA AskTypes ==
    ASSUME PodTypeOK, NEW c \in PodCalls, NEW r \in Resources
    PROVE  /\ podAsk[c] \in PodAsks /\ podAsk[c].container \in ContainerNames \cup {""}
           /\ podAsk[c].request[r] \in Nat /\ podAsk[c].limit[r] \in Nat
<1>1. podAsk[c] \in PodAsks
  BY DEF PodTypeOK
<1>2. podAsk[c] \in [container : ContainerNames \cup {""}, request : [Resources -> Nat],
                     limit : [Resources -> Nat], dryRun : BOOLEAN]
  BY <1>1, PodAssumption
<1> QED
  BY <1>1, <1>2

LEMMA ContainerTypes ==
    ASSUME PodInv, NEW c \in PodCalls, InHand(c)
    PROVE  /\ Index(c, podRead[c]) = Spot(podAsk[c].container, podRead[c])
           /\ Index(c, podRead[c]) \in 1..Len(podRead[c])
           /\ podAsk[c].container \in {"", Container(c).name}
           /\ podAsk[c].container = "" => Index(c, podRead[c]) = 1
           /\ Container(c) \in Containers
<1>1. Index(c, podRead[c]) = Spot(podAsk[c].container, podRead[c])
  BY DEF Index, Spot
<1>2. Index(c, podRead[c]) # 0 /\ podRead[c] \in Seq(Containers)
  BY DEF PodInv, Found, PodKept
<1>3. Len(podRead[c]) \in Nat
  BY <1>2
<1>4. /\ Index(c, podRead[c]) \in 1..Len(podRead[c])
      /\ podAsk[c].container \in {"", podRead[c][Index(c, podRead[c])].name}
      /\ podAsk[c].container = "" => Index(c, podRead[c]) = 1
  BY <1>1, <1>2, <1>3, SpotIsFirst
<1>5. podRead[c][Index(c, podRead[c])] \in Containers
  <2>1. ASSUME NEW p \in Seq(Containers), NEW i \in 1..Len(p) PROVE p[i] \in Containers
    OBVIOUS
  <2> QED
    BY <1>2, <1>4, <2>1
<1> QED
  BY <1>1, <1>4, <1>5 DEF Container

-----------------------------------------------------------------------------
(* What a step does to a call *)

Stays(d) == podPc'[d] = podPc[d] /\ podRead'[d] = podRead[d] /\ target'[d] = target[d]

LEMMA Moves ==
    ASSUME PodTypeOK, podRead \in [PodCalls -> Seq(Containers)], PodNext, NEW d \in PodCalls
    PROVE  /\ Stays(d) \/ PodStep(d)
           /\ podAsk' = podAsk
           /\ fitted[d] \subseteq fitted'[d] /\ safe \subseteq safe'
           /\ d \notin touched' => pod' = pod /\ (d \notin touched \/ GetPod(d))
           /\ ~GetPod(d) => podRead'[d] = podRead[d]
           /\ ~GetAgain(d) => target'[d] = target[d]
<1> USE DEF PodTypeOK, Stays
<1>1. ASSUME NEW c \in PodCalls, PodStep(c), PodWatch
      PROVE  /\ Stays(d) \/ PodStep(d)
             /\ podAsk' = podAsk
             /\ d \notin touched' => pod' = pod /\ (d \notin touched \/ GetPod(d))
             /\ ~GetPod(d) => podRead'[d] = podRead[d]
             /\ ~GetAgain(d) => target'[d] = target[d]
  <2>1. CASE PodArrive(c)
    BY <1>1, <2>1 DEF PodArrive, PodGoTo, Others
  <2>2. CASE GetPod(c)
    BY <1>1, <2>2 DEF GetPod, PodGoTo
  <2>3. CASE CheckMemory(c)
    BY <1>1, <2>3 DEF CheckMemory, PodGoTo, Others
  <2>4. CASE CheckUsage(c)
    BY <1>1, <2>4 DEF CheckUsage, PodGoTo, Others
  <2>5. CASE CheckCpu(c)
    BY <1>1, <2>5 DEF CheckCpu, PodGoTo, Others
  <2>6. CASE GetAgain(c)
    BY <1>1, <2>6 DEF GetAgain, PodGoTo, Others
  <2>7. CASE Patch(c)
    BY <1>1, <2>7 DEF Patch, PodGoTo, PodIsNow
  <2>8. CASE PodApiError(c)
    BY <1>1, <2>8 DEF PodApiError, PodGoTo, Others
  <2> QED
    BY <1>1, <2>1, <2>2, <2>3, <2>4, <2>5, <2>6, <2>7, <2>8 DEF PodStep
<1>2. ASSUME PodWatch
      PROVE  fitted[d] \subseteq fitted'[d] /\ safe \subseteq safe'
  BY <1>2 DEF PodWatch
<1>3. CASE PodEdit /\ PodWatch
  BY <1>2, <1>3 DEF PodEdit, PodIsNow
<1>4. CASE PodEnded
  BY <1>4 DEF PodEnded, podVars
<1> QED
  BY <1>1, <1>2, <1>3, <1>4 DEF PodNext

-----------------------------------------------------------------------------
(* The invariant is kept *)

LEMMA PodBegins == PodInit => PodInv
<1> SUFFICES ASSUME PodInit PROVE PodInv
  OBVIOUS
<1>1. PodKept
  <2>1. pod \in Seq(Containers) /\ Distinct(pod)
    BY PodAssumption DEF PodInit, Distinct
  <2>2. <<>> \in Seq(Containers) /\ Distinct(<<>>)
    BY DEF Distinct
  <2>3. podRead \in [PodCalls -> Seq(Containers)] /\ \A c \in PodCalls : podRead[c] = <<>>
    BY <2>2 DEF PodInit, NoPod
  <2>4. podEdits \in 0..MaxPodEdits
    <3>1. MaxPodEdits \in Nat
      BY PodAssumption
    <3>2. podEdits = 0
      BY DEF PodInit
    <3> QED
      BY <3>1, <3>2
  <2>5. /\ podPc \in [PodCalls -> PodSteps \cup PodOutcomes]
        /\ target \in [PodCalls -> ContainerNames \cup {""}]
    <3>1. "idle" \in PodSteps \cup PodOutcomes /\ "" \in ContainerNames \cup {""}
      BY DEF PodSteps
    <3>2. podPc = [c \in PodCalls |-> "idle"] /\ target = [c \in PodCalls |-> ""]
      BY DEF PodInit
    <3> QED
      BY <3>1, <3>2
  <2>6. /\ fitted \in [PodCalls -> SUBSET Resources]
        /\ touched \subseteq PodCalls /\ safe \subseteq PodCalls
    BY DEF PodInit
  <2>7. PodTypeOK
    BY <2>1, <2>4, <2>5, <2>6 DEF PodTypeOK, PodInit
  <2> QED
    BY <2>1, <2>2, <2>3, <2>7 DEF PodKept
<1>2. ASSUME NEW c \in PodCalls PROVE podPc[c] = "idle"
  BY DEF PodInit
<1> QED
  BY <1>1, <1>2 DEF PodInv, Untouched, Found, Named, Roomy, Guarded, InHand

\* A call comes to hold a pod only by reading it.
LEMMA Holding ==
    ASSUME PodInv, PodNext, NEW c \in PodCalls, InHand(c)', ~GetPod(c)
    PROVE  InHand(c) /\ podRead'[c] = podRead[c]
<1>1. PodTypeOK /\ podRead \in [PodCalls -> Seq(Containers)]
  BY DEF PodInv, PodKept
<1>2. (Stays(c) \/ PodStep(c)) /\ podRead'[c] = podRead[c]
  BY <1>1, Moves
<1>3. CASE Stays(c)
  BY <1>2, <1>3 DEF Stays, InHand
<1>4. CASE PodStep(c)
  BY <1>1, <1>2, <1>4 DEF PodTypeOK, InHand, PodStep, PodArrive, CheckMemory, CheckUsage, CheckCpu,
     GetAgain, Patch, PodApiError, PodGoTo
<1> QED
  BY <1>2, <1>3, <1>4

LEMMA UntouchedKept ==
    ASSUME PodInv, PodNext, NEW c \in PodCalls, InHand(c)', c \notin touched'
    PROVE  podRead'[c] = pod'
<1>1. PodTypeOK /\ podRead \in [PodCalls -> Seq(Containers)]
  BY DEF PodInv, PodKept
<1>2. /\ pod' = pod /\ (c \notin touched \/ GetPod(c))
      /\ ~GetPod(c) => podRead'[c] = podRead[c]
  BY <1>1, Moves
<1>3. CASE GetPod(c)
  BY <1>1, <1>3 DEF GetPod
<1>4. CASE ~GetPod(c)
  <2>1. podRead'[c] = podRead[c] /\ c \notin touched /\ pod' = pod
    BY <1>2, <1>4
  <2>2. InHand(c)
    BY <1>4, Holding
  <2> QED
    BY <2>1, <2>2 DEF PodInv, Untouched
<1> QED
  BY <1>3, <1>4

LEMMA FoundKept ==
    ASSUME PodInv, PodNext, NEW c \in PodCalls, InHand(c)'
    PROVE  Index(c, podRead[c])' # 0
<1>1. PodTypeOK /\ podRead \in [PodCalls -> Seq(Containers)]
  BY DEF PodInv, PodKept
<1>2. podAsk' = podAsk
  BY <1>1, Moves
<1>3. Index(c, podRead[c])' = Spot(podAsk[c].container, podRead'[c])
  BY <1>2 DEF Index, Spot
<1>4. CASE GetPod(c)
  <2>1. podRead'[c] = pod /\ Index(c, pod) # 0
    BY <1>1, <1>4 DEF GetPod, PodGoTo, PodTypeOK, InHand
  <2>2. Index(c, pod) = Spot(podAsk[c].container, pod)
    BY DEF Index, Spot
  <2> QED
    BY <1>3, <2>1, <2>2
<1>5. CASE ~GetPod(c)
  <2>1. InHand(c) /\ podRead'[c] = podRead[c]
    BY <1>5, Holding
  <2>2. Spot(podAsk[c].container, podRead[c]) # 0
    BY <2>1, ContainerTypes DEF PodInv, Found
  <2> QED
    BY <1>3, <2>1, <2>2
<1> QED
  BY <1>4, <1>5

\* What the call asks of the container it found does not change while it holds the pod.
LEMMA SameContainer ==
    ASSUME PodInv, PodNext, NEW c \in PodCalls, InHand(c)', ~GetPod(c)
    PROVE  /\ podAsk' = podAsk /\ Index(c, podRead[c])' = Index(c, podRead[c])
           /\ Container(c)' = Container(c)
<1>1. podAsk' = podAsk
  BY Moves DEF PodInv, PodKept
<1>2. InHand(c) /\ podRead'[c] = podRead[c]
  BY Holding
<1>3. Index(c, podRead[c])' = Spot(podAsk[c].container, podRead[c])
  BY <1>1, <1>2 DEF Index, Spot
<1>4. Index(c, podRead[c]) = Spot(podAsk[c].container, podRead[c])
  BY DEF Index, Spot
<1> QED
  BY <1>1, <1>2, <1>3, <1>4 DEF Container

LEMMA NamedKept ==
    ASSUME PodInv, PodNext, NEW c \in PodCalls, podPc'[c] = "patch", c \notin touched'
    PROVE  target'[c] = Container(c)'.name
<1>1. PodTypeOK /\ podRead \in [PodCalls -> Seq(Containers)] /\ InHand(c)'
  BY DEF PodInv, PodKept, InHand
<1>2. /\ Stays(c) \/ PodStep(c)
      /\ pod' = pod /\ (c \notin touched \/ GetPod(c))
      /\ ~GetAgain(c) => target'[c] = target[c]
  BY <1>1, Moves
<1>3. ~GetPod(c)
  BY <1>1 DEF GetPod, PodGoTo, PodTypeOK
<1>4. Container(c)' = Container(c) /\ InHand(c) /\ c \notin touched
  BY <1>1, <1>2, <1>3, SameContainer, Holding
<1>5. CASE GetAgain(c)
  <2>1. target'[c] = pod[Index(c, podRead[c])].name
    BY <1>1, <1>5 DEF GetAgain, PodGoTo, PodTypeOK
  <2>2. podRead[c] = pod
    BY <1>4 DEF PodInv, Untouched
  <2> QED
    BY <1>4, <2>1, <2>2 DEF Container
<1>6. CASE ~GetAgain(c)
  <2>1. podPc[c] = "patch"
    <3>1. CASE Stays(c)
      BY <3>1 DEF Stays
    <3>2. CASE PodStep(c)
      BY <3>2, <1>1, <1>3, <1>6 DEF PodTypeOK, PodStep, PodArrive, CheckMemory, CheckUsage,
         CheckCpu, Patch, PodApiError, PodGoTo
    <3> QED
      BY <1>2, <3>1, <3>2
  <2> QED
    BY <1>2, <1>4, <1>6, <2>1 DEF PodInv, Named
<1> QED
  BY <1>5, <1>6

\* An increase gets past its check only if it fits.
LEMMA RoomyKept ==
    ASSUME PodInv, PodNext, NEW c \in PodCalls
    PROVE  /\ podPc'[c] \in {"usage", "cpu", "again", "patch"} /\ Wants(c, "memory")
                  => "memory" \in fitted'[c]
           /\ podPc'[c] \in {"again", "patch"} /\ Wants(c, "cpu") => "cpu" \in fitted'[c]
<1>1. PodTypeOK /\ podRead \in [PodCalls -> Seq(Containers)] /\ Roomy
  BY DEF PodInv, PodKept
<1>2. (Stays(c) \/ PodStep(c)) /\ fitted[c] \subseteq fitted'[c]
  BY <1>1, Moves
<1>3. CASE Stays(c)
  BY <1>1, <1>2, <1>3 DEF Stays, Roomy
<1>4. ASSUME NEW r \in Resources, podPc[c] \in {"memory", "cpu"}, HasRoom(c, r), PodWatch
      PROVE  r \in fitted'[c]
  <2>1. InHand(c) /\ pod \in Seq(Containers) /\ rest \in [Resources -> Nat]
    BY <1>1, <1>4, PodAssumption DEF InHand, PodTypeOK
  <2>2. podAsk[c] \in PodAsks /\ Container(c) \in Containers
    BY <1>1, <2>1, AskTypes, ContainerTypes
  <2>3. Fits(c, r)
    BY <1>4, <2>1, <2>2, RoomFits
  <2> QED
    BY <1>4, <2>3 DEF PodWatch
<1>5. PodWatch \/ podPc' = podPc
  BY DEF PodNext, PodEnded, podVars
<1>6. "memory" \in Resources /\ "cpu" \in Resources
  BY PodAssumption
<1>7. CASE CheckMemory(c)
  <2>1. podPc[c] = "memory" /\ podPc'[c] # "memory" => PodWatch
    BY <1>5
  <2>2. /\ podPc[c] = "memory" /\ podPc'[c] \in {"refused", "usage", "cpu"}
        /\ podPc'[c] \in {"usage", "cpu"} /\ Wants(c, "memory") => HasRoom(c, "memory")
    <3>1. podPc[c] = "memory"
      BY <1>7 DEF CheckMemory
    <3>2. podPc'[c] = IF Refuses(c, "memory") THEN "refused"
                      ELSE IF LowersLimit(c) THEN "usage" ELSE "cpu"
      BY <1>1, <1>7 DEF CheckMemory, PodGoTo, PodTypeOK
    <3> QED
      BY <3>1, <3>2 DEF Refuses
  <2> QED
    BY <1>4, <1>6, <2>1, <2>2
<1>8. CASE CheckCpu(c)
  <2>1. podPc[c] = "cpu" /\ podPc'[c] # "cpu" => PodWatch
    BY <1>5
  <2>2. /\ podPc[c] = "cpu" /\ podPc'[c] \in {"refused", "dry", "again"}
        /\ podPc'[c] = "again" /\ Wants(c, "cpu") => HasRoom(c, "cpu")
    BY <1>1, <1>8 DEF CheckCpu, PodGoTo, PodTypeOK, Refuses
  <2> QED
    BY <1>1, <1>2, <1>4, <1>6, <2>1, <2>2 DEF Roomy
<1>9. CASE PodStep(c) /\ ~CheckMemory(c) /\ ~CheckCpu(c)
  <2>1. /\ podPc'[c] \in {"usage", "cpu", "again", "patch"}
              => podPc[c] \in {"usage", "cpu", "again", "patch"}
        /\ podPc'[c] \in {"again", "patch"} => podPc[c] \in {"again", "patch"}
    BY <1>1, <1>9 DEF PodTypeOK, PodStep, PodArrive, GetPod, CheckUsage, GetAgain, Patch,
       PodApiError, PodGoTo
  <2> QED
    BY <1>1, <1>2, <2>1 DEF Roomy
<1> QED
  BY <1>2, <1>3, <1>7, <1>8, <1>9

\* A limit is lowered only past the check of the memory in use.
LEMMA GuardedKept ==
    ASSUME PodInv, PodNext, NEW c \in PodCalls,
           podPc'[c] \in {"cpu", "again", "patch"}, LowersLimit(c)'
    PROVE  c \in safe'
<1>1. /\ PodTypeOK /\ podRead \in [PodCalls -> Seq(Containers)] /\ InHand(c)'
      /\ usage \in Nat /\ ShrinkBuffer \in Nat /\ "memory" \in Resources
  BY PodAssumption DEF PodInv, PodKept, InHand, PodTypeOK
<1>2. (Stays(c) \/ PodStep(c)) /\ safe \subseteq safe'
  BY <1>1, Moves
<1>3. ~GetPod(c)
  BY <1>1 DEF GetPod, PodGoTo, PodTypeOK
<1>4. LowersLimit(c)
  <2>1. podAsk' = podAsk /\ Container(c)' = Container(c)
    BY <1>1, <1>3, SameContainer
  <2> QED
    BY <2>1 DEF LowersLimit, Wants
<1>5. CASE CheckUsage(c)
  <2>1. podPc[c] = "usage" /\ podPc'[c] = "cpu" /\ ~(podAsk[c].limit["memory"] < SafeLimit)
    BY <1>1, <1>5 DEF CheckUsage, PodGoTo, PodTypeOK
  <2>2. SafeLimit \in Nat
    <3>1. ASSUME NEW x \in Nat PROVE x \div 100 \in Nat
      BY <3>1
    <3>2. usage * ShrinkBuffer \in Nat
      BY <1>1
    <3>3. (usage * ShrinkBuffer) \div 100 \in Nat
      BY <3>1, <3>2
    <3>4. ASSUME NEW x \in Nat, NEW y \in Nat PROVE x + y \in Nat
      BY <3>4
    <3> QED
      BY <1>1, <3>3, <3>4 DEF SafeLimit
  <2>3. podAsk[c].limit["memory"] >= SafeLimit
    <3>1. podAsk[c].limit["memory"] \in Nat
      BY <1>1, AskTypes
    <3> QED
      BY <2>1, <2>2, <3>1
  <2>4. PodWatch
    BY <2>1 DEF PodNext, PodEnded, podVars
  <2> QED
    BY <2>1, <2>3, <2>4 DEF PodWatch
<1>6. CASE ~CheckUsage(c)
  <2>1. podPc[c] \in {"cpu", "again", "patch"}
    <3>1. CASE Stays(c)
      BY <3>1 DEF Stays
    <3>2. CASE CheckMemory(c)
      BY <1>1, <1>4, <3>2 DEF CheckMemory, PodGoTo, PodTypeOK, LowersLimit
    <3>3. CASE PodStep(c) /\ ~CheckMemory(c)
      BY <1>1, <1>3, <1>6, <3>3 DEF PodTypeOK, PodStep, PodArrive, CheckCpu, GetAgain, Patch,
         PodApiError, PodGoTo
    <3> QED
      BY <1>2, <3>1, <3>2, <3>3
  <2> QED
    BY <1>2, <1>4, <2>1 DEF PodInv, Guarded
<1> QED
  BY <1>5, <1>6

\* The limit of the patch is a quantity.
LEMMA NewLimitIsNat ==
    ASSUME PodInv, NEW c \in PodCalls, InHand(c), NEW r \in Resources
    PROVE  NewLimit(c, r) \in Nat
<1>1. podAsk[c].request[r] \in Nat /\ podAsk[c].limit[r] \in Nat
  BY AskTypes DEF PodInv, PodKept
<1> QED
  BY <1>1 DEF NewLimit

\* The patched pod has the containers it had, and no other than the one named is changed.
LEMMA PatchedPod ==
    ASSUME PodInv, NEW c \in PodCalls, InHand(c)
    PROVE  /\ Patched(c) \in Seq(Containers) /\ Len(Patched(c)) = Len(pod)
           /\ \A i \in 1..Len(pod) :
                  /\ Patched(c)[i].name = pod[i].name
                  /\ pod[i].name # target[c] => Patched(c)[i] = pod[i]
                  /\ pod[i].name = target[c] => Patched(c)[i] = Merged(c, pod[i])
<1>0. PodTypeOK /\ pod \in Seq(Containers)
  BY DEF PodInv, PodKept, PodTypeOK
<1>1. PodTypeOK /\ pod \in Seq(Containers) /\ Len(pod) \in Nat
  BY <1>0
<1>2. ASSUME NEW k \in Containers
      PROVE  Merged(c, k) \in Containers /\ Merged(c, k).name = k.name
  <2> DEFINE asked == [r \in Resources |->
                          IF Wants(c, r) THEN podAsk[c].request[r] ELSE k.request[r]]
             capped == [r \in Resources |->
                          IF NewLimit(c, r) # 0 THEN NewLimit(c, r) ELSE k.limit[r]]
  <2>1. k.request \in [Resources -> Nat] /\ k.limit \in [Resources -> Nat]
    BY <1>2 DEF Containers
  <2>2. asked \in [Resources -> Nat]
    BY <1>1, <2>1, AskTypes
  <2>3. capped \in [Resources -> Nat]
    BY <2>1, NewLimitIsNat
  <2>4. Merged(c, k) = [k EXCEPT !.request = asked, !.limit = capped]
    BY DEF Merged
  <2> HIDE DEF asked, capped
  <2> QED
    BY <1>2, <2>2, <2>3, <2>4 DEF Containers
<1>3. ASSUME NEW i \in 1..Len(pod) PROVE pod[i] \in Containers
  BY <1>1
<1>4. /\ Patched(c) \in [1..Len(pod) -> Containers]
      /\ \A i \in 1..Len(pod) :
             Patched(c)[i] = IF pod[i].name = target[c] THEN Merged(c, pod[i]) ELSE pod[i]
  BY <1>2, <1>3 DEF Patched
<1>5. Patched(c) \in Seq(Containers) /\ Len(Patched(c)) = Len(pod)
  <2>1. ASSUME NEW n \in Nat, NEW f \in [1..n -> Containers]
        PROVE  f \in Seq(Containers) /\ Len(f) = n
    BY <2>1
  <2> QED
    BY <1>1, <1>4, <2>1
<1> QED
  BY <1>2, <1>3, <1>4, <1>5

\* What the actions themselves change of it.
PodShape ==
    /\ pod \in Seq(Containers) /\ Distinct(pod)
    /\ rest \in Rests /\ usage \in PodUsages /\ podEdits \in 0..MaxPodEdits
    /\ podPc \in [PodCalls -> PodSteps \cup PodOutcomes]
    /\ target \in [PodCalls -> ContainerNames \cup {""}]
    /\ touched \subseteq PodCalls
    /\ podRead \in [PodCalls -> Seq(Containers)]

LEMMA CountUp == \A m \in Nat : \A n \in 0..m : n < m => n + 1 \in 0..m
OBVIOUS

LEMMA KeptKept == ASSUME PodInv, PodNext PROVE PodKept'
<1>1. PodTypeOK /\ podRead \in [PodCalls -> Seq(Containers)] /\ pod \in Seq(Containers)
  BY DEF PodInv, PodKept, PodTypeOK
<1>2. podAsk' \in [PodCalls -> PodAsks] /\ (PodWatch \/ UNCHANGED <<fitted, safe>>)
  <2>1. UNCHANGED podAsk
    BY DEF PodNext, PodStep, PodEdit, PodEnded, podVars, PodArrive, GetPod, CheckMemory,
       CheckUsage, CheckCpu, GetAgain, Patch, PodApiError
  <2>2. PodWatch \/ UNCHANGED <<fitted, safe>>
    BY DEF PodNext, PodEnded, podVars
  <2> QED
    BY <1>1, <2>1, <2>2 DEF PodTypeOK
<1>3. fitted' \in [PodCalls -> SUBSET Resources] /\ safe' \subseteq PodCalls
  <2>1. CASE PodWatch
    BY <1>1, <2>1 DEF PodWatch, PodTypeOK
  <2>2. CASE UNCHANGED <<fitted, safe>>
    BY <1>1, <2>2 DEF PodTypeOK
  <2> QED
    BY <1>2, <2>1, <2>2
<1>4. PodShape'
  <2>1. PodShape
    BY DEF PodInv, PodKept, PodTypeOK, PodShape
  <2>2. ASSUME UNCHANGED pod PROVE pod' \in Seq(Containers) /\ Distinct(pod)'
    BY <1>1, <2>1, <2>2 DEF PodShape, Distinct
  <2>3. ASSUME NEW c \in PodCalls, PodStep(c) PROVE PodShape'
    <3> USE DEF PodShape, PodGoTo, Others, PodSteps, PodOutcomes
    <3>1. CASE PodArrive(c)
      BY <2>1, <2>2, <3>1 DEF PodArrive
    <3>2. CASE GetPod(c)
      BY <1>1, <2>1, <2>2, <3>2 DEF GetPod
    <3>3. CASE CheckMemory(c)
      BY <2>1, <2>2, <3>3 DEF CheckMemory
    <3>4. CASE CheckUsage(c)
      BY <2>1, <2>2, <3>4 DEF CheckUsage
    <3>5. CASE CheckCpu(c)
      BY <2>1, <2>2, <3>5 DEF CheckCpu
    <3>6. CASE GetAgain(c)
      <4>1. CASE Index(c, podRead[c]) \in 1..Len(pod)
        <5>1. pod[Index(c, podRead[c])] \in Containers
          BY <1>1, <4>1
        <5>2. pod[Index(c, podRead[c])].name \in ContainerNames
          BY <5>1 DEF Containers
        <5> QED
          BY <2>1, <2>2, <3>6, <4>1, <5>2 DEF GetAgain
      <4>2. CASE Index(c, podRead[c]) \notin 1..Len(pod)
        BY <2>1, <2>2, <3>6, <4>2 DEF GetAgain
      <4> QED
        BY <4>1, <4>2
    <3>7. CASE Patch(c)
      <4>1. InHand(c)
        BY <3>7 DEF Patch, InHand
      <4>2. CASE UNCHANGED pod
        BY <2>1, <2>2, <3>7, <4>2 DEF Patch, PodIsNow
      <4>3. CASE pod' = Patched(c)
        <5>1. /\ pod' \in Seq(Containers) /\ Len(pod') = Len(pod)
              /\ \A i \in 1..Len(pod) : pod'[i].name = pod[i].name
          BY <4>1, <4>3, PatchedPod
        <5>2. Distinct(pod)'
          BY <2>1, <5>1 DEF Distinct
        <5> QED
          BY <2>1, <3>7, <5>1, <5>2 DEF Patch, PodIsNow
      <4> QED
        BY <3>7, <4>2, <4>3 DEF Patch, PodIsNow
    <3>8. CASE PodApiError(c)
      BY <2>1, <2>2, <3>8 DEF PodApiError
    <3> QED
      BY <2>3, <3>1, <3>2, <3>3, <3>4, <3>5, <3>6, <3>7, <3>8 DEF PodStep
  <2>4. CASE PodEdit
    <3>1. podEdits' \in 0..MaxPodEdits
      <4>1. MaxPodEdits \in Nat
        BY PodAssumption
      <4>2. podEdits < MaxPodEdits /\ podEdits' = podEdits + 1
        BY <2>4 DEF PodEdit
      <4> QED
        BY <2>1, <4>1, <4>2, CountUp DEF PodShape
    <3>2. pod' \in Seq(Containers) /\ Distinct(pod)'
      <4>1. CASE UNCHANGED pod
        BY <2>2, <4>1
      <4>2. ASSUME NEW p \in Pods \cup {NoPod} PROVE p \in Seq(Containers) /\ Distinct(p)
        <5>1. CASE p \in Pods
          BY <5>1, PodAssumption DEF Distinct
        <5>2. CASE p = <<>>
          BY <5>2 DEF Distinct
        <5> QED
          BY <5>1, <5>2 DEF NoPod
      <4>3. CASE pod' \in Pods \cup {NoPod}
        BY <4>2, <4>3
      <4> QED
        BY <2>4, <4>1, <4>3 DEF PodEdit, PodIsNow
    <3> QED
      BY <2>1, <2>4, <3>1, <3>2 DEF PodEdit, PodIsNow, PodShape
  <2>5. CASE PodEnded
    BY <2>1, <2>2, <2>5 DEF PodEnded, podVars, PodShape
  <2> QED
    BY <2>3, <2>4, <2>5 DEF PodNext
<1>5. ASSUME NEW c \in PodCalls
      PROVE  podRead'[c] \in Seq(Containers) /\ Distinct(podRead[c])'
  <2>1. CASE GetPod(c)
    <3>1. podRead'[c] = pod
      BY <1>1, <2>1 DEF GetPod
    <3>2. Distinct(pod)
      BY DEF PodInv, PodKept
    <3> QED
      BY <1>1, <3>1, <3>2 DEF Distinct
  <2>2. CASE ~GetPod(c)
    <3>1. podRead'[c] = podRead[c]
      BY <1>1, <2>2, Moves
    <3>2. Distinct(podRead[c])
      BY DEF PodInv, PodKept
    <3> QED
      BY <1>1, <3>1, <3>2 DEF Distinct
  <2> QED
    BY <2>1, <2>2
<1> QED
  BY <1>2, <1>3, <1>4, <1>5 DEF PodKept, PodTypeOK, PodShape

LEMMA PodInvKept == PodInv /\ [PodNext]_podVars => PodInv'
<1> SUFFICES ASSUME PodInv, [PodNext]_podVars PROVE PodInv'
  OBVIOUS
<1>1. CASE PodNext
  <2>1. ASSUME NEW c \in PodCalls
        PROVE  InHand(c)' /\ c \notin touched' => podRead'[c] = pod'
    BY <1>1, UntouchedKept
  <2>2. ASSUME NEW c \in PodCalls PROVE InHand(c)' => Index(c, podRead[c])' # 0
    BY <1>1, FoundKept
  <2>3. ASSUME NEW c \in PodCalls
        PROVE  podPc'[c] = "patch" /\ c \notin touched' => target'[c] = Container(c)'.name
    BY <1>1, NamedKept
  <2>4. UNCHANGED podAsk
    BY <1>1 DEF PodNext, PodStep, PodEdit, PodEnded, podVars, PodArrive, GetPod, CheckMemory,
       CheckUsage, CheckCpu, GetAgain, Patch, PodApiError
  <2>5. ASSUME NEW c \in PodCalls, NEW r PROVE Wants(c, r)' = Wants(c, r)
    BY <2>4 DEF Wants
  <2>6. ASSUME NEW c \in PodCalls
        PROVE  /\ podPc'[c] \in {"usage", "cpu", "again", "patch"} /\ Wants(c, "memory")'
                      => "memory" \in fitted'[c]
               /\ podPc'[c] \in {"again", "patch"} /\ Wants(c, "cpu")' => "cpu" \in fitted'[c]
    BY <1>1, <2>5, RoomyKept
  <2>7. ASSUME NEW c \in PodCalls
        PROVE  podPc'[c] \in {"cpu", "again", "patch"} /\ LowersLimit(c)' => c \in safe'
    BY <1>1, GuardedKept
  <2>8. PodKept'
    BY <1>1, KeptKept
  <2> QED
    BY <2>1, <2>2, <2>3, <2>6, <2>7, <2>8 DEF PodInv, Untouched, Found, Named, Roomy, Guarded
<1>2. CASE UNCHANGED podVars
  <2> USE <1>2 DEF podVars
  <2>1. PodKept'
    BY DEF PodInv, PodKept, PodTypeOK, Distinct
  <2>2. Untouched'
    BY DEF PodInv, Untouched, InHand
  <2>3. ASSUME NEW c \in PodCalls
        PROVE  Index(c, podRead[c])' = Index(c, podRead[c]) /\ Container(c)' = Container(c)
    BY DEF Index, Container
  <2>4. Found' /\ Named'
    BY <2>3 DEF PodInv, Found, Named, InHand
  <2>5. Roomy' /\ Guarded'
    BY <2>3 DEF PodInv, Roomy, Guarded, Wants, LowersLimit
  <2> QED
    BY <2>1, <2>2, <2>4, <2>5 DEF PodInv
<1> QED
  BY <1>1, <1>2

\* What a call that patches the pod it read does to it.
LEMMA PatchFacts ==
    ASSUME PodInv, PodNext, NEW c \in PodCalls, Patches(c)
    PROVE  /\ InHand(c) /\ podRead[c] = pod /\ target[c] = Container(c).name
           /\ pod' = Patched(c)
<1>1. PodTypeOK /\ podRead \in [PodCalls -> Seq(Containers)]
  BY DEF PodInv, PodKept
<1>2. podPc[c] = "patch" /\ podPc'[c] \in {"done", "unanswered"} /\ c \notin touched
  BY DEF Patches
<1>3. InHand(c) /\ podRead[c] = pod /\ target[c] = Container(c).name
  BY <1>2 DEF InHand, PodInv, Untouched, Named
<1>4. PodStep(c)
  <2>1. Stays(c) \/ PodStep(c)
    BY <1>1, Moves
  <2> QED
    BY <1>2, <2>1 DEF Stays
<1>5. Patch(c)
  BY <1>1, <1>2, <1>4 DEF PodStep, PodArrive, GetPod, CheckMemory, CheckUsage, CheckCpu, GetAgain,
     PodApiError, PodGoTo, PodTypeOK
<1>6. pod' = Patched(c)
  BY <1>1, <1>2, <1>5 DEF Patch, PodGoTo, PodIsNow, PodTypeOK
<1> QED
  BY <1>3, <1>6

\* Only the container that was found is changed.
LEMMA OneIsChanged ==
    ASSUME PodInv, PodNext, NEW c \in PodCalls, Patches(c), NEW i \in 1..Len(pod)
    PROVE  /\ i = Index(c, podRead[c]) => pod[i] = Container(c) /\ pod'[i] = Merged(c, pod[i])
           /\ i # Index(c, podRead[c]) => pod'[i] = pod[i]
<1>1. /\ InHand(c) /\ podRead[c] = pod /\ target[c] = Container(c).name
      /\ pod' = Patched(c)
  BY PatchFacts
<1>2. Index(c, podRead[c]) \in 1..Len(pod) /\ Container(c) = pod[Index(c, podRead[c])]
  BY <1>1, ContainerTypes DEF Container
<1>3. i # Index(c, podRead[c]) => pod[i].name # target[c]
  BY <1>1, <1>2 DEF PodInv, PodKept, Distinct
<1> QED
  BY <1>1, <1>2, <1>3, PatchedPod

LEMMA RoomIsSeen == PodInv /\ PodNext => RoomSeen
<1> SUFFICES ASSUME PodInv, PodNext, NEW c \in PodCalls, Patches(c),
                    NEW r \in Resources, Wants(c, r)
             PROVE  r \in fitted[c]
  BY DEF RoomSeen
<1>1. podPc[c] = "patch" /\ r \in {"memory", "cpu"}
  BY PodAssumption DEF Patches
<1> QED
  BY <1>1 DEF PodInv, Roomy

LEMMA ShrinkIsChecked == PodInv /\ PodNext => ShrinkChecked
<1> SUFFICES ASSUME PodInv, PodNext, NEW c \in PodCalls, Patches(c), c \notin safe,
                    NEW i \in 1..Len(pod)
             PROVE  pod'[i].limit["memory"] >= pod[i].limit["memory"]
  BY DEF ShrinkChecked
<1>1. /\ PodTypeOK /\ InHand(c) /\ pod[i] \in Containers /\ "memory" \in Resources
  <2>1. pod \in Seq(Containers)
    BY DEF PodInv, PodKept, PodTypeOK
  <2>2. pod[i] \in Containers
    BY <2>1
  <2> QED
    BY <2>2, PatchFacts, PodAssumption DEF PodInv, PodKept
<1>2. ~LowersLimit(c)
  BY DEF PodInv, Guarded, Patches
<1>3. pod[i].limit["memory"] \in Nat
  BY <1>1 DEF Containers
<1>4. CASE i = Index(c, podRead[c])
  <2>1. pod[i] = Container(c) /\ pod'[i] = Merged(c, pod[i])
    BY <1>4, OneIsChanged
  <2>2. pod'[i].limit["memory"]
          = IF NewLimit(c, "memory") # 0 THEN NewLimit(c, "memory") ELSE pod[i].limit["memory"]
    BY <1>1, <2>1 DEF Merged, Containers
  <2>3. NewLimit(c, "memory") # 0 => NewLimit(c, "memory") >= pod[i].limit["memory"]
    <3>1. podAsk[c].request["memory"] \in Nat /\ podAsk[c].limit["memory"] \in Nat
      BY <1>1, AskTypes
    <3> QED
      BY <1>2, <1>3, <2>1, <3>1 DEF NewLimit, LowersLimit
  <2> QED
    BY <1>3, <2>2, <2>3
<1>5. CASE i # Index(c, podRead[c])
  BY <1>3, <1>5, OneIsChanged
<1> QED
  BY <1>4, <1>5

LEMMA ContainerIsRight == PodInv /\ PodNext => RightContainer
<1> SUFFICES ASSUME PodInv, PodNext, NEW c \in PodCalls, Patches(c), NEW i \in 1..Len(pod),
                    pod'[i] # pod[i]
             PROVE  IF podAsk[c].container = "" THEN i = 1
                    ELSE pod[i].name = podAsk[c].container
  BY DEF RightContainer
<1>1. i = Index(c, podRead[c]) /\ pod[i] = Container(c)
  BY OneIsChanged
<1>2. /\ podAsk[c].container \in {"", Container(c).name}
      /\ podAsk[c].container = "" => Index(c, podRead[c]) = 1
  BY PatchFacts, ContainerTypes
<1> QED
  BY <1>1, <1>2

\* pod_resize: for every set of calls, pods, requests and limits, a call that patches
\* the pod it read has seen its increases fit on the node, has seen the memory in use
\* fit under a limit it lowers, and changes the container it was asked to change.
THEOREM PatchesAreSound == PodSpec => PodPatchSound
<1>1. PodInv /\ [PodNext]_podVars
        => [PodTypeOK' /\ RoomSeen /\ ShrinkChecked /\ RightContainer]_podVars
  <2> SUFFICES ASSUME PodInv, PodNext
               PROVE  PodTypeOK' /\ RoomSeen /\ ShrinkChecked /\ RightContainer
    OBVIOUS
  <2>1. PodTypeOK'
    BY KeptKept DEF PodKept
  <2> QED
    BY <2>1, RoomIsSeen, ShrinkIsChecked, ContainerIsRight
<1> QED
  BY <1>1, PodBegins, PodInvKept, PTL DEF PodSpec, PodPatchSound
=============================================================================
