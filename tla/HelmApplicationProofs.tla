------------------------- MODULE HelmApplicationProofs -------------------------
(***************************************************************************)
(* helm_application_apply implements HelmStore, for any number of calls,   *)
(* any specs and any changes by others: the resourceVersion that an update *)
(* carries stands for the spec that was read under it.                     *)
(***************************************************************************)
EXTENDS HelmApplication, TLAPS

\* A version that is still current means the spec is still the one it was read
\* with; versions that were read are never ahead of the object's.
Known(c) ==
    /\ baseRv[c] <= rv
    /\ baseRv[c] = rv /\ pc[c] = "update" => base[c] = spec
    /\ pc[c] = "update" => base[c] # None /\ ~Refused(base[c], Merge(base[c], overlay[c]))
    /\ pc[c] = "create" => seen[c] = 0 /\ ~Refused(None, overlay[c])
    /\ seen[c] <= rv
    /\ seen[c] # 0 /\ seen[c] = rv => seenSpec[c] = spec
    /\ pc[c] \in {"update", "updated", "unanswered"} /\ seen[c] # 0 => base[c] = seenSpec[c]

KnownInv == \A c \in Calls : Known(c)

Inv == TypeOK /\ KnownInv

\* The merge of two specs is a spec.
LEMMA MergeType == \A s, o \in Specs : Merge(s, o) \in Specs
BY DEF Specs, Merge

\* What a request can do to the object: its version grows, or nothing that
\* Known speaks of changes.
Moved == rv' \in Nat /\ (rv' > rv \/ (rv' = rv /\ spec' = spec))

LEMMA StoreMoves ==
    ASSUME TypeOK, NEW s \in Specs, Store(s)
    PROVE  Moved /\ spec' \in Specs /\ uid' \in Nat
BY DEF TypeOK, Store, Moved

LEMMA DeleteMoves ==
    ASSUME TypeOK, DeleteObject \/ Gone
    PROVE  /\ Moved
           /\ spec' \in {spec, None} /\ uid' \in Nat
           /\ finalizer' \in {"-", "crossplane", "argocd"}
<1>1. rv \in Nat /\ uid \in Nat /\ finalizer \in {"-", "crossplane", "argocd"}
  BY DEF TypeOK
<1> QED
  BY <1>1 DEF DeleteObject, Gone, Moved

\* A call that the step does not concern keeps what it knows.
LEMMA KeepsKnown ==
    ASSUME TypeOK, NEW c \in Calls, Known(c), Moved,
           UNCHANGED <<pc[c], overlay[c], base[c], baseRv[c], seen[c], seenSpec[c]>>
    PROVE  Known(c)'
BY DEF TypeOK, Known, Moved, Refused, Merge

LEMMA InvInit == Init => Inv
<1> SUFFICES ASSUME Init PROVE Inv
  OBVIOUS
<1> USE HelmAssumption DEF Init
<1>1. FlagsOK
  BY Zenon DEF FlagsOK
<1>2. TypeOK
  BY <1>1 DEF TypeOK, Outcomes
<1>3. KnownInv
  BY DEF KnownInv, Known
<1> QED
  BY <1>2, <1>3 DEF Inv

LEMMA FlagsStep ==
    ASSUME FlagsOK, [Next]_vars
    PROVE  FlagsOK'
<1> USE DEF FlagsOK, object
<1>1. CASE UNCHANGED <<deleting, refresh>>
  BY <1>1, Zenon
<1>2. CASE Others
  BY <1>2, Zenon DEF Others, Store, DeleteObject, Gone
<1>3. ASSUME NEW c \in Calls, ApplyCreate(c) PROVE FlagsOK'
  BY <1>3, Zenon DEF ApplyCreate, Store
<1>4. ASSUME NEW c \in Calls, ApplyUpdate(c) PROVE FlagsOK'
  BY <1>4, Zenon DEF ApplyUpdate, Store
<1>5. ASSUME NEW c \in Calls, Delete(c) PROVE FlagsOK'
  BY <1>5, Zenon DEF Delete, DeleteObject, Gone
<1>6. ASSUME NEW c \in Calls, Sync(c) PROVE FlagsOK'
  BY <1>6, Zenon DEF Sync
<1>7. ASSUME NEW c \in Calls, CallerReads(c) \/ Call(c) \/ ApplyGet(c) \/ DeleteCheck(c)
      PROVE  UNCHANGED <<deleting, refresh>>
  BY <1>7, Zenon DEF CallerReads, Call, ApplyGet, DeleteCheck
<1>8. UNCHANGED vars => UNCHANGED <<deleting, refresh>>
  BY Zenon DEF vars
<1> QED
  BY <1>1, <1>2, <1>3, <1>4, <1>5, <1>6, <1>7, <1>8, Zenon DEF Next, Step, Done

LEMMA OthersCount ==
    ASSUME Others
    PROVE  edits < MaxEdits /\ edits' = edits + 1 /\ UNCHANGED <<pc, payload, local>>
BY Zenon DEF Others

LEMMA TypeStep ==
    ASSUME TypeOK, KnownInv, [Next]_vars
    PROVE  TypeOK'
<1> USE HelmAssumption DEF Outcomes, payload, local, object
<1>0. FlagsOK'
  BY FlagsStep DEF TypeOK
<1>1. CASE Others
  <2>1. edits' \in 0..MaxEdits /\ UNCHANGED <<pc, payload, local>>
    <3>1. edits' = edits + 1 /\ edits < MaxEdits
      BY <1>1, OthersCount
    <3>2. edits \in 0..MaxEdits
      BY DEF TypeOK
    <3>3. UNCHANGED <<pc, payload, local>>
      BY <1>1, OthersCount
    <3>4. edits' \in 0..MaxEdits
      BY <3>1, <3>2
    <3> QED
      BY <3>3, <3>4
  <2>2. ASSUME NEW s \in Edits, Store(s) PROVE TypeOK'
    BY <1>0, <2>1, <2>2, StoreMoves DEF TypeOK, Moved, Store
  <2>3. CASE DeleteObject \/ Gone
    BY <1>0, <2>1, <2>3, DeleteMoves DEF TypeOK, Moved
  <2>4. CASE /\ \E f \in {"crossplane", "argocd"} \ {finalizer} : finalizer' = f
             /\ rv' = rv + 1
             /\ UNCHANGED <<spec, uid, deleting, refresh>>
    <3>1. rv' \in Nat /\ UNCHANGED <<spec, uid>>
      <4>1. rv \in Nat
        BY DEF TypeOK
      <4> QED
        BY <2>4, <4>1
    <3>2. finalizer' \in {"-", "crossplane", "argocd"}
      BY <2>4
    <3> QED
      BY <1>0, <2>1, <3>1, <3>2 DEF TypeOK
  <2> QED
    BY <1>1, <2>2, <2>3, <2>4, Zenon DEF Others
<1>2. ASSUME NEW c \in Calls, CallerReads(c) PROVE TypeOK'
  BY <1>0, <1>2 DEF CallerReads, TypeOK
<1>3. ASSUME NEW c \in Calls, Call(c) PROVE TypeOK'
  BY <1>0, <1>3 DEF Call, Return, TypeOK
<1>4. ASSUME NEW c \in Calls, ApplyGet(c) PROVE TypeOK'
  BY <1>0, <1>4 DEF ApplyGet, Return, TypeOK
<1>5. ASSUME NEW c \in Calls, ApplyCreate(c) PROVE TypeOK'
  <2>1. CASE /\ Store(overlay[c])
             /\ \E outcome \in {"created", "unanswered"} : Return(c, outcome)
    <3>1. overlay[c] \in Specs
      BY DEF TypeOK
    <3>2. /\ rv' \in Nat /\ uid' \in Nat /\ spec' \in Specs \cup {None}
          /\ finalizer' \in {"-", "crossplane", "argocd"}
      BY <2>1, <3>1, StoreMoves DEF Moved, Store, TypeOK
    <3>3. UNCHANGED <<edits, payload, local>>
      BY <1>5 DEF ApplyCreate
    <3>4. CASE Return(c, "created")
      BY <1>0, <3>2, <3>3, <3>4 DEF Return, TypeOK
    <3>5. CASE Return(c, "unanswered")
      BY <1>0, <3>2, <3>3, <3>5 DEF Return, TypeOK
    <3>6. Return(c, "created") \/ Return(c, "unanswered")
      BY <2>1
    <3> QED
      BY <3>4, <3>5, <3>6
  <2>2. CASE UNCHANGED object
    <3>1. PICK outcome \in {"created", "unanswered", "dry", "error"} : Return(c, outcome)
      BY <1>5 DEF ApplyCreate
    <3>2. UNCHANGED <<edits, payload, local>>
      BY <1>5 DEF ApplyCreate
    <3> QED
      BY <1>0, <2>2, <3>1, <3>2 DEF Return, TypeOK
  <2> QED
    BY <1>0, <1>5, <2>1, <2>2 DEF ApplyCreate
<1>6. ASSUME NEW c \in Calls, ApplyUpdate(c) PROVE TypeOK'
  <2>1. CASE /\ Store(Merge(base[c], overlay[c]))
             /\ \E outcome \in {"updated", "unanswered"} : Return(c, outcome)
    <3>1. pc[c] = "update" /\ base[c] \in Specs /\ overlay[c] \in Specs
      BY <1>0, <1>6 DEF ApplyUpdate, KnownInv, Known, TypeOK
    <3>2. Merge(base[c], overlay[c]) \in Specs
      BY <3>1, MergeType
    <3>3. /\ rv' \in Nat /\ uid' \in Nat /\ spec' \in Specs \cup {None}
          /\ finalizer' \in {"-", "crossplane", "argocd"}
      BY <2>1, <3>2, StoreMoves DEF Moved, Store, TypeOK
    <3>4. UNCHANGED <<edits, payload, local>>
      BY <1>6 DEF ApplyUpdate
    <3>5. CASE Return(c, "updated")
      BY <1>0, <3>3, <3>4, <3>5 DEF Return, TypeOK
    <3>6. CASE Return(c, "unanswered")
      BY <1>0, <3>3, <3>4, <3>6 DEF Return, TypeOK
    <3>7. Return(c, "updated") \/ Return(c, "unanswered")
      BY <2>1
    <3> QED
      BY <3>5, <3>6, <3>7
  <2>2. CASE UNCHANGED object
    <3>1. PICK outcome \in {"updated", "unanswered", "dry", "conflict", "error"} : Return(c, outcome)
      BY <1>6 DEF ApplyUpdate
    <3>2. UNCHANGED <<edits, payload, local>>
      BY <1>6 DEF ApplyUpdate
    <3> QED
      BY <1>0, <2>2, <3>1, <3>2 DEF Return, TypeOK
  <2> QED
    BY <1>0, <1>6, <2>1, <2>2 DEF ApplyUpdate
<1>7. ASSUME NEW c \in Calls, Delete(c) PROVE TypeOK'
  <2>1. CASE /\ DeleteObject
             /\ target' = [target EXCEPT ![c] = uid]
             /\ Return(c, "check") \/ Return(c, "error")
    <3>1. /\ rv' \in Nat /\ uid' \in Nat /\ spec' \in Specs \cup {None}
          /\ finalizer' \in {"-", "crossplane", "argocd"}
      BY <2>1, DeleteMoves DEF TypeOK, Moved
    <3>2. UNCHANGED <<edits, payload, base, baseRv>>
      BY <1>7 DEF Delete
    <3>3. CASE Return(c, "check")
      BY <1>0, <2>1, <3>1, <3>2, <3>3 DEF Return, TypeOK
    <3>4. CASE Return(c, "error")
      BY <1>0, <2>1, <3>1, <3>2, <3>4 DEF Return, TypeOK
    <3> QED
      BY <2>1, <3>3, <3>4
  <2>2. CASE UNCHANGED <<object, target>>
    BY <1>0, <1>7, <2>2 DEF Delete, Return, TypeOK
  <2> QED
    BY <1>7, <2>1, <2>2 DEF Delete
<1>8. ASSUME NEW c \in Calls, DeleteCheck(c) PROVE TypeOK'
  BY <1>0, <1>8 DEF DeleteCheck, Return, TypeOK
<1>9. ASSUME NEW c \in Calls, Sync(c) PROVE TypeOK'
  <2>1. Return(c, "synced") \/ Return(c, "error")
    BY <1>9 DEF Sync
  <2>2. rv' \in Nat
    <3>1. rv' = rv \/ rv' = rv + 1
      BY <1>9 DEF Sync
    <3>2. rv \in Nat
      BY DEF TypeOK
    <3> QED
      BY <3>1, <3>2
  <2>3. UNCHANGED <<spec, uid, finalizer, edits, payload, local>>
    BY <1>9 DEF Sync
  <2>4. CASE Return(c, "synced")
    BY <1>0, <2>2, <2>3, <2>4 DEF Return, TypeOK
  <2>5. CASE Return(c, "error")
    BY <1>0, <2>2, <2>3, <2>5 DEF Return, TypeOK
  <2> QED
    BY <2>1, <2>4, <2>5
<1>10. CASE UNCHANGED vars
  BY <1>10 DEF vars, TypeOK, FlagsOK
<1> QED
  BY <1>1, <1>2, <1>3, <1>4, <1>5, <1>6, <1>7, <1>8, <1>9, <1>10
     DEF Next, Step, Done

\* Every step moves the object's version on, or leaves its spec alone.
LEMMA NextMoves ==
    ASSUME TypeOK, KnownInv, [Next]_vars
    PROVE  Moved
<1> USE HelmAssumption DEF object
<1>1. CASE UNCHANGED <<rv, spec>>
  BY <1>1 DEF Moved, TypeOK
<1>2. CASE Others
  BY <1>2, StoreMoves DEF Others, TypeOK, Moved, Store, DeleteObject, Gone
<1>3. ASSUME NEW c \in Calls, ApplyCreate(c) PROVE Moved
  BY <1>1, <1>3, StoreMoves DEF ApplyCreate, TypeOK
<1>4. ASSUME NEW c \in Calls, ApplyUpdate(c) PROVE Moved
  <2>1. Merge(base[c], overlay[c]) \in Specs
    BY <1>4, MergeType DEF ApplyUpdate, KnownInv, Known, TypeOK
  <2> QED
    BY <1>1, <1>4, <2>1, StoreMoves DEF ApplyUpdate
<1>5. ASSUME NEW c \in Calls, Delete(c) PROVE Moved
  BY <1>1, <1>5, DeleteMoves DEF Delete
<1>6. ASSUME NEW c \in Calls, Sync(c) PROVE Moved
  BY <1>6 DEF Sync, Moved, TypeOK
<1> QED
  BY <1>1, <1>2, <1>3, <1>4, <1>5, <1>6
     DEF Next, Step, Done, vars, CallerReads, Call, ApplyGet, DeleteCheck

\* A call changes nothing that another one knows.
LEMMA OtherCall ==
    ASSUME TypeOK, NEW c \in Calls, NEW d \in Calls, c # d, CallerReads(c) \/ Step(c)
    PROVE  UNCHANGED <<pc[d], overlay[d], base[d], baseRv[d], seen[d], seenSpec[d]>>
<1> USE DEF payload, local, Return, TypeOK
<1>1. CASE CallerReads(c)
  BY <1>1 DEF CallerReads
<1>2. CASE Call(c)
  BY <1>2 DEF Call
<1>3. CASE ApplyGet(c)
  BY <1>3 DEF ApplyGet
<1>4. CASE ApplyCreate(c)
  BY <1>4 DEF ApplyCreate
<1>5. CASE ApplyUpdate(c)
  BY <1>5 DEF ApplyUpdate
<1>6. CASE Delete(c)
  BY <1>6 DEF Delete
<1>7. CASE DeleteCheck(c)
  BY <1>7 DEF DeleteCheck
<1>8. CASE Sync(c)
  BY <1>8 DEF Sync
<1> QED
  BY <1>1, <1>2, <1>3, <1>4, <1>5, <1>6, <1>7, <1>8 DEF Step

LEMMA KnownStep ==
    ASSUME TypeOK, KnownInv, [Next]_vars
    PROVE  KnownInv'
<1> USE HelmAssumption DEF object, payload, local
<1> SUFFICES ASSUME NEW d \in Calls PROVE Known(d)'
  BY DEF KnownInv
<1>0. Known(d) /\ Moved
  BY NextMoves DEF KnownInv
<1>1. CASE UNCHANGED <<pc[d], overlay[d], base[d], baseRv[d], seen[d], seenSpec[d]>>
  BY <1>0, <1>1, KeepsKnown
<1>2. CASE CallerReads(d)
  BY <1>0, <1>2 DEF CallerReads, Known, TypeOK
<1>3. CASE Call(d)
  BY <1>0, <1>3 DEF Call, Return, Known, TypeOK
<1>4. CASE ApplyGet(d)
  BY <1>0, <1>4 DEF ApplyGet, Return, Known, TypeOK
<1>5. CASE ApplyCreate(d)
  <2>1. /\ pc'[d] \in {"created", "dry", "unanswered", "error"}
        /\ pc[d] = "create"
        /\ UNCHANGED <<overlay, base, baseRv, seen, seenSpec>>
    BY <1>5 DEF ApplyCreate, Return, TypeOK
  <2> QED
    BY <1>0, <2>1 DEF Known, TypeOK, Moved
<1>6. CASE ApplyUpdate(d)
  BY <1>0, <1>6 DEF ApplyUpdate, Return, Known, TypeOK, Moved
<1>7. CASE Delete(d) \/ DeleteCheck(d) \/ Sync(d)
  <2>1. /\ pc'[d] \notin {"create", "update", "updated", "unanswered"}
        /\ UNCHANGED <<overlay, base, baseRv, seen, seenSpec>>
    BY <1>7 DEF Delete, DeleteCheck, Sync, Return, TypeOK
  <2> QED
    BY <1>0, <2>1 DEF Known, TypeOK, Moved
<1>8. \/ UNCHANGED <<pc[d], overlay[d], base[d], baseRv[d], seen[d], seenSpec[d]>>
      \/ CallerReads(d) \/ Step(d)
  <2>1. ASSUME NEW c \in Calls, c # d, CallerReads(c) \/ Step(c)
        PROVE  UNCHANGED <<pc[d], overlay[d], base[d], baseRv[d], seen[d], seenSpec[d]>>
    BY <2>1, OtherCall
  <2>2. CASE Others
    BY <2>2, Zenon DEF Others
  <2>3. CASE UNCHANGED vars
    BY <2>3, Zenon DEF vars
  <2> QED
    BY <2>1, <2>2, <2>3, Zenon DEF Next, Done
<1> QED
  BY <1>1, <1>2, <1>3, <1>4, <1>5, <1>6, <1>7, <1>8 DEF Step

LEMMA Invariance == Spec => []Inv
<1>1. Inv /\ [Next]_vars => Inv'
  BY TypeStep, KnownStep DEF Inv
<1> QED
  BY <1>1, InvInit, PTL DEF Spec

\* The variables keep their types.
THEOREM TypeCorrect == Spec => []TypeOK
BY Invariance, PTL DEF Inv

\* An update that carried a resourceVersion is merged into the very spec its
\* caller saw, or refused (the two conflict checks of Execute).
THEOREM SeenMerged == Spec => []SeenIsMerged
<1>1. Inv => SeenIsMerged
  BY DEF Inv, KnownInv, Known, SeenIsMerged
<1> QED
  BY <1>1, Invariance, PTL

\* A call never writes a spec that the validators refuse after the one it
\* replaces (validateHelmApplicationSpec, and the version of the Update).
THEOREM NothingCorrupted == Spec => NeverCorrupts
<1> DEFINE Clean == edits' = edits /\ spec' # spec /\ spec' # None
                      => Usable(spec') /\ ~ListLost(spec, spec')
<1>1. Inv /\ [Next]_vars => Clean
  <2> SUFFICES ASSUME Inv, [Next]_vars PROVE Clean
    OBVIOUS
  <2> USE DEF object
  <2>0. TypeOK /\ KnownInv
    BY DEF Inv
  <2>1. CASE Others
    <3>1. edits' # edits
      BY <2>0, <2>1, OthersCount DEF TypeOK
    <3> QED
      BY <3>1
  <2>2. ASSUME NEW c \in Calls, ApplyCreate(c) PROVE Clean
    <3>1. spec' = spec \/ (spec = None /\ spec' = overlay[c] /\ pc[c] = "create")
      BY <2>2 DEF ApplyCreate, Store
    <3> QED
      BY <2>0, <3>1 DEF KnownInv, Known, Refused, Usable, ListLost
  <2>3. ASSUME NEW c \in Calls, ApplyUpdate(c) PROVE Clean
    <3>1. \/ spec' = spec
          \/ /\ spec' = Merge(base[c], overlay[c]) /\ rv = baseRv[c] /\ pc[c] = "update"
      BY <2>3 DEF ApplyUpdate, Store
    <3> QED
      BY <2>0, <3>1 DEF KnownInv, Known, Refused, Usable, ListLost
  <2>4. ASSUME NEW c \in Calls, Delete(c) PROVE Clean
    BY <2>4 DEF Delete, DeleteObject, Gone
  <2>5. ASSUME NEW c \in Calls, CallerReads(c) \/ Call(c) \/ ApplyGet(c) \/ DeleteCheck(c)
        PROVE  spec' = spec
    BY <2>5 DEF CallerReads, Call, ApplyGet, DeleteCheck
  <2>6. ASSUME NEW c \in Calls, Sync(c) PROVE spec' = spec
    BY <2>6 DEF Sync
  <2>7. CASE UNCHANGED vars
    BY <2>7 DEF vars
  <2> HIDE DEF Clean
  <2>8. spec' = spec => Clean
    BY DEF Clean
  <2> QED
    BY <2>1, <2>2, <2>3, <2>4, <2>5, <2>6, <2>7, <2>8, Zenon DEF Next, Step, Done
<1> QED
  BY <1>1, Invariance, PTL DEF Spec, NeverCorrupts

-----------------------------------------------------------------------------
\* Who has deleted an incarnation will find it terminating for as long as it is
\* there, and will not find a younger one under its number.
Doomed(c) ==
    pc[c] \in {"check", "deleted", "terminating", "stuck"} =>
        /\ target[c] <= uid
        /\ spec # None /\ uid = target[c] => deleting /\ pc[c] # "deleted"

\* Incarnations are numbered upwards, and one that terminates does so until it
\* is gone.
Ages ==
    /\ uid' \in Nat /\ uid' >= uid
    /\ spec = None /\ spec' # None => uid' > uid
    /\ spec # None /\ spec' # None => uid' = uid /\ (deleting => deleting')

LEMMA StoreAges ==
    ASSUME uid \in Nat, NEW s \in Specs, Store(s)
    PROVE  Ages
<1>1. deleting' = deleting /\ spec' = s /\ uid' = IF spec = None THEN uid + 1 ELSE uid
  BY DEF Store
<1> QED
  BY <1>1 DEF Ages

LEMMA DeleteAges ==
    ASSUME uid \in Nat, DeleteObject \/ Gone
    PROVE  Ages
<1>1. CASE Gone
  BY <1>1 DEF Gone, Ages
<1>2. CASE deleting' = TRUE /\ UNCHANGED <<spec, uid>>
  BY <1>2 DEF Ages
<1> QED
  BY <1>1, <1>2 DEF DeleteObject

LEMMA ObjectAges == ASSUME TypeOK, [Next]_vars PROVE Ages
<1>1. uid \in Nat
  BY DEF TypeOK
<1>2. CASE UNCHANGED <<spec, uid, deleting>>
  BY <1>1, <1>2 DEF Ages
<1>3. CASE Others
  BY <1>1, <1>2, <1>3, StoreAges, DeleteAges, HelmAssumption, Zenon DEF Others
<1>4. ASSUME NEW c \in Calls, ApplyCreate(c) PROVE Ages
  <2>1. overlay[c] \in Specs
    BY DEF TypeOK
  <2> QED
    BY <1>1, <1>2, <1>4, <2>1, StoreAges DEF ApplyCreate, object
<1>5. ASSUME NEW c \in Calls, ApplyUpdate(c) PROVE Ages
  <2>1. CASE UNCHANGED object
    BY <1>2, <2>1 DEF object
  <2>2. CASE spec # None /\ Store(Merge(base[c], overlay[c]))
    <3>1. deleting' = deleting /\ uid' = uid
      BY <2>2 DEF Store
    <3> QED
      BY <1>1, <2>2, <3>1 DEF Ages
  <2> QED
    BY <1>5, <2>1, <2>2 DEF ApplyUpdate
<1>6. ASSUME NEW c \in Calls, Delete(c) PROVE Ages
  BY <1>1, <1>2, <1>6, DeleteAges DEF Delete, object
<1>7. ASSUME NEW c \in Calls,
             CallerReads(c) \/ Call(c) \/ ApplyGet(c) \/ DeleteCheck(c) \/ Sync(c)
      PROVE  Ages
  BY <1>2, <1>7, Zenon DEF CallerReads, Call, ApplyGet, DeleteCheck, Sync, object
<1>8. CASE UNCHANGED vars
  BY <1>2, <1>8 DEF vars, object
<1> QED
  BY <1>3, <1>4, <1>5, <1>6, <1>7, <1>8, Zenon DEF Next, Step, Done

\* Only delete's own steps lead a call to where Doomed speaks of it.
LEMMA DoomedStep ==
    ASSUME TypeOK, [Next]_vars, NEW c \in Calls, Doomed(c)
    PROVE  Doomed(c)'
<1> USE DEF Return
<1>0. Ages /\ uid \in Nat /\ target[c] \in Nat
  BY ObjectAges DEF TypeOK
<1>1. CASE pc'[c] = pc[c] /\ target'[c] = target[c]
  BY <1>0, <1>1 DEF Doomed, Ages
<1>2. CASE pc'[c] \notin {"check", "deleted", "terminating", "stuck"}
  BY <1>2 DEF Doomed
<1>3. CASE Delete(c)
  <2>1. CASE spec # None /\ DeleteObject /\ target' = [target EXCEPT ![c] = uid]
    <3>1. target'[c] = uid /\ uid' = uid
      BY <2>1 DEF TypeOK, DeleteObject, Gone
    <3>2. spec' = None \/ deleting'
      BY <2>1 DEF DeleteObject, Gone
    <3>3. pc'[c] \in {"check", "error"}
      <4>1. pc[c] = "delete" /\ (Return(c, "already deleted") => spec = None)
        BY <1>3, <2>1 DEF Delete, TypeOK
      <4> QED
        BY <1>3, <2>1 DEF Delete, TypeOK
    <3> QED
      BY <1>0, <3>1, <3>2, <3>3 DEF Doomed
  <2>2. CASE Return(c, "already deleted") \/ Return(c, "error")
    BY <1>2, <2>2 DEF TypeOK
  <2> QED
    BY <1>3, <2>1, <2>2 DEF Delete
<1>4. CASE DeleteCheck(c)
  <2>1. UNCHANGED <<spec, uid, deleting, target>> /\ pc[c] = "check"
    BY <1>4 DEF DeleteCheck, object, local
  <2>2. pc'[c] = "deleted" => spec = None
    BY <1>4 DEF DeleteCheck, TypeOK
  <2> QED
    BY <2>1, <2>2 DEF Doomed
<1>5. CASE Call(c) \/ ApplyGet(c) \/ ApplyCreate(c) \/ ApplyUpdate(c) \/ Sync(c)
  <2>1. \E p \in {"get", "delete", "patch", "missing", "invalid", "create", "exists",
                  "conflict", "update", "error", "created", "unanswered", "dry",
                  "updated", "synced"} : Return(c, p)
    <3>1. CASE Call(c)
      <4>1. kind[c] \in {"apply", "delete", "sync"}
        BY DEF TypeOK
      <4> QED
        BY <3>1, <4>1 DEF Call
    <3>2. CASE ApplyGet(c)
      BY <3>2, Zenon DEF ApplyGet
    <3>3. CASE ApplyCreate(c) \/ ApplyUpdate(c) \/ Sync(c)
      BY <3>3, Zenon DEF ApplyCreate, ApplyUpdate, Sync
    <3> QED
      BY <1>5, <3>1, <3>2, <3>3
  <2> QED
    BY <1>2, <2>1 DEF TypeOK
<1>6. ASSUME NEW d \in Calls \ {c}, Step(d) PROVE pc'[c] = pc[c] /\ target'[c] = target[c]
  BY <1>6 DEF Step, Call, ApplyGet, ApplyCreate, ApplyUpdate, Delete, DeleteCheck, Sync,
     local, TypeOK
<1>7. ASSUME Others \/ UNCHANGED vars \/ \E d \in Calls : CallerReads(d)
      PROVE  UNCHANGED <<pc, target>>
  BY <1>7, Zenon DEF Others, vars, CallerReads, local
<1> QED
  BY <1>1, <1>3, <1>4, <1>5, <1>6, <1>7 DEF Next, Step, Done

\* What delete reports of the incarnation it deleted is true, and stays so,
\* whoever deletes, changes or makes the object anew.
THEOREM DeletesTellTruth == Spec => []DeleteTellsTruth
<1> DEFINE DoomedInv == \A c \in Calls : Doomed(c)
<1>1. Init => DoomedInv
  BY DEF Init, Doomed
<1>2. TypeOK /\ DoomedInv /\ [Next]_vars => DoomedInv'
  BY DoomedStep
<1>3. DoomedInv => DeleteTellsTruth
  BY DEF Doomed, DeleteTellsTruth
<1> HIDE DEF DoomedInv
<1> QED
  BY <1>1, <1>2, <1>3, TypeCorrect, PTL DEF Spec

-----------------------------------------------------------------------------
\* A call does what its task does: only an apply creates or updates, one with
\* createOnly never updates, and a delete deletes once.
Role(c) ==
    /\ pc[c] \in {"get", "create", "update"} => kind[c] = "apply"
    /\ pc[c] = "update" => ~createOnly[c]
    /\ pc[c] = "delete" => kind[c] = "delete"
    /\ pc[c] \in {"idle", "delete"} => target[c] = 0

RoleInv == uid > 0 /\ \A c \in Calls : Role(c)

Removed == {c \in Calls : target[c] # 0}
Merged == {c \in Calls : pc[c] \in {"created", "updated", "unanswered"}}

\* Where the next step of a call leads it.
LEMMA RoleOfStep ==
    ASSUME TypeOK, NEW c \in Calls, Role(c), CallerReads(c) \/ Step(c)
    PROVE  Role(c)'
<1> USE DEF Role, Return, payload, local
<1>1. CASE CallerReads(c)
  BY <1>1 DEF CallerReads
<1>2. CASE Call(c)
  <2>1. /\ kind[c] \in {"apply", "delete", "sync"} /\ pc[c] = "idle"
        /\ UNCHANGED <<kind, createOnly, target>>
    BY <1>2 DEF Call, TypeOK
  <2>2. CASE kind[c] = "apply"
    BY <1>2, <2>1, <2>2 DEF Call, TypeOK
  <2>3. CASE kind[c] = "delete"
    BY <1>2, <2>1, <2>3 DEF Call, TypeOK
  <2>4. CASE kind[c] = "sync"
    BY <1>2, <2>1, <2>4 DEF Call, TypeOK
  <2> QED
    BY <2>1, <2>2, <2>3, <2>4
<1>3. CASE ApplyGet(c)
  <2>1. /\ kind[c] = "apply" /\ pc[c] = "get"
        /\ pc'[c] \notin {"get", "idle", "delete"}
        /\ pc'[c] = "update" => ~createOnly[c]
        /\ UNCHANGED <<kind, createOnly, target>>
    BY <1>3 DEF ApplyGet, TypeOK
  <2> QED
    BY <2>1
<1>4. CASE ApplyCreate(c) \/ ApplyUpdate(c) \/ Delete(c) \/ DeleteCheck(c) \/ Sync(c)
  <2>1. PICK outcome \in Outcomes \cup {"check"} : Return(c, outcome)
    BY <1>4, Zenon DEF ApplyCreate, ApplyUpdate, Delete, DeleteCheck, Sync, Outcomes
  <2>2. pc'[c] \in Outcomes \cup {"check"}
    BY <2>1 DEF TypeOK
  <2> QED
    BY <2>2 DEF Outcomes
<1> QED
  BY <1>1, <1>2, <1>3, <1>4 DEF Step

\* A step of one call leaves the place and the target of another alone.
LEMMA OtherRole ==
    ASSUME TypeOK, NEW c \in Calls, NEW d \in Calls, c # d, CallerReads(c) \/ Step(c)
    PROVE  UNCHANGED <<pc[d], kind[d], createOnly[d], target[d]>>
<1> USE DEF payload, local, Return, TypeOK
<1>1. CASE CallerReads(c)
  BY <1>1 DEF CallerReads
<1>2. CASE Call(c) \/ ApplyGet(c)
  BY <1>2 DEF Call, ApplyGet
<1>3. CASE ApplyCreate(c) \/ ApplyUpdate(c)
  BY <1>3 DEF ApplyCreate, ApplyUpdate
<1>4. CASE Delete(c) \/ DeleteCheck(c) \/ Sync(c)
  BY <1>4 DEF Delete, DeleteCheck, Sync
<1> QED
  BY <1>1, <1>2, <1>3, <1>4 DEF Step

LEMMA RoleStep ==
    ASSUME TypeOK, RoleInv, [Next]_vars
    PROVE  RoleInv'
<1>1. uid' > 0
  BY ObjectAges DEF RoleInv, Ages, TypeOK
<1>2. ASSUME NEW d \in Calls PROVE Role(d)'
  <2>1. Role(d)
    BY DEF RoleInv
  <2>2. CASE UNCHANGED <<pc[d], kind[d], createOnly[d], target[d]>>
    BY <2>1, <2>2 DEF Role
  <2>3. CASE CallerReads(d) \/ Step(d)
    BY <2>1, <2>3, RoleOfStep
  <2>4. Others \/ UNCHANGED vars => UNCHANGED <<pc[d], kind[d], createOnly[d], target[d]>>
    BY Zenon DEF Others, vars, payload, local
  <2>5. ASSUME NEW c \in Calls, c # d, CallerReads(c) \/ Step(c)
        PROVE  UNCHANGED <<pc[d], kind[d], createOnly[d], target[d]>>
    BY <2>5, OtherRole
  <2> QED
    BY <2>2, <2>3, <2>4, <2>5, Zenon DEF Next, Done
<1> QED
  BY <1>1, <1>2 DEF RoleInv

\* What a call asks for never changes.
LEMMA AskedStays ==
    ASSUME [Next]_vars
    PROVE  UNCHANGED <<kind, overlay, createOnly, dryRun>>
BY Zenon DEF Next, Step, Done, vars, payload, Others, CallerReads, Call, ApplyGet,
   ApplyCreate, ApplyUpdate, Delete, DeleteCheck, Sync

\* A call that ends in a merge is added to the merged ones, any other step of a
\* call that is not one of them leaves them as they are.
LEMMA MergedGrows ==
    ASSUME TypeOK, NEW c \in Calls, NEW outcome, Return(c, outcome), c \notin Merged
    PROVE  Merged' = IF outcome \in {"created", "updated", "unanswered"}
                     THEN Merged \cup {c} ELSE Merged
BY DEF Return, TypeOK, Merged

\* The write of an apply is the merge that HelmStore promises.
LEMMA CreateMerges ==
    ASSUME TypeOK, KnownInv, RoleInv, [Next]_vars,
           NEW c \in Calls, ApplyCreate(c), spec = None, ~dryRun[c], Store(overlay[c]),
           NEW outcome \in {"created", "unanswered"}, Return(c, outcome)
    PROVE  Abstract!Apply(c)
<1>1. pc[c] = "create" /\ UNCHANGED <<edits, target>>
  BY DEF ApplyCreate, local
<1>2. c \notin Merged
  BY <1>1 DEF Merged
<1>3. Merged' = Merged \cup {c}
  BY <1>2, MergedGrows
<1>4. Abstract!Create(c)
  BY <1>1 DEF Abstract!Create, KnownInv, Known, Store
<1>5. kind[c] = "apply"
  BY <1>1 DEF RoleInv, Role
<1> QED
  BY <1>1, <1>2, <1>3, <1>4, <1>5, AskedStays DEF Abstract!Apply, Abstract!asked, Merged

LEMMA UpdateMerges ==
    ASSUME TypeOK, KnownInv, RoleInv, [Next]_vars,
           NEW c \in Calls, ApplyUpdate(c), spec # None, rv = baseRv[c], ~dryRun[c],
           Store(Merge(base[c], overlay[c])),
           NEW outcome \in {"updated", "unanswered"}, Return(c, outcome)
    PROVE  Abstract!Apply(c)
<1>1. pc[c] = "update" /\ UNCHANGED <<edits, target>>
  BY DEF ApplyUpdate, local
<1>2. c \notin Merged
  BY <1>1 DEF Merged
<1>3. Merged' = Merged \cup {c}
  BY <1>2, MergedGrows
<1>4. kind[c] = "apply" /\ ~createOnly[c]
  BY <1>1 DEF RoleInv, Role
<1>5. base[c] = spec /\ ~Refused(base[c], Merge(base[c], overlay[c]))
  BY <1>1 DEF KnownInv, Known
<1>6. Abstract!Update(c)
  BY <1>4, <1>5 DEF Abstract!Update, Store
<1> QED
  BY <1>1, <1>2, <1>3, <1>4, <1>6, AskedStays DEF Abstract!Apply, Abstract!asked, Merged

\* The request of a delete is the removal that HelmStore promises.
LEMMA DeleteRemoves ==
    ASSUME TypeOK, RoleInv, [Next]_vars,
           NEW c \in Calls, Delete(c), spec # None, DeleteObject,
           target' = [target EXCEPT ![c] = uid],
           NEW outcome \in {"check", "error"}, Return(c, outcome)
    PROVE  Abstract!Remove(c)
<1>1. pc[c] = "delete" /\ UNCHANGED edits
  BY DEF Delete
<1>2. kind[c] = "delete" /\ target[c] = 0 /\ uid # 0
  BY <1>1 DEF RoleInv, Role, TypeOK
<1>3. Removed' = Removed \cup {c}
  BY <1>2 DEF Removed, TypeOK
<1>4. Merged' = Merged
  <2>1. c \notin Merged
    BY <1>1 DEF Merged
  <2> QED
    BY <2>1, MergedGrows
<1>5. spec' \in {spec, None}
  BY DEF DeleteObject, Gone
<1> QED
  BY <1>1, <1>2, <1>3, <1>4, <1>5, AskedStays
     DEF Abstract!Remove, Abstract!asked, Merged, Removed

\* A step of a call that neither merges nor removes leaves the spec alone.
Quiet == UNCHANGED <<spec, edits, Merged, Removed>>

LEMMA QuietReturn ==
    ASSUME TypeOK, NEW c \in Calls, NEW outcome, Return(c, outcome),
           pc[c] \notin {"created", "updated", "unanswered"},
           outcome \notin {"created", "updated", "unanswered"},
           UNCHANGED <<spec, edits, target>>
    PROVE  Quiet
<1>1. c \notin Merged
  BY DEF Merged
<1>2. Merged' = Merged
  BY <1>1, MergedGrows
<1> QED
  BY <1>2 DEF Quiet, Removed

\* The tasks implement the atomic HelmStore: whoever else changes the object,
\* an acknowledged apply was merged once into what was stored at that moment
\* (the resourceVersion of Execute's Update), a delete removes once, and a call
\* that is refused, conflicts, syncs or runs dry changes nothing.
THEOREM Atomic == Spec => AppliesAtomically
<1>1. Init => Abstract!Init /\ RoleInv
  <2> SUFFICES ASSUME Init PROVE Abstract!Init /\ RoleInv
    OBVIOUS
  <2> USE DEF Init
  <2>1. overlay \in [Calls -> Specs]
    BY HelmAssumption
  <2>2. spec \in Specs \cup {None}
    BY HelmAssumption
  <2>3. {c \in Calls : pc[c] \in {"created", "updated", "unanswered"}} = {}
    OBVIOUS
  <2>4. {c \in Calls : target[c] # 0} = {}
    OBVIOUS
  <2>5. RoleInv
    BY DEF RoleInv, Role
  <2> QED
    BY <2>1, <2>2, <2>3, <2>4, <2>5, Zenon DEF Abstract!Init
<1>2. TypeOK /\ KnownInv /\ RoleInv /\ spec' \in Specs \cup {None} /\ [Next]_vars
        => [Abstract!Next]_<<spec, edits, kind, overlay, createOnly, dryRun, Merged, Removed>>
  <2> SUFFICES ASSUME TypeOK, KnownInv, RoleInv, spec' \in Specs \cup {None}, [Next]_vars
               PROVE  Abstract!Next
                      \/ UNCHANGED <<spec, edits, kind, overlay, createOnly, dryRun,
                                     Merged, Removed>>
    OBVIOUS
  <2>1. Quiet => UNCHANGED <<spec, edits, kind, overlay, createOnly, dryRun, Merged, Removed>>
    BY AskedStays DEF Quiet
  <2>2. CASE Others
    <3>1. UNCHANGED <<Merged, Removed>>
      BY <2>2, OthersCount DEF Merged, Removed, local
    <3> QED
      BY <2>2, <3>1, OthersCount, AskedStays
         DEF Abstract!Next, Abstract!Others, Abstract!asked, Merged, Removed
  <2>3. UNCHANGED vars => Quiet
    BY DEF vars, object, local, Quiet, Merged, Removed
  <2>4. ASSUME NEW c \in Calls, CallerReads(c) PROVE Quiet
    BY <2>4 DEF CallerReads, object, local, Quiet, Merged, Removed
  <2>5. ASSUME NEW c \in Calls, Call(c) \/ ApplyGet(c) \/ DeleteCheck(c) \/ Sync(c)
        PROVE  Quiet
    <3>1. UNCHANGED <<spec, edits, target>>
      BY <2>5, Zenon DEF Call, ApplyGet, DeleteCheck, Sync, object, local
    <3>2. PICK outcome \in {"get", "delete", "patch", "missing", "invalid", "create", "exists",
                            "conflict", "update", "error", "deleted", "stuck",
                            "terminating", "synced"} : Return(c, outcome)
      <4>1. CASE Call(c)
        <5>1. kind[c] \in {"apply", "delete", "sync"}
          BY DEF TypeOK
        <5> QED
          BY <4>1, <5>1 DEF Call
      <4>2. CASE ApplyGet(c)
        BY <4>2, Zenon DEF ApplyGet
      <4>3. CASE DeleteCheck(c) \/ Sync(c)
        BY <4>3, Zenon DEF DeleteCheck, Sync
      <4> QED
        BY <2>5, <4>1, <4>2, <4>3
    <3>3. pc[c] \notin {"created", "updated", "unanswered"}
      BY <2>5 DEF Call, ApplyGet, DeleteCheck, Sync
    <3> QED
      BY <3>1, <3>2, <3>3, QuietReturn
  <2>6. ASSUME NEW c \in Calls, ApplyCreate(c) PROVE Quiet \/ Abstract!Apply(c)
    <3>1. CASE UNCHANGED object /\ (Return(c, "dry") \/ Return(c, "error"))
      BY <2>6, <3>1, QuietReturn DEF ApplyCreate, object, local
    <3>2. CASE /\ spec = None /\ ~dryRun[c] /\ Store(overlay[c])
               /\ \E outcome \in {"created", "unanswered"} : Return(c, outcome)
      BY <2>6, <3>2, CreateMerges
    <3> QED
      BY <2>6, <3>1, <3>2 DEF ApplyCreate
  <2>7. ASSUME NEW c \in Calls, ApplyUpdate(c) PROVE Quiet \/ Abstract!Apply(c)
    <3>1. CASE /\ UNCHANGED object
               /\ Return(c, "dry") \/ Return(c, "error") \/ Return(c, "conflict")
      BY <2>7, <3>1, QuietReturn DEF ApplyUpdate, object, local
    <3>2. CASE /\ spec # None /\ rv = baseRv[c] /\ ~dryRun[c]
               /\ Store(Merge(base[c], overlay[c]))
               /\ \E outcome \in {"updated", "unanswered"} : Return(c, outcome)
      BY <2>7, <3>2, UpdateMerges
    <3> QED
      BY <2>7, <3>1, <3>2 DEF ApplyUpdate
  <2>8. ASSUME NEW c \in Calls, Delete(c) PROVE Quiet \/ Abstract!Remove(c)
    <3>1. CASE /\ UNCHANGED <<object, target>>
               /\ Return(c, "already deleted") \/ Return(c, "error")
      BY <2>8, <3>1, QuietReturn DEF Delete, object
    <3>2. CASE /\ spec # None /\ DeleteObject
               /\ target' = [target EXCEPT ![c] = uid]
               /\ Return(c, "check") \/ Return(c, "error")
      BY <2>8, <3>2, DeleteRemoves
    <3> QED
      BY <2>8, <3>1, <3>2 DEF Delete
  <2> QED
    BY <2>1, <2>2, <2>3, <2>4, <2>5, <2>6, <2>7, <2>8, Zenon
       DEF Next, Step, Done, Abstract!Next
<1>3. TypeOK' => spec' \in Specs \cup {None}
  BY DEF TypeOK
<1>4. RoleInv /\ TypeOK /\ [Next]_vars => RoleInv'
  BY RoleStep
<1>5. Spec => []RoleInv
  BY <1>1, <1>4, TypeCorrect, PTL DEF Spec
<1>6. Inv /\ RoleInv /\ Inv' /\ [Next]_vars
        => [Abstract!Next]_<<spec, edits, Abstract!asked,
                             {c \in Calls : pc[c] \in {"created", "updated", "unanswered"}},
                             {c \in Calls : target[c] # 0}>>
  BY <1>2, <1>3 DEF Inv, Abstract!asked, Merged, Removed
<1>7. Spec => Abstract!Spec
  BY <1>1, <1>5, <1>6, Invariance, PTL DEF Spec, Abstract!Spec
<1> QED
  BY <1>7 DEF AppliesAtomically
=============================================================================
