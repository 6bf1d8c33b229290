---------------------------- MODULE HelmApplication ----------------------------
(***************************************************************************)
(* helm_application_apply, _delete and _sync on one HelmApplication, with  *)
(* the Kubernetes API server between them, concurrently with each other    *)
(* and with users and controllers that change the same object.  One action *)
(* is one API request, with the checks the task makes on its answer.       *)
(*                                                                         *)
(* A spec is abstracted to what validateHelmApplicationSpec tells apart:   *)
(* whether spec.source has a repoURL, a chart or path, and whether a Helm  *)
(* value is absent, a list, something else, or an {"item": [...]} map; what*)
(* deepMergeMap makes of two specs is one abstract step on those.          *)
(***************************************************************************)
EXTENDS Integers, FiniteSets

CONSTANTS
    Calls,      \* calls of the three tasks
    Overlays,   \* bound: the specs that callers send
    Edits,      \* bound: the specs that others write
    MaxEdits,   \* bound: changes that others make
    None        \* no object

Specs == [repoURL: {"-", "set"}, chart: {"-", "set"},
          values: {"-", "list", "scalar", "item"}]

ASSUME HelmAssumption ==
    /\ Overlays \subseteq Specs
    /\ Edits \subseteq Specs
    /\ MaxEdits \in Nat
    /\ None \notin Specs

VARIABLES
    spec,       \* the stored object's spec, or None
    rv,         \* its resourceVersion; grows with every change
    uid,        \* its incarnation
    deleting,   \* its deletionTimestamp is set
    finalizer,  \* its finalizer: Crossplane's, the forbidden ArgoCD one, or "-"
    refresh,    \* its argocd.argoproj.io/refresh annotation is set
    edits,      \* changes made by others so far
    pc,         \* where a call is, or its outcome
    kind,       \* which task it calls
    overlay,    \* apply's payload: the spec,
    createOnly, \*   createOnly,
    dryRun,     \*   dryRun,
    seen,       \*   and resourceVersion (0: none) ...
    seenSpec,   \*   ... with the spec the caller saw under it
    base,       \* the spec of the object that apply got,
    baseRv,     \*   and its resourceVersion
    target      \* the incarnation that delete deleted

object == <<spec, rv, uid, deleting, finalizer, refresh>>
payload == <<kind, overlay, createOnly, dryRun, seen, seenSpec>>
local == <<base, baseRv, target>>
vars == <<object, edits, pc, payload, local>>

Outcomes == {"created", "updated", "dry", "conflict", "invalid", "exists", "missing",
             "already deleted", "deleted", "terminating", "stuck",
             "synced", "error",
             "unanswered"} \* an error too: apply's write was done, its answer lost

FlagsOK == deleting \in BOOLEAN /\ refresh \in BOOLEAN

TypeOK ==
    /\ FlagsOK
    /\ spec \in Specs \cup {None}
    /\ rv \in Nat /\ uid \in Nat
    /\ finalizer \in {"-", "crossplane", "argocd"}
    /\ edits \in 0..MaxEdits
    /\ pc \in [Calls -> {"idle", "get", "create", "update", "delete", "check", "patch"}
                          \cup Outcomes]
    /\ kind \in [Calls -> {"apply", "delete", "sync"}]
    /\ overlay \in [Calls -> Specs]
    /\ createOnly \in [Calls -> BOOLEAN] /\ dryRun \in [Calls -> BOOLEAN]
    /\ seen \in [Calls -> Nat]
    /\ seenSpec \in [Calls -> Specs \cup {None}]
    /\ base \in [Calls -> Specs \cup {None}]
    /\ baseRv \in [Calls -> Nat]
    /\ target \in [Calls -> Nat]

-----------------------------------------------------------------------------
\* deepMergeMap: keys the overlay does not name keep the base's value.
Merge(s, o) == [k \in DOMAIN s |-> IF o[k] = "-" THEN s[k] ELSE o[k]]

\* Mutant of Refused: the list check looks at the merged spec alone.
RefusedAlone(old, new) ==
    /\ new.repoURL = "set"
    /\ new.chart = "-" \/ new.values = "item"

\* validateHelmApplicationSpec(old, new) returns an error.
Refused(old, new) ==
    /\ new.repoURL = "set"
    /\ \/ new.chart = "-"
       \/ new.values = "item"
       \/ old # None /\ old.values = "list" /\ new.values = "scalar"

Init ==
    /\ spec \in Edits \cup {None}
    /\ rv = 1 /\ uid = 1
    /\ deleting = FALSE /\ refresh = FALSE
    /\ finalizer \in (IF spec = None THEN {"-"} ELSE {"-", "crossplane"})
    /\ edits = 0
    /\ pc = [c \in Calls |-> "idle"]
    /\ kind \in [Calls -> {"apply", "delete", "sync"}]
    /\ overlay \in [Calls -> Overlays]
    /\ createOnly \in [Calls -> BOOLEAN] /\ dryRun \in [Calls -> BOOLEAN]
    /\ \A c \in Calls :
         /\ createOnly[c] \/ dryRun[c] => kind[c] = "apply"
         /\ kind[c] # "apply" => overlay[c] = CHOOSE o \in Overlays : TRUE
    /\ seen = [c \in Calls |-> 0]
    /\ seenSpec = [c \in Calls |-> None]
    /\ base = [c \in Calls |-> None]
    /\ baseRv = [c \in Calls |-> 0]
    /\ target = [c \in Calls |-> 0]

-----------------------------------------------------------------------------
\* The API server stores s: a new incarnation if there was no object; the
\* resourceVersion grows if anything changed.
Store(s) ==
    /\ spec' = s
    /\ rv' = IF s = spec THEN rv ELSE rv + 1
    /\ uid' = IF spec = None THEN uid + 1 ELSE uid
    /\ UNCHANGED <<deleting, finalizer, refresh>>

Gone ==
    /\ spec' = None
    /\ rv' = rv + 1
    /\ deleting' = FALSE /\ finalizer' = "-" /\ refresh' = FALSE
    /\ UNCHANGED uid

\* A DELETE request: the object goes away, or terminates behind a finalizer.
DeleteObject ==
    \/ finalizer = "-" /\ Gone
    \/ /\ finalizer # "-"
       /\ deleting' = TRUE
       /\ rv' = IF deleting THEN rv ELSE rv + 1
       /\ UNCHANGED <<spec, uid, finalizer, refresh>>

Return(c, outcome) == pc' = [pc EXCEPT ![c] = outcome]

-----------------------------------------------------------------------------
\* Somebody else: writes a spec, sets or clears a finalizer, deletes.
Others ==
    /\ edits < MaxEdits
    /\ edits' = edits + 1
    /\ \/ \E s \in Edits : Store(s)
       \/ /\ spec # None /\ DeleteObject
       \/ /\ spec # None /\ ~deleting
          /\ \E f \in {"crossplane", "argocd"} \ {finalizer} : finalizer' = f
          /\ rv' = rv + 1
          /\ UNCHANGED <<spec, uid, deleting, refresh>>
       \/ /\ deleting /\ finalizer # "argocd" /\ Gone
    /\ UNCHANGED <<pc, payload, local>>

\* The caller of an apply reads the object first and will send its version.
CallerReads(c) ==
    /\ pc[c] = "idle" /\ kind[c] = "apply" /\ spec # None /\ seen[c] = 0
    /\ seen' = [seen EXCEPT ![c] = rv]
    /\ seenSpec' = [seenSpec EXCEPT ![c] = spec]
    /\ UNCHANGED <<object, edits, pc, kind, overlay, createOnly, dryRun, local>>

\* Execute's checks of the payload.  The object is one whose name is not in
\* protectedApplicationNames: delete refuses those before any request.
Call(c) ==
    /\ pc[c] = "idle"
    /\ Return(c, CASE kind[c] = "apply" -> "get"
                   [] kind[c] = "delete" -> "delete"
                   [] kind[c] = "sync" -> "patch")
    /\ UNCHANGED <<object, edits, payload, local>>

\* Mutant of ApplyGet: the caller's resourceVersion is not compared.
ApplyGetUnseen(c) ==
    /\ pc[c] = "get"
    /\ \/ /\ spec = None
          /\ Return(c, IF Refused(None, overlay[c]) THEN "invalid" ELSE "create")
       \/ /\ spec # None
          /\ Return(c, IF createOnly[c] THEN "exists"
                       ELSE IF Refused(spec, Merge(spec, overlay[c])) THEN "invalid"
                       ELSE "update")
       \/ Return(c, "error")
    /\ base' = [base EXCEPT ![c] = spec]
    /\ baseRv' = [baseRv EXCEPT ![c] = rv]
    /\ UNCHANGED <<object, edits, payload, target>>

\* apply's Get, and what it decides on the answer before it writes.
ApplyGet(c) ==
    /\ pc[c] = "get"
    /\ \/ /\ spec = None
          /\ Return(c, IF seen[c] # 0 THEN "missing"
                       ELSE IF Refused(None, overlay[c]) THEN "invalid" ELSE "create")
       \/ /\ spec # None
          /\ Return(c, IF createOnly[c] THEN "exists"
                       ELSE IF seen[c] # 0 /\ rv # seen[c] THEN "conflict"
                       ELSE IF Refused(spec, Merge(spec, overlay[c])) THEN "invalid"
                       ELSE "update")
       \/ Return(c, "error") \* the Get failed otherwise
    /\ base' = [base EXCEPT ![c] = spec]
    /\ baseRv' = [baseRv EXCEPT ![c] = rv]
    /\ UNCHANGED <<object, edits, payload, target>>

\* apply's Create: fails if the object exists by now, or for other reasons.
ApplyCreate(c) ==
    /\ pc[c] = "create"
    /\ \/ /\ spec = None /\ ~dryRun[c]
          /\ Store(overlay[c])
          /\ \E outcome \in {"created", "unanswered"} : Return(c, outcome)
       \/ /\ spec = None /\ dryRun[c]
          /\ Return(c, "dry")
          /\ UNCHANGED object
       \/ /\ Return(c, "error")
          /\ UNCHANGED object
    /\ UNCHANGED <<edits, payload, local>>

\* Mutant of ApplyUpdate: dryRunOptions is not passed on.
ApplyUpdateWet(c) ==
    /\ pc[c] = "update"
    /\ \/ /\ spec # None /\ rv = baseRv[c]
          /\ Store(Merge(base[c], overlay[c]))
          /\ \E outcome \in (IF dryRun[c] THEN {"dry"} ELSE {"updated", "unanswered"}) :
               Return(c, outcome)
       \/ /\ spec # None /\ rv # baseRv[c]
          /\ Return(c, "conflict")
          /\ UNCHANGED object
       \/ /\ Return(c, "error")
          /\ UNCHANGED object
    /\ UNCHANGED <<edits, payload, local>>

\* apply's Update of the object it got, with that object's resourceVersion.
ApplyUpdate(c) ==
    /\ pc[c] = "update"
    /\ \/ /\ spec # None /\ rv = baseRv[c] /\ ~dryRun[c]
          /\ Store(Merge(base[c], overlay[c]))
          /\ \E outcome \in {"updated", "unanswered"} : Return(c, outcome)
       \/ /\ spec # None /\ rv = baseRv[c] /\ dryRun[c]
          /\ Return(c, "dry")
          /\ UNCHANGED object
       \/ /\ spec # None /\ rv # baseRv[c]
          /\ Return(c, "conflict")
          /\ UNCHANGED object
       \/ /\ Return(c, "error")
          /\ UNCHANGED object
    /\ UNCHANGED <<edits, payload, local>>

\* Mutant of Delete: no second look.
DeleteSure(c) ==
    /\ pc[c] = "delete"
    /\ \/ /\ spec = None
          /\ Return(c, "already deleted")
          /\ UNCHANGED <<object, target>>
       \/ /\ spec # None
          /\ DeleteObject
          /\ target' = [target EXCEPT ![c] = uid]
          /\ Return(c, "deleted")
    /\ UNCHANGED <<edits, payload, base, baseRv>>

\* delete's Delete, unconditional.
Delete(c) ==
    /\ pc[c] = "delete"
    /\ \/ /\ spec = None
          /\ Return(c, "already deleted")
          /\ UNCHANGED <<object, target>>
       \/ /\ spec # None
          /\ DeleteObject
          /\ target' = [target EXCEPT ![c] = uid]
          /\ Return(c, "check") \/ Return(c, "error")
       \/ /\ Return(c, "error")
          /\ UNCHANGED <<object, target>>
    /\ UNCHANGED <<edits, payload, base, baseRv>>

\* delete's second Get: gone, stuck behind ArgoCD's finalizer, or terminating.
DeleteCheck(c) ==
    /\ pc[c] = "check"
    /\ \/ Return(c, IF spec = None THEN "deleted"
                    ELSE IF finalizer = "argocd" THEN "stuck" ELSE "terminating")
       \/ Return(c, "error")
    /\ UNCHANGED <<object, edits, payload, local>>

\* sync's merge patch of the refresh annotation; the second one changes nothing.
Sync(c) ==
    /\ pc[c] = "patch"
    /\ \/ /\ spec # None
          /\ refresh' = TRUE
          /\ rv' = IF refresh THEN rv ELSE rv + 1
          /\ Return(c, "synced") \/ Return(c, "error")
          /\ UNCHANGED <<spec, uid, deleting, finalizer>>
       \/ /\ Return(c, "error")
          /\ UNCHANGED object
    /\ UNCHANGED <<edits, payload, local>>

-----------------------------------------------------------------------------
Step(c) ==
    \/ Call(c) \/ ApplyGet(c) \/ ApplyCreate(c) \/ ApplyUpdate(c)
    \/ Delete(c) \/ DeleteCheck(c) \/ Sync(c)

Done ==
    /\ \A c \in Calls : pc[c] \in Outcomes
    /\ UNCHANGED vars

Next == Others \/ (\E c \in Calls : CallerReads(c) \/ Step(c)) \/ Done

Spec == Init /\ [][Next]_vars

-----------------------------------------------------------------------------
\* The object as the promise sees it.
Abstract == INSTANCE HelmStore WITH
    store <- spec,
    merged <- {c \in Calls : pc[c] \in {"created", "updated", "unanswered"}},
    removed <- {c \in Calls : target[c] # 0}

\* Every acknowledged apply was merged atomically, once, into what was stored at
\* that moment, so no concurrent change of anybody is lost; so was one whose
\* answer got lost.  No other step of a call changes the spec, except a delete
\* that removes the object, once: a dry run, a createOnly that finds an object, a
\* conflict, a refusal and a sync leave it as it was.
AppliesAtomically == Abstract!Spec

\* An update that carried a resourceVersion was merged into exactly the spec
\* its caller had seen.
SeenIsMerged ==
    \A c \in Calls : pc[c] \in {"update", "updated", "unanswered"} /\ seen[c] # 0
                       => base[c] = seenSpec[c]

\* Argo CD can use a spec.
Usable(s) == s.repoURL = "set" => s.chart # "-" /\ s.values # "item"

\* A Helm value that was a list becomes something else.
ListLost(old, new) ==
    new.repoURL = "set" /\ old # None /\ old.values = "list" /\ new.values = "scalar"

\* No step of a call stores a spec that Argo CD cannot use or that lost a list,
\* whatever others changed since the call looked.
NeverCorrupts ==
    [][ edits' = edits /\ spec' # spec /\ spec' # None
          => Usable(spec') /\ ~ListLost(spec, spec') ]_vars

\* What delete reports is true of the incarnation it deleted: "deleted" means
\* that one is gone for good, the other outcomes that it is on its way out.
DeleteTellsTruth ==
    \A c \in Calls :
        /\ pc[c] = "deleted" => spec = None \/ uid # target[c]
        /\ pc[c] \in {"terminating", "stuck"} /\ spec # None /\ uid = target[c]
             => deleting

=============================================================================
