------------------------------- MODULE HelmStore -------------------------------
(***************************************************************************)
(* What the three helm_application tasks promise: one HelmApplication that *)
(* changes only when somebody else changes it, when an apply merges its    *)
(* spec into it, atomically and at most once, or when a delete deletes it. *)
(* A dry run, a sync, and a call that is refused change nothing.           *)
(***************************************************************************)
EXTENDS Integers

CONSTANTS
    Calls,     \* calls of the tasks
    Specs,     \* specs, also used as the partial specs of calls
    Merge(_, _),      \* the spec and a call's partial spec, merged
    Refused(_, _),    \* a merge of (old, new) that must not be written
    None       \* no object

VARIABLES
    store,      \* the spec of the object, or None
    edits,      \* changes that others have made
    kind, overlay, createOnly, dryRun, \* what a call asks for
    merged,     \* applies that have merged their spec
    removed     \* deletes that have deleted

asked == <<kind, overlay, createOnly, dryRun>>

Init ==
    /\ store \in Specs \cup {None}
    /\ edits = 0
    /\ kind \in [Calls -> {"apply", "delete", "sync"}]
    /\ overlay \in [Calls -> Specs]
    /\ createOnly \in [Calls -> BOOLEAN] /\ dryRun \in [Calls -> BOOLEAN]
    /\ merged = {} /\ removed = {}

\* The call's spec becomes the new object's.
Create(c) ==
    /\ store = None
    /\ ~Refused(None, overlay[c])
    /\ store' = overlay[c]

\* The call's spec is merged into what is stored at that moment.
Update(c) ==
    /\ store # None /\ ~createOnly[c]
    /\ ~Refused(store, Merge(store, overlay[c]))
    /\ store' = Merge(store, overlay[c])

Apply(c) ==
    /\ kind[c] = "apply" /\ ~dryRun[c] /\ c \notin merged
    /\ Create(c) \/ Update(c)
    /\ merged' = merged \cup {c}
    /\ UNCHANGED <<asked, edits, removed>>

\* The object goes away, or will once its finalizers are gone.
Remove(c) ==
    /\ kind[c] = "delete" /\ c \notin removed
    /\ store # None
    /\ store' \in {store, None}
    /\ removed' = removed \cup {c}
    /\ UNCHANGED <<asked, edits, merged>>

\* Users and controllers.
Others ==
    /\ store' \in Specs \cup {None}
    /\ edits' = edits + 1
    /\ UNCHANGED <<asked, merged, removed>>

Next == (\E c \in Calls : Apply(c) \/ Remove(c)) \/ Others

Spec == Init /\ [][Next]_<<store, edits, asked, merged, removed>>
=============================================================================
