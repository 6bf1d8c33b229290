----------------------------- MODULE WorkloadList -----------------------------
(***************************************************************************)
(* list_workloads reads a cluster that goes on changing in up to six       *)
(* lists: one per kind, the PodDisruptionBudgets and the autoscalers.  It  *)
(* attaches the latter two to the workloads and names the budgets that     *)
(* belong to none.  Its caller polls it and takes a difference between two *)
(* answers for a change, so that no order may be left to a Go map.         *)
(*                                                                         *)
(* Names, namespaces and labels are numbers, in their alphabetical order.  *)
(***************************************************************************)
EXTENDS Orders, Sequences

CONSTANTS
    Workloads,      \* [kind, ns, name] of those there may be
    Templates,      \* labels a pod template may have, sets of numbers
    Budgets,        \* [ns, name, selects] of the budgets there may be; selects = 0 is
                    \* an absent selector
    Scaled,         \* the workload that an autoscaler is the target of
    Asks,           \* [kind, hpas] of the calls made
    MaxListEdits    \* bound: changes of the cluster

AllKinds == {"Deployment", "StatefulSet", "DaemonSet", "CronJob", "Job"}
WorkloadKinds == <<"Deployment", "StatefulSet", "DaemonSet", "CronJob">>
\* Alphabetical order.
KindRank == [Deployment |-> 3, StatefulSet |-> 5, DaemonSet |-> 2, CronJob |-> 1, Job |-> 4]

ASSUME ListAssumption ==
    /\ Workloads \subseteq [kind : AllKinds, ns : Nat, name : Nat]
    /\ IsFiniteSet(Workloads)
    /\ \A t \in Templates : t \subseteq Nat /\ IsFiniteSet(t)
    /\ Budgets \subseteq [ns : Nat, name : Nat, selects : Nat]
    /\ Asks \subseteq [kind : {"all"} \cup AllKinds, hpas : BOOLEAN]
    /\ MaxListEdits \in Nat

VARIABLES
    alive,      \* the workloads there are
    template,   \* the labels of their pods
    budgets,    \* the budgets there are
    listEdits,  \* number of changes so far
    listPc,     \* "idle", "list", "pdbs", "hpas", or "sort"
    ask,        \* what the call is for
    left,       \* kinds still to be listed
    entries,    \* the workloads listed
    podLabels,  \* the labels of the pods of each entry, or {} for none
    unmatched,  \* budgets that belong to none of them
    touched,    \* history: what has been edited since the call began
    whole,      \* history: no list has failed that the answer can do without
    last        \* history: the last answer, if it was whole and nothing has been
                \* edited since its call began

workloadsThere == <<alive, template, budgets, listEdits>>
listCall == <<listPc, ask, left, entries, podLabels, unmatched>>
listVars == <<workloadsThere, listCall, touched, whole, last>>

EveryKind == [kind |-> "all", hpas |-> FALSE]
NoAnswer == [ask |-> [kind |-> "none", hpas |-> FALSE], entries |-> <<>>, unmatched |-> {}]

WorkloadEntry ==
    [of : Workloads, terms : Seq(Nat), refs : Seq(Nat), pdbs : SUBSET Budgets, hpa : BOOLEAN]

ListTypeOK ==
    /\ alive \subseteq Workloads
    /\ template \in [Workloads -> Templates]
    /\ budgets \subseteq Budgets
    /\ listEdits \in 0..MaxListEdits
    /\ listPc \in {"idle", "list", "pdbs", "hpas", "sort"}
    /\ ask \in [kind : {"all"} \cup AllKinds, hpas : BOOLEAN]
    /\ left \in Seq(AllKinds)
    /\ entries \in Seq(WorkloadEntry)
    /\ podLabels \in Seq(SUBSET Nat) /\ Len(podLabels) = Len(entries)
    /\ unmatched \subseteq Budgets
    /\ touched \subseteq Workloads \cup Budgets
    /\ whole \in BOOLEAN

ListInit ==
    /\ alive = Workloads
    /\ template \in [Workloads -> Templates]
    /\ budgets = Budgets
    /\ listEdits = 0
    /\ listPc = "idle"
    /\ ask = EveryKind
    /\ left = <<>>
    /\ entries = <<>>
    /\ podLabels = <<>>
    /\ unmatched = {}
    /\ touched = {}
    /\ whole = TRUE
    /\ last = NoAnswer

-----------------------------------------------------------------------------
\* Jobs are listed only if asked for.
KindsFor(k) == IF k = "all" THEN WorkloadKinds ELSE <<k>>

AskWorkloads ==
    /\ listPc = "idle"
    /\ ask' \in Asks
    /\ left' = KindsFor(ask'.kind)
    /\ listPc' = "list"
    /\ UNCHANGED <<workloadsThere, entries, podLabels, unmatched, touched, whole, last>>

\* convertPodAffinityTerm, extractTopologySpreadConstraints and sortedSetKeys sort
\* what they have collected from a map.
SortedKeys(ranged) == Ascending({ranged[i] : i \in DOMAIN ranged})

HasPods(w) == w.kind \notin {"CronJob", "Job"}

\* Mutant of Kept: the entries are put in order as they come, their labels not.
KeptSorted(old, new) ==
    LET s == old \o new
        before == {p \in (DOMAIN s) \X (DOMAIN s) :
                     \/ KindRank[s[p[1]].of.kind] < KindRank[s[p[2]].of.kind]
                     \/ s[p[1]].of.kind = s[p[2]].of.kind /\ p[1] < p[2]}
    IN  [i \in DOMAIN s |-> s[InOrder(DOMAIN s, before)[i]]]

Kept(old, new) == old \o new

\* The labels have the place of their entry; for workloads without pods of their
\* own a placeholder has it.
LabelsOf(listed) ==
    [i \in DOMAIN listed |-> IF HasPods(listed[i]) THEN template[listed[i]] ELSE {}]

\* buildDeploymentInfo, ..., buildJobInfo: what is shown of a workload, with what has
\* been collected from maps in its pod template.
EntryOf(w, terms, refs) ==
    [of |-> w, pdbs |-> {}, hpa |-> FALSE, terms |-> SortedKeys(terms), refs |-> SortedKeys(refs)]

\* One kind is listed.
ListKind ==
    /\ listPc = "list"
    /\ LET listed == Stored({w \in alive : w.kind = Head(left)})
       IN  \E terms, refs \in [DOMAIN listed -> UNION {Ranges(t) : t \in Templates}] :
             /\ \A i \in DOMAIN listed : {terms[i], refs[i]} \subseteq Ranges(template[listed[i]])
             /\ entries' = Kept(entries,
                    [i \in DOMAIN listed |-> EntryOf(listed[i], terms[i], refs[i])])
             /\ podLabels' = podLabels \o LabelsOf(listed)
    /\ left' = Tail(left)
    /\ listPc' = IF Len(left) = 1 THEN "pdbs" ELSE "list"
    /\ UNCHANGED <<workloadsThere, ask, unmatched, touched, whole, last>>

\* The call ends, and what it has put together is gone.
ListEnds ==
    /\ listPc' = "idle"
    /\ ask' = EveryKind
    /\ left' = <<>>
    /\ entries' = <<>>
    /\ podLabels' = <<>>
    /\ unmatched' = {}
    /\ touched' = {}
    /\ whole' = TRUE
    /\ UNCHANGED workloadsThere

\* A kind cannot be listed.
ListKindFails ==
    /\ listPc = "list"
    /\ ListEnds
    /\ UNCHANGED last

Matches(b, w, labels) == b.ns = w.ns /\ b.selects \in labels

Attached(i) == {b \in budgets : Matches(b, entries[i].of, podLabels[i])}
Unclaimed(matched) == budgets \ matched

\* matchPDBsToWorkloads
ListPdbs ==
    /\ listPc = "pdbs"
    /\ entries' = [i \in DOMAIN entries |-> [entries[i] EXCEPT !.pdbs = Attached(i)]]
    /\ unmatched' = Unclaimed(UNION {Attached(i) : i \in DOMAIN entries})
    /\ listPc' = IF ask.hpas THEN "hpas" ELSE "sort"
    /\ UNCHANGED <<workloadsThere, ask, left, podLabels, touched, whole, last>>

\* matchHPAsToWorkloads: the target of an autoscaler has a kind and a name.
ListHpas ==
    /\ listPc = "hpas"
    /\ entries' = [i \in DOMAIN entries |-> [entries[i] EXCEPT !.hpa = entries[i].of = Scaled]]
    /\ listPc' = "sort"
    /\ UNCHANGED <<workloadsThere, ask, left, podLabels, unmatched, touched, whole, last>>

\* Budgets or autoscalers cannot be listed: the answer goes without.
BestEffortFails ==
    /\ listPc \in {"pdbs", "hpas"}
    /\ listPc' = IF listPc = "pdbs" /\ ask.hpas THEN "hpas" ELSE "sort"
    /\ whole' = FALSE
    /\ UNCHANGED <<workloadsThere, ask, left, entries, podLabels, unmatched, touched, last>>

\* By kind, then by name; up to 12 elements sort.Slice leaves equal ones in place.
SortedEntries(s) ==
    LET before == {p \in (DOMAIN s) \X (DOMAIN s) :
                     LET v == s[p[1]].of
                         w == s[p[2]].of
                     IN  \/ KindRank[v.kind] < KindRank[w.kind]
                         \/ v.kind = w.kind /\ v.name < w.name
                         \/ v.kind = w.kind /\ v.name = w.name /\ p[1] < p[2]}
    IN  [i \in DOMAIN s |-> s[InOrder(DOMAIN s, before)[i]]]

ListAnswer == [ask |-> ask, entries |-> SortedEntries(entries), unmatched |-> unmatched]

Finish ==
    /\ listPc = "sort"
    /\ last' = IF whole /\ touched = {} THEN ListAnswer ELSE NoAnswer
    /\ ListEnds

-----------------------------------------------------------------------------
\* Others change the cluster.
ListEdit(x) ==
    /\ listEdits < MaxListEdits
    /\ listEdits' = listEdits + 1
    /\ touched' = IF listPc = "idle" THEN {} ELSE touched \cup {x}
    /\ last' = NoAnswer
    /\ UNCHANGED <<listCall, whole>>

WorkloadComesOrGoes(w) ==
    /\ alive' = IF w \in alive THEN alive \ {w} ELSE alive \cup {w}
    /\ ListEdit(w)
    /\ UNCHANGED <<template, budgets>>

Relabel(w) ==
    /\ \E t \in Templates \ {template[w]} : template' = [template EXCEPT ![w] = t]
    /\ ListEdit(w)
    /\ UNCHANGED <<alive, budgets>>

EditBudget(b) ==
    /\ budgets' = IF b \in budgets THEN budgets \ {b} ELSE budgets \cup {b}
    /\ ListEdit(b)
    /\ UNCHANGED <<alive, template>>

ListNext ==
    \/ AskWorkloads \/ ListKind \/ ListKindFails \/ ListPdbs \/ ListHpas \/ BestEffortFails
    \/ Finish
    \/ \E w \in Workloads : WorkloadComesOrGoes(w) \/ Relabel(w)
    \/ \E b \in Budgets : EditBudget(b)

ListSpec == ListInit /\ [][ListNext]_listVars

-----------------------------------------------------------------------------
Selects(b, w) == b.ns = w.ns /\ HasPods(w) /\ b.selects \in template[w]

\* Answered: the call is about to return what it has put together.
Answered == listPc = "sort" /\ whole

\* A budget that has stayed as it is throughout the call is shown with a workload
\* that has too exactly if it selects that workload's pods.
BudgetsExact ==
    Answered => \A i \in DOMAIN entries, b \in budgets :
        LET w == entries[i].of
        IN  {w, b} \cap touched = {} => (b \in entries[i].pdbs <=> Selects(b, w))

\* Of a call for all kinds: a budget is said to belong to nothing only if it
\* selects no workload that was there all along, and it is said so if nothing was
\* changed meanwhile and it selects none.
UnmatchedSelectNothing ==
    Answered /\ ask.kind = "all" => \A b \in budgets \ touched :
        /\ b \in unmatched => \A w \in alive \ touched : ~Selects(b, w)
        /\ touched = {} /\ b \notin unmatched => \E w \in alive : Selects(b, w)

\* "falsely reporting spec changes on every poll": two calls for the same kinds
\* between which, and during which, nothing changed get the same answer.
PollsAgree == Answered /\ touched = {} /\ last.ask = ask => ListAnswer = last
=============================================================================
