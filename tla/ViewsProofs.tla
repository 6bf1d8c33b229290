------------------------------ MODULE ViewsProofs ------------------------------
(***************************************************************************)
(* What list_workloads, list_pods, list_routes and the resource accounting *)
(* show, for any objects, kinds, nodes and numbers of edits.               *)
(*                                                                         *)
(* All of them put sets in order.  An order that is strict and total gives *)
(* every element a place of its own, the number of those before it         *)
(* (Behinds), so that what is sorted has everything once (Ordered).        *)
(*                                                                         *)
(* list_workloads: the labels stay in the place of their entry (LabelsInv),*)
(* what was there all along is listed once its kind has been (ListedInv),  *)
(* and a call during which nothing changes is, stage by stage, what the    *)
(* cluster alone determines (SteadyInv), which is why the last answer is   *)
(* still the one that the cluster gives now (LastInv).                     *)
(*                                                                         *)
(* list_pods: a ReplicaSet that was not edited is in the map of owners     *)
(* with its controller (OwnerInv).  list_routes: what was not edited has   *)
(* been found if its kind has been listed, and as it is (RouteInv).  The   *)
(* accounting: no pod is bound that is not there, and what was not resized *)
(* to more fits on its node (AccountInv).                                  *)
(*                                                                         *)
(* cluster_health, for any grace periods: what is wrong in the cluster is  *)
(* found by the list that shows it (WrongIsFound), and what has been wrong *)
(* since the call began is found as soon as that list is read (SoFar).     *)
(***************************************************************************)
EXTENDS Listings, RouteList, Accounts, HealthWatch, Integers, FiniteSetTheorems,
        SequenceTheorems, TLAPS

-----------------------------------------------------------------------------
(* Sets in order *)

\* A strict order that is total on S.
Strict(S, before) ==
    /\ \A x, y, z \in S : <<x, y>> \in before /\ <<y, z>> \in before => <<x, z>> \in before
    /\ \A x \in S : <<x, x>> \notin before
    /\ \A x, y \in S : x # y => <<x, y>> \in before \/ <<y, x>> \in before

\* As many places as elements: each is behind a different number of others.
LEMMA Behinds ==
    ASSUME NEW S, IsFiniteSet(S), NEW before, Strict(S, before)
    PROVE  /\ Cardinality(S) \in Nat
           /\ \A x \in S : Behind(x, S, before) \in 0..Cardinality(S) - 1
           /\ \A x, y \in S : <<x, y>> \in before => Behind(x, S, before) < Behind(y, S, before)
           /\ \A i \in 0..Cardinality(S) - 1 : \E x \in S : Behind(x, S, before) = i
<1> DEFINE B(x) == {y \in S : <<y, x>> \in before}
           n == Cardinality(S)
<1>1. n \in Nat
  BY FS_CardinalityType
<1>2. ASSUME NEW x \in S
      PROVE  IsFiniteSet(B(x)) /\ Cardinality(B(x)) \in 0..n - 1
  <2>1. B(x) \in SUBSET S /\ B(x) # S
    BY DEF Strict
  <2>2. IsFiniteSet(B(x)) /\ Cardinality(B(x)) <= n /\ Cardinality(B(x)) # n
    BY <2>1, FS_Subset, Zenon
  <2>3. Cardinality(B(x)) \in Nat
    BY <2>2, FS_CardinalityType
  <2> QED
    BY <1>1, <2>2, <2>3
<1>3. ASSUME NEW x \in S, NEW y \in S, <<x, y>> \in before
      PROVE  Cardinality(B(x)) < Cardinality(B(y))
  <2>1. B(x) \in SUBSET B(y) /\ x \in B(y) /\ x \notin B(x)
    BY <1>3 DEF Strict
  <2>2. Cardinality(B(x)) <= Cardinality(B(y)) /\ Cardinality(B(x)) # Cardinality(B(y))
    BY <1>2, <2>1, FS_Subset, Zenon
  <2>3. Cardinality(B(x)) \in 0..n - 1 /\ Cardinality(B(y)) \in 0..n - 1
    BY <1>2
  <2> HIDE DEF B
  <2> QED
    BY <1>1, <2>2, <2>3
<1>4. \A x \in S : Behind(x, S, before) = Cardinality(B(x))
  BY DEF Behind
<1> DEFINE T == 0..n - 1
           f == [x \in S |-> Cardinality(B(x))]
<1> HIDE DEF B
<1>5. f \in Injection(S, T)
  <2>1. f \in [S -> T]
    BY <1>2
  <2>2. ASSUME NEW x \in S, NEW y \in S, f[x] = f[y] PROVE x = y
    <3>1. Cardinality(B(x)) = Cardinality(B(y)) /\ Cardinality(B(x)) \in Nat
      BY <1>1, <1>2, <2>2
    <3>2. <<x, y>> \notin before /\ <<y, x>> \notin before
      BY <1>2, <1>3, <3>1
    <3> QED
      BY <3>2 DEF Strict
  <2> QED
    BY <2>1, <2>2 DEF Injection, IsInjective
<1>6. IsFiniteSet(T) /\ Cardinality(T) = n
  <2>1. IsFiniteSet(T) /\ Cardinality(T) = IF 0 > n - 1 THEN 0 ELSE (n - 1) - 0 + 1
    BY <1>1, FS_Interval
  <2> QED
    BY <1>1, <2>1
<1>7. f \in Surjection(S, T)
  BY <1>5, <1>6, FS_Injection
<1>8. \A i \in T : \E x \in S : f[x] = i
  BY <1>7 DEF Surjection
<1> QED
  BY <1>1, <1>2, <1>3, <1>4, <1>8

\* A set in its order: each element once, none before one that it comes after.
LEMMA Ordered ==
    ASSUME NEW S, IsFiniteSet(S), NEW before, Strict(S, before)
    PROVE  /\ Cardinality(S) \in Nat
           /\ InOrder(S, before) \in [1..Cardinality(S) -> S]
           /\ InOrder(S, before) \in Seq(S)
           /\ DOMAIN InOrder(S, before) = 1..Cardinality(S)
           /\ Len(InOrder(S, before)) = Cardinality(S)
           /\ \A i, j \in 1..Cardinality(S) :
                  i < j => <<InOrder(S, before)[i], InOrder(S, before)[j]>> \in before
           /\ \A i, j \in 1..Cardinality(S) :
                  i # j => InOrder(S, before)[i] # InOrder(S, before)[j]
           /\ \A x \in S : \E i \in 1..Cardinality(S) : InOrder(S, before)[i] = x
<1> DEFINE n == Cardinality(S)
           B(x) == Behind(x, S, before)
           s == InOrder(S, before)
<1>1. n \in Nat
  BY Behinds
<1>2. \A x \in S : B(x) \in 0..n - 1
  BY Behinds
<1>3. \A x, y \in S : <<x, y>> \in before => B(x) < B(y)
  BY Behinds
<1>4. \A i \in 0..n - 1 : \E x \in S : B(x) = i
  BY Behinds
<1>5. s = [i \in 1..n |-> CHOOSE x \in S : B(x) = i - 1]
  BY DEF InOrder
<1> HIDE DEF n, B, s
<1>6. ASSUME NEW i \in 1..n PROVE s[i] \in S /\ B(s[i]) = i - 1
  <2>1. i - 1 \in 0..n - 1
    BY <1>1
  <2>2. \E x \in S : B(x) = i - 1
    BY <1>4, <2>1
  <2>3. s[i] = CHOOSE x \in S : B(x) = i - 1
    BY <1>5
  <2> QED
    BY <2>2, <2>3
<1>7. s \in [1..n -> S]
  BY <1>5, <1>6
<1>8. ASSUME NEW i \in 1..n, NEW j \in 1..n, i < j PROVE <<s[i], s[j]>> \in before
  <2>1. B(s[i]) < B(s[j]) /\ s[i] # s[j]
    BY <1>1, <1>6, <1>8
  <2>2. ~(B(s[j]) < B(s[i]))
    BY <1>1, <1>6, <1>8
  <2> QED
    BY <1>3, <1>6, <2>1, <2>2 DEF Strict
<1>9. ASSUME NEW i \in 1..n, NEW j \in 1..n, i # j PROVE s[i] # s[j]
  BY <1>1, <1>6, <1>9
<1>10. ASSUME NEW x \in S PROVE \E i \in 1..n : s[i] = x
  <2>1. B(x) + 1 \in 1..n
    BY <1>1, <1>2
  <2>2. s[B(x) + 1] \in S /\ B(s[B(x) + 1]) = B(x)
    BY <1>1, <1>2, <1>6, <2>1
  <2>3. ASSUME NEW y \in S, B(y) = B(x) PROVE y = x
    <3>1. B(x) \in Nat
      BY <1>1, <1>2
    <3>2. <<x, y>> \notin before /\ <<y, x>> \notin before
      BY <1>3, <2>3, <3>1
    <3> QED
      BY <3>2 DEF Strict
  <2> QED
    BY <2>1, <2>2, <2>3
<1>11. s \in Seq(S) /\ DOMAIN s = 1..n /\ Len(s) = n
  BY <1>1, <1>7
<1> QED
  BY <1>1, <1>7, <1>8, <1>9, <1>10, <1>11 DEF n, s

\* Numbers in their order.
LEMMA AscendingIsSeq ==
    ASSUME NEW S \in SUBSET Nat, IsFiniteSet(S)
    PROVE  /\ Ascending(S) \in Seq(S)
           /\ Ascending(S) \in Seq(Nat)
           /\ \A i \in DOMAIN Ascending(S) : Ascending(S)[i] \in S
<1> DEFINE before == {p \in S \X S : p[1] < p[2]}
<1>1. Strict(S, before)
  BY DEF Strict
<1> HIDE DEF before
<1>2. InOrder(S, before) \in Seq(S)
  BY <1>1, Ordered
<1>3. Ascending(S) = InOrder(S, before)
  BY DEF Ascending, before
<1>4. Ascending(S) \in Seq(S)
  BY <1>2, <1>3
<1>5. Ascending(S) \in Seq(Nat)
  BY <1>4, SeqMonotonic
<1>6. \A i \in DOMAIN Ascending(S) : Ascending(S)[i] \in S
  BY <1>4, ElementOfSeq, LenProperties
<1> QED
  BY <1>4, <1>5, <1>6

\* Objects of one kind in the API server's order.
LEMMA StoredIsSeq ==
    ASSUME NEW S, IsFiniteSet(S), \A x \in S : x.ns \in Nat /\ x.name \in Nat,
           \A x, y \in S : x.ns = y.ns /\ x.name = y.name => x = y
    PROVE  /\ Stored(S) \in Seq(S)
           /\ \A i \in DOMAIN Stored(S) : Stored(S)[i] \in S
           /\ \A i, j \in DOMAIN Stored(S) : i # j => Stored(S)[i] # Stored(S)[j]
           /\ \A x \in S : \E i \in DOMAIN Stored(S) : Stored(S)[i] = x
<1> DEFINE before == {p \in S \X S : \/ p[1].ns < p[2].ns
                                     \/ p[1].ns = p[2].ns /\ p[1].name < p[2].name}
<1>1. Strict(S, before)
  <2>1. ASSUME NEW x \in S, NEW y \in S
        PROVE  <<x, y>> \in before
                   <=> x.ns < y.ns \/ (x.ns = y.ns /\ x.name < y.name)
    OBVIOUS
  <2> HIDE DEF before
  <2>2. ASSUME NEW x \in S, NEW y \in S, NEW z \in S,
               <<x, y>> \in before, <<y, z>> \in before
        PROVE  <<x, z>> \in before
    BY <2>1, <2>2
  <2>3. \A x \in S : <<x, x>> \notin before
    BY <2>1
  <2>4. ASSUME NEW x \in S, NEW y \in S, x # y
        PROVE  <<x, y>> \in before \/ <<y, x>> \in before
    BY <2>1, <2>4
  <2> QED
    BY <2>2, <2>3, <2>4 DEF Strict
<1>2. Stored(S) = InOrder(S, before)
  BY DEF Stored
<1> HIDE DEF before
<1>3. /\ InOrder(S, before) \in Seq(S)
      /\ InOrder(S, before) \in [1..Cardinality(S) -> S]
      /\ DOMAIN InOrder(S, before) = 1..Cardinality(S)
      /\ \A i, j \in 1..Cardinality(S) : i # j => InOrder(S, before)[i] # InOrder(S, before)[j]
      /\ \A x \in S : \E i \in 1..Cardinality(S) : InOrder(S, before)[i] = x
  BY <1>1, Ordered
<1> QED
  BY <1>2, <1>3

-----------------------------------------------------------------------------
(* list_workloads *)

\* The calls there may be, and the kinds they have still to list after n.
Calls == [kind : {"all"} \cup AllKinds, hpas : BOOLEAN]

KindsLeft(k, n) == SubSeq(KindsFor(k), n + 1, Len(KindsFor(k)))

\* What listing a kind adds if nothing changes.
OfKind(k) == Stored({w \in alive : w.kind = k})
Block(k) ==
    [i \in DOMAIN OfKind(k) |->
        [of |-> OfKind(k)[i], pdbs |-> {}, hpa |-> FALSE,
         terms |-> Ascending(template[OfKind(k)[i]]), refs |-> Ascending(template[OfKind(k)[i]])]]

\* Of the first n kinds.
FirstEntries(k, n) ==
    LET K == KindsFor(k) IN
    IF n = 0 THEN <<>>
    ELSE IF n = 1 THEN Block(K[1])
    ELSE IF n = 2 THEN Block(K[1]) \o Block(K[2])
    ELSE IF n = 3 THEN (Block(K[1]) \o Block(K[2])) \o Block(K[3])
    ELSE ((Block(K[1]) \o Block(K[2])) \o Block(K[3])) \o Block(K[4])
Labels(k) == LabelsOf(OfKind(k))
FirstLabels(k, n) ==
    LET L(j) == Labels(KindsFor(k)[j]) IN
    IF n = 0 THEN <<>>
    ELSE IF n = 1 THEN L(1)
    ELSE IF n = 2 THEN L(1) \o L(2)
    ELSE IF n = 3 THEN (L(1) \o L(2)) \o L(3)
    ELSE ((L(1) \o L(2)) \o L(3)) \o L(4)

AllEntries(a) == FirstEntries(a.kind, Len(KindsFor(a.kind)))
AllLabels(a) == FirstLabels(a.kind, Len(KindsFor(a.kind)))
BudgetsOf(a, i) == {b \in budgets : Matches(b, AllEntries(a)[i].of, AllLabels(a)[i])}
WithBudgets(a) == [i \in DOMAIN AllEntries(a) |-> [AllEntries(a)[i] EXCEPT !.pdbs = BudgetsOf(a, i)]]
WithScalers(a) ==
    IF a.hpas
    THEN [i \in DOMAIN WithBudgets(a) |->
             [WithBudgets(a)[i] EXCEPT !.hpa = WithBudgets(a)[i].of = Scaled]]
    ELSE WithBudgets(a)
BudgetsOfNone(a) == budgets \ UNION {BudgetsOf(a, i) : i \in DOMAIN AllEntries(a)}
AnswerNow(a) ==
    [ask |-> a, entries |-> SortedEntries(WithScalers(a)), unmatched |-> BudgetsOfNone(a)]

\* The kinds are listed one by one; only budgets and autoscalers may be missing.
StageInv ==
    /\ listPc = "idle" => left = <<>> /\ entries = <<>> /\ podLabels = <<>> /\ touched = {} /\ whole
    /\ listPc = "list" => \A a \in Calls : ask = a =>
           \E n \in 0..Len(KindsFor(a.kind)) - 1 : left = KindsLeft(a.kind, n)
    /\ listPc \in {"list", "pdbs"} => whole
    /\ listPc \in {"pdbs", "hpas", "sort"} => left = <<>>
    /\ listPc = "hpas" => ask.hpas

\* The labels have the place of their entry.
LabelsInv ==
    \A i \in DOMAIN entries : entries[i].of \notin touched =>
        /\ entries[i].of \in alive
        /\ podLabels[i] = IF HasPods(entries[i].of) THEN template[entries[i].of] ELSE {}

\* What was there all along is listed once its kind has been.
ListedInv ==
    listPc # "idle" => \A a \in Calls : ask = a => \A w \in alive \ touched :
        /\ \E j \in 1..Len(KindsFor(a.kind)) : KindsFor(a.kind)[j] = w.kind
        /\ \A j \in 1..Len(left) : left[j] # w.kind
        => \E i \in DOMAIN entries : entries[i].of = w

\* Once the budgets have been read they are with what they match.
BudgetInv ==
    whole /\ listPc \in {"hpas", "sort"} => \A b \in budgets \ touched :
        /\ \A i \in DOMAIN entries :
               b \in entries[i].pdbs <=> Matches(b, entries[i].of, podLabels[i])
        /\ b \in unmatched <=> \A i \in DOMAIN entries : ~Matches(b, entries[i].of, podLabels[i])

\* While nothing is edited a call arrives at what the cluster gives by itself.
SteadyInv ==
    whole /\ touched = {} => \A a \in Calls : ask = a =>
        /\ listPc = "list" => \E n \in 0..Len(KindsFor(a.kind)) - 1 :
               /\ left = KindsLeft(a.kind, n)
               /\ entries = FirstEntries(a.kind, n)
               /\ podLabels = FirstLabels(a.kind, n)
        /\ listPc \in {"pdbs", "hpas", "sort"} => podLabels = AllLabels(a)
        /\ listPc = "pdbs" => entries = AllEntries(a)
        /\ listPc = "hpas" => entries = WithBudgets(a) /\ unmatched = BudgetsOfNone(a)
        /\ listPc = "sort" => entries = WithScalers(a) /\ unmatched = BudgetsOfNone(a)

LastInv == \A a \in Calls : last.ask = a => last = AnswerNow(a)

ListInv == ListTypeOK /\ StageInv /\ LabelsInv /\ ListedInv /\ BudgetInv /\ SteadyInv /\ LastInv

LEMMA KindsAre ==
    ASSUME NEW k \in {"all"} \cup AllKinds
    PROVE  /\ KindsFor(k) \in Seq(AllKinds)
           /\ Len(KindsFor(k)) \in 1..4
           /\ DOMAIN KindsFor(k) = 1..Len(KindsFor(k))
           /\ KindsFor(k) # <<>>
<1>1. CASE k = "all"
  BY <1>1 DEF KindsFor, WorkloadKinds, AllKinds
<1>2. CASE k \in AllKinds /\ k # "all"
  <2>1. KindsFor(k) = <<k>>
    BY <1>2 DEF KindsFor
  <2> QED
    BY <1>2, <2>1
<1> QED
  BY <1>1, <1>2

\* The kinds that are still to be listed, one less each time.
LEMMA KindsGo ==
    ASSUME NEW k \in {"all"} \cup AllKinds
    PROVE  /\ KindsLeft(k, 0) = KindsFor(k)
           /\ KindsLeft(k, Len(KindsFor(k))) = <<>>
           /\ \A n \in 0..Len(KindsFor(k)) - 1 :
                  /\ KindsLeft(k, n) \in Seq(AllKinds) /\ KindsLeft(k, n) # <<>>
                  /\ Len(KindsLeft(k, n)) = Len(KindsFor(k)) - n
                  /\ Head(KindsLeft(k, n)) = KindsFor(k)[n + 1]
                  /\ Tail(KindsLeft(k, n)) = KindsLeft(k, n + 1)
<1> DEFINE K == KindsFor(k)
<1>1. K \in Seq(AllKinds) /\ Len(K) \in 1..4 /\ DOMAIN K = 1..Len(K)
  BY KindsAre
<1> HIDE DEF K
<1>2. SubSeq(K, 1, Len(K)) = K
  BY <1>1, SubSeqFull
<1>3. SubSeq(K, Len(K) + 1, Len(K)) = <<>>
  BY <1>1, SubSeqEmpty
<1>4. ASSUME NEW n \in 0..Len(K) - 1
      PROVE  /\ SubSeq(K, n + 1, Len(K)) \in Seq(AllKinds) /\ SubSeq(K, n + 1, Len(K)) # <<>>
             /\ Len(SubSeq(K, n + 1, Len(K))) = Len(K) - n
             /\ Head(SubSeq(K, n + 1, Len(K))) = K[n + 1]
             /\ Tail(SubSeq(K, n + 1, Len(K))) = SubSeq(K, (n + 1) + 1, Len(K))
  <2>1. n + 1 \in 1..Len(K) /\ Len(K) \in (n + 1)..Len(K)
    BY <1>1
  <2>2. /\ Head(SubSeq(K, n + 1, Len(K))) = K[n + 1]
        /\ Tail(SubSeq(K, n + 1, Len(K))) = SubSeq(K, (n + 1) + 1, Len(K))
    BY <1>1, <2>1, HeadTailOfSubSeq
  <2>3. \A i \in (n + 1)..Len(K) : K[i] \in AllKinds
    BY <1>1
  <2>4. n + 1 \in Int /\ Len(K) \in Int
    BY <1>1
  <2>5. /\ SubSeq(K, n + 1, Len(K)) \in Seq(AllKinds)
        /\ Len(SubSeq(K, n + 1, Len(K))) = IF n + 1 <= Len(K) THEN Len(K) - (n + 1) + 1 ELSE 0
    BY <2>3, <2>4, SubSeqProperties
  <2>6. Len(SubSeq(K, n + 1, Len(K))) = Len(K) - n
    BY <1>1, <2>5
  <2>7. SubSeq(K, n + 1, Len(K)) # <<>>
    <3>1. ASSUME SubSeq(K, n + 1, Len(K)) = <<>> PROVE FALSE
      <4>1. Len(SubSeq(K, n + 1, Len(K))) = Len(<<>>)
        BY <3>1, Zenon
      <4>2. Len(<<>>) = 0
        OBVIOUS
      <4>3. Len(K) - n # 0
        BY <2>1, <2>4
      <4> QED
        BY <2>6, <4>1, <4>2, <4>3
    <3> QED
      BY <3>1
  <2> QED
    BY <2>2, <2>5, <2>6, <2>7
<1>5. KindsLeft(k, 0) = SubSeq(K, 1, Len(K))
  BY DEF KindsLeft, K
<1>6. \A n : KindsLeft(k, n) = SubSeq(K, n + 1, Len(K))
  BY DEF KindsLeft, K
<1> QED
  BY <1>1, <1>2, <1>3, <1>4, <1>5, <1>6 DEF K

\* What a kind's list adds to the answer, and that it leaves nothing out.
LEMMA BlockIs ==
    ASSUME ListTypeOK, NEW k
    PROVE  /\ Block(k) \in Seq(WorkloadEntry)
           /\ Labels(k) \in Seq(SUBSET Nat)
           /\ Len(Labels(k)) = Len(Block(k))
           /\ \A i \in 1..Len(Block(k)) :
                  /\ Block(k)[i].of \in alive
                  /\ Labels(k)[i]
                       = IF HasPods(Block(k)[i].of) THEN template[Block(k)[i].of] ELSE {}
           /\ \A w \in alive : w.kind = k => \E i \in 1..Len(Block(k)) : Block(k)[i].of = w
<1> DEFINE W == {w \in alive : w.kind = k}
           s == OfKind(k)
           E(i) == [of |-> s[i], pdbs |-> {}, hpa |-> FALSE,
                    terms |-> Ascending(template[s[i]]), refs |-> Ascending(template[s[i]])]
           L(i) == IF HasPods(s[i]) THEN template[s[i]] ELSE {}
<1>1. /\ W \in SUBSET Workloads /\ W \subseteq alive /\ template \in [Workloads -> Templates]
      /\ \A w \in W : w.kind = k
      /\ \A w \in alive : w.kind = k => w \in W
  BY DEF ListTypeOK
<1>2. IsFiniteSet(W)
  BY <1>1, ListAssumption, FS_Subset
<1>3. \A w \in W : w \in [kind : AllKinds, ns : Nat, name : Nat]
  BY <1>1, ListAssumption
<1> HIDE DEF W
<1>4. /\ \A w \in W : w.ns \in Nat /\ w.name \in Nat
      /\ \A v, w \in W : v.ns = w.ns /\ v.name = w.name => v = w
  BY <1>1, <1>3
<1>5. /\ Stored(W) \in Seq(W)
      /\ \A i \in DOMAIN Stored(W) : Stored(W)[i] \in W
      /\ \A w \in W : \E i \in DOMAIN Stored(W) : Stored(W)[i] = w
  BY <1>2, <1>4, StoredIsSeq
<1>6. s = Stored(W)
  BY DEF OfKind, W
<1>7. DOMAIN s = 1..Len(s) /\ Len(s) \in Nat
  BY <1>5, <1>6, LenProperties
<1>8. /\ Block(k) = [i \in DOMAIN s |-> E(i)]
      /\ Labels(k) = [i \in DOMAIN s |-> L(i)]
  BY DEF Block, Labels, LabelsOf
<1> HIDE DEF s
<1>9. ASSUME NEW i \in 1..Len(s)
      PROVE  s[i] \in alive /\ E(i) \in WorkloadEntry /\ E(i).of = s[i] /\ L(i) \in SUBSET Nat
  <2>1. s[i] \in W
    BY <1>5, <1>6, <1>7
  <2>2. s[i] \in Workloads /\ s[i] \in alive
    BY <1>1, <2>1
  <2>3. template[s[i]] \in Templates
    BY <1>1, <2>2
  <2>4. template[s[i]] \in SUBSET Nat /\ IsFiniteSet(template[s[i]])
    BY <2>3, ListAssumption
  <2>5. Ascending(template[s[i]]) \in Seq(Nat)
    BY <2>4, AscendingIsSeq
  <2>6. E(i) \in WorkloadEntry
    BY <2>2, <2>5 DEF WorkloadEntry
  <2> QED
    BY <2>2, <2>4, <2>6
<1> HIDE DEF E, L
<1>10. /\ Block(k) \in Seq(WorkloadEntry) /\ Len(Block(k)) = Len(s)
       /\ Labels(k) \in Seq(SUBSET Nat) /\ Len(Labels(k)) = Len(s)
  BY <1>7, <1>8, <1>9
<1>11. \A i \in 1..Len(s) : Block(k)[i] = E(i) /\ Labels(k)[i] = L(i)
  BY <1>7, <1>8
<1>12. ASSUME NEW i \in 1..Len(s)
       PROVE  /\ Block(k)[i].of = s[i] /\ Block(k)[i].of \in alive
              /\ Labels(k)[i] = IF HasPods(s[i]) THEN template[s[i]] ELSE {}
  BY <1>9, <1>11 DEF L
<1>13. ASSUME NEW w \in alive, w.kind = k
       PROVE  \E i \in 1..Len(s) : Block(k)[i].of = w
  BY <1>1, <1>5, <1>6, <1>7, <1>12, <1>13
<1> QED
  BY <1>10, <1>12, <1>13 DEF s

\* Whatever order the maps in a pod template are visited in, the same is shown.
LEMMA ListKindAdds ==
    ASSUME ListTypeOK, ListKind
    PROVE  /\ entries' = entries \o Block(Head(left))
           /\ podLabels' = podLabels \o Labels(Head(left))
<1> DEFINE s == OfKind(Head(left))
<1>1. PICK terms, refs \in [DOMAIN s -> UNION {Ranges(t) : t \in Templates}] :
          /\ \A i \in DOMAIN s : {terms[i], refs[i]} \subseteq Ranges(template[s[i]])
          /\ entries' = Kept(entries, [i \in DOMAIN s |-> EntryOf(s[i], terms[i], refs[i])])
          /\ podLabels' = podLabels \o LabelsOf(s)
  BY DEF ListKind, OfKind
<1>2. \A t, r : r \in Ranges(t) => SortedKeys(r) = Ascending(t)
  BY DEF Ranges, SortedKeys
<1> HIDE DEF s
<1>3. ASSUME NEW i \in DOMAIN s
      PROVE  EntryOf(s[i], terms[i], refs[i])
               = [of |-> s[i], pdbs |-> {}, hpa |-> FALSE,
                  terms |-> Ascending(template[s[i]]), refs |-> Ascending(template[s[i]])]
  <2>1. SortedKeys(terms[i]) = Ascending(template[s[i]])
    BY <1>1, <1>2
  <2>2. SortedKeys(refs[i]) = Ascending(template[s[i]])
    BY <1>1, <1>2
  <2> QED
    BY <2>1, <2>2 DEF EntryOf
<1>4. [i \in DOMAIN s |-> EntryOf(s[i], terms[i], refs[i])] = Block(Head(left))
  BY <1>3 DEF Block, s
<1> QED
  BY <1>1, <1>4 DEF Kept, Labels, s

\* The answer depends on the cluster alone.
LEMMA SameAnswer ==
    ASSUME UNCHANGED <<alive, template, budgets>>
    PROVE  /\ \A k, n : FirstEntries(k, n)' = FirstEntries(k, n)
                        /\ FirstLabels(k, n)' = FirstLabels(k, n)
           /\ \A a : /\ AllEntries(a)' = AllEntries(a) /\ AllLabels(a)' = AllLabels(a)
                     /\ WithBudgets(a)' = WithBudgets(a)
                     /\ WithScalers(a)' = WithScalers(a)
                     /\ BudgetsOfNone(a)' = BudgetsOfNone(a)
                     /\ AnswerNow(a)' = AnswerNow(a)
<1>1. \A k : OfKind(k)' = OfKind(k)
  BY DEF OfKind
<1>2. \A k : Block(k)' = Block(k)
  BY <1>1 DEF Block
<1>3. \A k : Labels(k)' = Labels(k)
  BY <1>1 DEF Labels, LabelsOf
<1>4. \A k, n : FirstEntries(k, n)' = FirstEntries(k, n)
  BY <1>2 DEF FirstEntries
<1>5. \A k, n : FirstLabels(k, n)' = FirstLabels(k, n)
  BY <1>3 DEF FirstLabels
<1>6. \A a : AllEntries(a)' = AllEntries(a) /\ AllLabels(a)' = AllLabels(a)
  BY <1>4, <1>5 DEF AllEntries, AllLabels
<1>7. \A a, i : BudgetsOf(a, i)' = BudgetsOf(a, i)
  BY <1>6 DEF BudgetsOf
<1>8. \A a : WithBudgets(a)' = WithBudgets(a)
  BY <1>6, <1>7 DEF WithBudgets
<1>9. \A a : WithScalers(a)' = WithScalers(a)
  BY <1>8 DEF WithScalers
<1>10. \A a : BudgetsOfNone(a)' = BudgetsOfNone(a)
  BY <1>6, <1>7 DEF BudgetsOfNone
<1>11. \A a : AnswerNow(a)' = AnswerNow(a)
  BY <1>9, <1>10 DEF AnswerNow
<1> QED
  BY <1>4, <1>5, <1>6, <1>8, <1>9, <1>10, <1>11

\* Kind by kind the answer grows.
LEMMA Grows ==
    ASSUME ListTypeOK, NEW k \in {"all"} \cup AllKinds, NEW n \in 0..Len(KindsFor(k)) - 1
    PROVE  /\ FirstEntries(k, n + 1) = FirstEntries(k, n) \o Block(KindsFor(k)[n + 1])
           /\ FirstLabels(k, n + 1) = FirstLabels(k, n) \o Labels(KindsFor(k)[n + 1])
           /\ FirstEntries(k, 0) = <<>> /\ FirstLabels(k, 0) = <<>>
<1>1. n \in 0..3
  <2> DEFINE l == Len(KindsFor(k))
  <2>1. l \in 1..4
    BY KindsAre
  <2> HIDE DEF l
  <2>2. n \in 0..l - 1
    BY DEF l
  <2> QED
    BY <2>1, <2>2
<1> DEFINE B(j) == Block(KindsFor(k)[j])
           L(j) == Labels(KindsFor(k)[j])
<1>2. <<>> \o B(1) = B(1) /\ <<>> \o L(1) = L(1)
  BY BlockIs, ConcatEmptySeq
<1>3. /\ FirstEntries(k, 0) = <<>> /\ FirstEntries(k, 1) = B(1) /\ FirstEntries(k, 2) = B(1) \o B(2)
      /\ FirstEntries(k, 3) = (B(1) \o B(2)) \o B(3)
      /\ FirstEntries(k, 4) = ((B(1) \o B(2)) \o B(3)) \o B(4)
  BY DEF FirstEntries
<1>4. /\ FirstLabels(k, 0) = <<>> /\ FirstLabels(k, 1) = L(1) /\ FirstLabels(k, 2) = L(1) \o L(2)
      /\ FirstLabels(k, 3) = (L(1) \o L(2)) \o L(3)
      /\ FirstLabels(k, 4) = ((L(1) \o L(2)) \o L(3)) \o L(4)
  BY DEF FirstLabels
<1> HIDE DEF B, L
<1>5. /\ FirstEntries(k, n + 1) = FirstEntries(k, n) \o B(n + 1)
      /\ FirstLabels(k, n + 1) = FirstLabels(k, n) \o L(n + 1)
  <2>1. CASE n = 0
    <3>1. n + 1 = 1
      BY <2>1
    <3> QED
      BY <1>2, <1>3, <1>4, <2>1, <3>1
  <2>2. CASE n = 1
    <3>1. n + 1 = 2
      BY <2>2
    <3> QED
      BY <1>3, <1>4, <2>2, <3>1
  <2>3. CASE n = 2
    <3>1. n + 1 = 3
      BY <2>3
    <3> QED
      BY <1>3, <1>4, <2>3, <3>1
  <2>4. CASE n = 3
    <3>1. n + 1 = 4
      BY <2>4
    <3> QED
      BY <1>3, <1>4, <2>4, <3>1
  <2>5. n = 0 \/ n = 1 \/ n = 2 \/ n = 3
    BY <1>1
  <2> QED
    BY <2>1, <2>2, <2>3, <2>4, <2>5
<1> QED
  BY <1>3, <1>4, <1>5 DEF B, L

LEMMA ListBegins == ListInit => ListInv
<1> SUFFICES ASSUME ListInit PROVE ListInv
  OBVIOUS
<1>1. /\ listPc = "idle" /\ left = <<>> /\ entries = <<>> /\ podLabels = <<>> /\ touched = {}
      /\ whole /\ last = NoAnswer /\ ask = EveryKind /\ alive = Workloads /\ budgets = Budgets
      /\ template \in [Workloads -> Templates] /\ listEdits = 0 /\ unmatched = {} /\ whole = TRUE
  BY DEF ListInit
<1>2. ask \in [kind : {"all"} \cup AllKinds, hpas : BOOLEAN]
  BY <1>1 DEF EveryKind
<1>3. left \in Seq(AllKinds) /\ entries \in Seq(WorkloadEntry) /\ podLabels \in Seq(SUBSET Nat)
      /\ Len(podLabels) = Len(entries) /\ DOMAIN entries = {}
  BY <1>1
<1>4. listEdits \in 0..MaxListEdits
  BY <1>1, ListAssumption
<1>5. ListTypeOK
  BY <1>1, <1>2, <1>3, <1>4 DEF ListTypeOK
<1>6. LastInv
  BY <1>1 DEF LastInv, NoAnswer, Calls, AllKinds
<1>7. StageInv /\ LabelsInv /\ ListedInv /\ BudgetInv /\ SteadyInv
  BY <1>1, <1>3 DEF StageInv, LabelsInv, ListedInv, BudgetInv, SteadyInv
<1> QED
  BY <1>5, <1>6, <1>7 DEF ListInv

LEMMA ListKindKeeps == ASSUME ListInv, ListKind PROVE ListInv'
<1>1. /\ listPc = "list" /\ left' = Tail(left)
      /\ listPc' = IF Len(left) = 1 THEN "pdbs" ELSE "list"
      /\ UNCHANGED <<alive, template, budgets, listEdits, ask, unmatched, touched, whole, last>>
  BY DEF ListKind, workloadsThere
<1>2. ListTypeOK /\ whole /\ ask \in Calls
  BY <1>1 DEF ListInv, StageInv, ListTypeOK, Calls
<1>30. PICK a \in Calls : ask = a
  BY <1>2
<1> DEFINE k == a.kind
           h == Head(left)
           N == Len(entries)
           m == Len(Block(h))
<1>3. k \in {"all"} \cup AllKinds
  BY DEF Calls
<1>4. Len(KindsFor(k)) \in 1..4
  BY <1>3, KindsAre
<1>5. \E n \in 0..Len(KindsFor(k)) - 1 : left = KindsLeft(k, n)
  BY <1>1, <1>30 DEF ListInv, StageInv
<1>6. ASSUME NEW n \in 0..Len(KindsFor(k)) - 1, left = KindsLeft(k, n)
      PROVE  /\ left \in Seq(AllKinds) /\ left # <<>>
             /\ h = KindsFor(k)[n + 1] /\ left' = KindsLeft(k, n + 1)
             /\ Len(left) = Len(KindsFor(k)) - n
  BY <1>1, <1>3, <1>6, KindsGo
<1> HIDE DEF k
<1>7. left \in Seq(AllKinds) /\ left # <<>> /\ (Len(left) = 1 => left' = <<>>)
  <2>1. PICK n \in 0..Len(KindsFor(k)) - 1 : left = KindsLeft(k, n)
    BY <1>5
  <2>2. ASSUME Len(left) = 1 PROVE n + 1 = Len(KindsFor(k))
    BY <1>4, <1>6, <2>1, <2>2
  <2>3. KindsLeft(k, Len(KindsFor(k))) = <<>>
    BY <1>3, KindsGo
  <2> QED
    BY <1>6, <2>1, <2>2, <2>3
<1>8. /\ h \in AllKinds /\ left' \in Seq(AllKinds) /\ Len(left') = Len(left) - 1 /\ Len(left) \in Nat
      /\ \A j \in 1..Len(left') : left'[j] = left[j + 1]
      /\ h = left[1]
  BY <1>1, <1>7, HeadTailProperties, LenProperties
<1> HIDE DEF h
<1>9. /\ entries' = entries \o Block(h) /\ podLabels' = podLabels \o Labels(h)
  BY <1>2, ListKindAdds DEF h
<1>10. /\ Block(h) \in Seq(WorkloadEntry) /\ Labels(h) \in Seq(SUBSET Nat) /\ Len(Labels(h)) = m
       /\ \A i \in 1..m : /\ Block(h)[i].of \in alive
                          /\ Labels(h)[i] = IF HasPods(Block(h)[i].of)
                                            THEN template[Block(h)[i].of] ELSE {}
       /\ \A w \in alive : w.kind = h => \E i \in 1..m : Block(h)[i].of = w
  BY <1>2, BlockIs
<1>11. /\ entries \in Seq(WorkloadEntry) /\ podLabels \in Seq(SUBSET Nat) /\ Len(podLabels) = N
  BY <1>2 DEF ListTypeOK
<1>12. N \in Nat /\ m \in Nat /\ DOMAIN entries = 1..N
  BY <1>10, <1>11, LenProperties
<1>13. /\ entries' \in Seq(WorkloadEntry) /\ Len(entries') = N + m
       /\ \A i \in 1..N + m : entries'[i] = IF i <= N THEN entries[i] ELSE Block(h)[i - N]
  BY <1>9, <1>10, <1>11, ConcatProperties
<1>14. /\ podLabels' \in Seq(SUBSET Nat) /\ Len(podLabels') = N + m
       /\ \A i \in 1..N + m : podLabels'[i] = IF i <= N THEN podLabels[i] ELSE Labels(h)[i - N]
  <2> DEFINE T == SUBSET Nat
  <2>2. podLabels \in Seq(T) /\ Labels(h) \in Seq(T)
    BY <1>10, <1>11
  <2> HIDE DEF T
  <2>1. /\ podLabels \o Labels(h) \in Seq(T)
        /\ Len(podLabels \o Labels(h)) = Len(podLabels) + Len(Labels(h))
        /\ \A i \in 1..Len(podLabels) + Len(Labels(h)) : (podLabels \o Labels(h))[i] =
               IF i <= Len(podLabels) THEN podLabels[i] ELSE Labels(h)[i - Len(podLabels)]
    BY <2>2, ConcatProperties
  <2> HIDE DEF N, m
  <2> QED
    BY <1>9, <1>10, <1>11, <2>1 DEF T
<1>15. DOMAIN entries' = 1..N + m
  BY <1>13, LenProperties
<1> HIDE DEF N, m
<1>16. ASSUME NEW i \in 1..N
       PROVE  i \in 1..N + m /\ entries'[i] = entries[i] /\ podLabels'[i] = podLabels[i]
  <2>1. i \in 1..N + m /\ i <= N
    BY <1>12
  <2> QED
    BY <1>13, <1>14, <2>1
<1>17. ASSUME NEW i \in 1..m
       PROVE  /\ N + i \in 1..N + m /\ entries'[N + i] = Block(h)[i]
              /\ podLabels'[N + i] = Labels(h)[i]
  <2>1. N + i \in 1..N + m /\ ~(N + i <= N) /\ (N + i) - N = i
    BY <1>12
  <2> QED
    BY <1>13, <1>14, <2>1
<1>18. ASSUME NEW i \in 1..N + m, i \notin 1..N
       PROVE  \E j \in 1..m : entries'[i] = Block(h)[j] /\ podLabels'[i] = Labels(h)[j]
  <2>1. i - N \in 1..m /\ N + (i - N) = i
    BY <1>12, <1>18
  <2> QED
    BY <1>17, <2>1
<1>19. ListTypeOK'
  <2>1. /\ alive \subseteq Workloads /\ template \in [Workloads -> Templates] /\ budgets \subseteq Budgets
        /\ listEdits \in 0..MaxListEdits /\ ask \in [kind : {"all"} \cup AllKinds, hpas : BOOLEAN]
        /\ unmatched \subseteq Budgets /\ touched \subseteq Workloads \cup Budgets /\ whole \in BOOLEAN
    BY <1>2 DEF ListTypeOK
  <2>2. Len(podLabels') = Len(entries')
    BY <1>13, <1>14
  <2>3. listPc' \in {"idle", "list", "pdbs", "hpas", "sort"}
    BY <1>1
  <2> QED
    BY <1>1, <1>8, <1>13, <1>14, <2>1, <2>2, <2>3 DEF ListTypeOK
<1>20. StageInv'
  <2>1. ASSUME listPc' = "list"
        PROVE  \E n \in 0..Len(KindsFor(k)) - 1 : left' = KindsLeft(k, n)
    <3>1. PICK n \in 0..Len(KindsFor(k)) - 1 : left = KindsLeft(k, n)
      BY <1>5
    <3>2. n + 1 \in 0..Len(KindsFor(k)) - 1
      <4>1. Len(left) # 1 /\ Len(left) = Len(KindsFor(k)) - n
        BY <1>1, <1>6, <2>1, <3>1
      <4> QED
        BY <1>4, <4>1
    <3>3. left' = KindsLeft(k, n + 1)
      BY <1>6, <3>1
    <3> QED
      BY <3>2, <3>3
  <2>2. listPc' \in {"pdbs", "hpas", "sort"} => left' = <<>>
    BY <1>1, <1>7
  <2> QED
    BY <1>1, <1>2, <1>30, <2>1, <2>2 DEF StageInv, k
<1>21. LabelsInv'
  <2>1. ASSUME NEW i \in 1..N + m, entries'[i].of \notin touched'
        PROVE  /\ entries'[i].of \in alive'
               /\ podLabels'[i] = IF HasPods(entries'[i].of) THEN template'[entries'[i].of] ELSE {}
    <3>1. CASE i \in 1..N
      BY <1>1, <1>12, <1>16, <2>1, <3>1 DEF ListInv, LabelsInv
    <3>2. CASE i \notin 1..N
      <4>1. PICK j \in 1..m : entries'[i] = Block(h)[j] /\ podLabels'[i] = Labels(h)[j]
        BY <1>18, <3>2
      <4> QED
        BY <1>1, <1>10, <4>1 DEF m
    <3> QED
      BY <3>1, <3>2
  <2> QED
    BY <1>15, <2>1 DEF LabelsInv, HasPods
<1>22. ListedInv'
  <2>1. ASSUME NEW w \in alive' \ touched',
               \E j \in 1..Len(KindsFor(k)) : KindsFor(k)[j] = w.kind,
               \A j \in 1..Len(left') : left'[j] # w.kind
        PROVE  \E i \in 1..N + m : entries'[i].of = w
    <3>1. CASE w.kind = h
      BY <1>1, <1>10, <1>17, <2>1, <3>1 DEF m
    <3>2. CASE w.kind # h
      <4>1. ASSUME NEW j \in 1..Len(left) PROVE left[j] # w.kind
        <5>1. CASE j = 1
          BY <1>8, <3>2, <5>1
        <5>2. CASE j # 1
          <6>1. j - 1 \in 1..Len(left') /\ (j - 1) + 1 = j
            BY <1>8, <5>2
          <6> QED
            BY <1>8, <2>1, <6>1
        <5> QED
          BY <5>1, <5>2
      <4>2. \E i \in 1..N : entries[i].of = w
        BY <1>1, <1>12, <1>30, <2>1, <4>1 DEF ListInv, ListedInv, k
      <4> QED
        BY <1>16, <4>2
    <3> QED
      BY <3>1, <3>2
  <2> QED
    BY <1>1, <1>15, <1>30, <2>1 DEF ListedInv, k
<1>23. BudgetInv'
  BY <1>1 DEF BudgetInv
<1>24. SteadyInv'
  <2> SUFFICES ASSUME touched = {}
               PROVE  /\ listPc' = "list" => \E n \in 0..Len(KindsFor(k)) - 1 :
                             /\ left' = KindsLeft(k, n)
                             /\ entries' = FirstEntries(k, n)'
                             /\ podLabels' = FirstLabels(k, n)'
                      /\ listPc' = "pdbs" => entries' = AllEntries(a)' /\ podLabels' = AllLabels(a)'
    BY <1>1, <1>30 DEF SteadyInv, k
  <2>1. PICK n \in 0..Len(KindsFor(k)) - 1 :
            /\ left = KindsLeft(k, n) /\ entries = FirstEntries(k, n)
            /\ podLabels = FirstLabels(k, n)
    BY <1>1, <1>2, <1>30 DEF ListInv, SteadyInv, k
  <2>2. entries' = FirstEntries(k, n + 1) /\ podLabels' = FirstLabels(k, n + 1)
    BY <1>2, <1>3, <1>6, <1>9, <2>1, Grows
  <2>3. /\ \A j : FirstEntries(k, j)' = FirstEntries(k, j) /\ FirstLabels(k, j)' = FirstLabels(k, j)
        /\ AllEntries(a)' = AllEntries(a) /\ AllLabels(a)' = AllLabels(a)
    BY <1>1, SameAnswer
  <2>4. Len(left) = Len(KindsFor(k)) - n /\ left' = KindsLeft(k, n + 1)
    BY <1>6, <2>1
  <2>5. CASE listPc' = "list"
    <3>1. Len(left) # 1
      BY <1>1, <2>5
    <3>2. n + 1 \in 0..Len(KindsFor(k)) - 1
      BY <1>4, <2>4, <3>1
    <3>3. entries' = FirstEntries(k, n + 1)' /\ podLabels' = FirstLabels(k, n + 1)'
      BY <2>2, <2>3
    <3> QED
      BY <2>4, <2>5, <3>2, <3>3
  <2>6. CASE listPc' = "pdbs"
    <3>1. Len(left) = 1
      BY <1>1, <2>6
    <3>2. n + 1 = Len(KindsFor(k))
      <4>1. Len(KindsFor(k)) \in Int /\ n \in Int
        BY <1>4
      <4>2. 1 = Len(KindsFor(k)) - n
        BY <2>4, <3>1, Zenon
      <4> QED
        BY <4>1, <4>2
    <3>3. entries' = AllEntries(a) /\ podLabels' = AllLabels(a)
      BY <2>2, <3>2 DEF AllEntries, AllLabels, k
    <3> QED
      BY <2>3, <2>6, <3>3
  <2>7. listPc' \in {"list", "pdbs"}
    BY <1>1
  <2> QED
    BY <2>5, <2>6, <2>7
<1>25. LastInv'
  <2>1. \A c : AnswerNow(c)' = AnswerNow(c)
    BY <1>1, SameAnswer
  <2> QED
    BY <1>1, <2>1 DEF ListInv, LastInv
<1> QED
  BY <1>19, <1>20, <1>21, <1>22, <1>23, <1>24, <1>25 DEF ListInv

\* Steps that leave the cluster alone and what the entries are of.
LEMMA OfTheSame ==
    ASSUME ListInv, UNCHANGED <<alive, template, budgets, touched, ask, left, podLabels>>,
           DOMAIN entries' = DOMAIN entries,
           \A i \in DOMAIN entries : entries'[i].of = entries[i].of,
           listPc # "idle"
    PROVE  LabelsInv' /\ ListedInv'
<1>1. LabelsInv'
  BY DEF ListInv, LabelsInv, HasPods
<1>2. ListedInv'
  BY DEF ListInv, ListedInv
<1> QED
  BY <1>1, <1>2

LEMMA ListPdbsKeeps == ASSUME ListInv, ListPdbs PROVE ListInv'
<1>1. /\ listPc = "pdbs" /\ listPc' = IF ask.hpas THEN "hpas" ELSE "sort"
      /\ entries' = [i \in DOMAIN entries |-> [entries[i] EXCEPT !.pdbs = Attached(i)]]
      /\ unmatched' = budgets \ UNION {Attached(i) : i \in DOMAIN entries}
      /\ UNCHANGED <<alive, template, budgets, listEdits, ask, left, podLabels, touched, whole, last>>
  BY DEF ListPdbs, workloadsThere, Unclaimed
<1>2. ListTypeOK /\ whole /\ ask \in Calls /\ left = <<>>
  BY <1>1 DEF ListInv, StageInv, ListTypeOK, Calls
<1>3. entries \in Seq(WorkloadEntry) /\ DOMAIN entries = 1..Len(entries) /\ Len(entries) \in Nat
  BY <1>2, LenProperties DEF ListTypeOK
<1>4. \A i : Attached(i) \in SUBSET Budgets
  BY <1>2 DEF Attached, ListTypeOK
<1>5. ASSUME NEW i \in DOMAIN entries
      PROVE  entries'[i] \in WorkloadEntry /\ entries'[i].of = entries[i].of
             /\ entries'[i].pdbs = Attached(i)
  <2>1. entries[i] \in WorkloadEntry
    BY <1>3, ElementOfSeq
  <2>2. entries'[i] = [entries[i] EXCEPT !.pdbs = Attached(i)]
    BY <1>1
  <2>3. Attached(i) \in SUBSET Budgets
    BY <1>4
  <2> HIDE DEF WorkloadEntry
  <2> DEFINE e == entries[i]
             A == Attached(i)
  <2>4. e \in WorkloadEntry /\ entries'[i] = [e EXCEPT !.pdbs = A] /\ A \in SUBSET Budgets
    BY <2>1, <2>2, <2>3
  <2> HIDE DEF e, A
  <2>5. entries'[i] \in WorkloadEntry /\ entries'[i].of = e.of /\ entries'[i].pdbs = A
    BY <2>4 DEF WorkloadEntry
  <2> QED
    BY <2>5 DEF e, A
<1>6. DOMAIN entries' = DOMAIN entries
  BY <1>1
<1>7. entries' \in Seq(WorkloadEntry) /\ Len(entries') = Len(entries)
  <2>1. entries' \in [1..Len(entries) -> WorkloadEntry]
    BY <1>1, <1>3, <1>5
  <2> QED
    BY <1>3, <2>1
<1>8. ListTypeOK'
  <2>1. /\ alive \subseteq Workloads /\ template \in [Workloads -> Templates] /\ budgets \subseteq Budgets
        /\ listEdits \in 0..MaxListEdits /\ ask \in [kind : {"all"} \cup AllKinds, hpas : BOOLEAN]
        /\ left \in Seq(AllKinds) /\ podLabels \in Seq(SUBSET Nat) /\ Len(podLabels) = Len(entries)
        /\ touched \subseteq Workloads \cup Budgets /\ whole \in BOOLEAN
    BY <1>2 DEF ListTypeOK
  <2>2. unmatched' \subseteq Budgets
    BY <1>1, <2>1
  <2> QED
    BY <1>1, <1>7, <2>1, <2>2 DEF ListTypeOK
<1>9. LabelsInv' /\ ListedInv'
  BY <1>1, <1>5, <1>6, OfTheSame
<1>10. StageInv'
  BY <1>1, <1>2 DEF StageInv
<1>11. BudgetInv'
  <2>1. ASSUME NEW b \in budgets, NEW i \in DOMAIN entries
        PROVE  b \in Attached(i) <=> Matches(b, entries[i].of, podLabels[i])
    BY DEF Attached
  <2>2. ASSUME NEW b \in budgets
        PROVE  b \in unmatched' <=> \A i \in DOMAIN entries : ~Matches(b, entries[i].of, podLabels[i])
    BY <1>1, <2>1
  <2> QED
    BY <1>1, <1>5, <1>6, <2>1, <2>2 DEF BudgetInv, Matches
<1>12. SteadyInv'
  <2> SUFFICES ASSUME touched = {}, NEW a \in Calls, ask = a
               PROVE  /\ podLabels' = AllLabels(a)'
                      /\ entries' = WithBudgets(a)'
                      /\ entries' = WithScalers(a)' \/ a.hpas
                      /\ unmatched' = BudgetsOfNone(a)'
    BY <1>1 DEF SteadyInv
  <2>1. entries = AllEntries(a) /\ podLabels = AllLabels(a)
    BY <1>1, <1>2 DEF ListInv, SteadyInv
  <2>2. \A i : Attached(i) = BudgetsOf(a, i)
    BY <2>1 DEF Attached, BudgetsOf
  <2>3. entries' = WithBudgets(a)
    BY <1>1, <2>1, <2>2 DEF WithBudgets
  <2>4. unmatched' = BudgetsOfNone(a)
    BY <1>1, <2>1, <2>2 DEF BudgetsOfNone
  <2>5. ~a.hpas => WithScalers(a) = WithBudgets(a)
    BY DEF WithScalers
  <2>6. /\ AllLabels(a)' = AllLabels(a) /\ WithBudgets(a)' = WithBudgets(a)
        /\ WithScalers(a)' = WithScalers(a) /\ BudgetsOfNone(a)' = BudgetsOfNone(a)
    BY <1>1, SameAnswer
  <2> QED
    BY <1>1, <2>1, <2>3, <2>4, <2>5, <2>6
<1>13. LastInv'
  <2>1. \A a : AnswerNow(a)' = AnswerNow(a)
    BY <1>1, SameAnswer
  <2> QED
    BY <1>1, <2>1 DEF ListInv, LastInv
<1> QED
  BY <1>8, <1>9, <1>10, <1>11, <1>12, <1>13 DEF ListInv

LEMMA ListHpasKeeps == ASSUME ListInv, ListHpas PROVE ListInv'
<1>1. /\ listPc = "hpas" /\ listPc' = "sort"
      /\ entries' = [i \in DOMAIN entries |-> [entries[i] EXCEPT !.hpa = entries[i].of = Scaled]]
      /\ UNCHANGED <<alive, template, budgets, listEdits, ask, left, podLabels, unmatched,
                     touched, whole, last>>
  BY DEF ListHpas, workloadsThere
<1>2. ListTypeOK /\ ask \in Calls /\ left = <<>> /\ ask.hpas
  BY <1>1 DEF ListInv, StageInv, ListTypeOK, Calls
<1>3. entries \in Seq(WorkloadEntry) /\ DOMAIN entries = 1..Len(entries) /\ Len(entries) \in Nat
  BY <1>2, LenProperties DEF ListTypeOK
<1>4. ASSUME NEW i \in DOMAIN entries
      PROVE  entries'[i] \in WorkloadEntry /\ entries'[i].of = entries[i].of
             /\ entries'[i].pdbs = entries[i].pdbs
  <2>1. entries[i] \in WorkloadEntry
    BY <1>3, ElementOfSeq
  <2>2. entries'[i] = [entries[i] EXCEPT !.hpa = entries[i].of = Scaled]
    BY <1>1
  <2>3. (entries[i].of = Scaled) \in BOOLEAN
    OBVIOUS
  <2> QED
    BY <2>1, <2>2, <2>3 DEF WorkloadEntry
<1>5. DOMAIN entries' = DOMAIN entries
  BY <1>1
<1>6. entries' \in Seq(WorkloadEntry) /\ Len(entries') = Len(entries)
  <2>1. entries' \in [1..Len(entries) -> WorkloadEntry]
    BY <1>1, <1>3, <1>4
  <2> QED
    BY <1>3, <2>1
<1>7. ListTypeOK'
  BY <1>1, <1>2, <1>6 DEF ListTypeOK
<1>8. LabelsInv' /\ ListedInv'
  BY <1>1, <1>4, <1>5, OfTheSame
<1>9. StageInv'
  BY <1>1, <1>2 DEF StageInv
<1>10. BudgetInv'
  <2>1. whole => \A b \in budgets \ touched :
            /\ \A i \in DOMAIN entries :
                   b \in entries[i].pdbs <=> Matches(b, entries[i].of, podLabels[i])
            /\ b \in unmatched <=> \A i \in DOMAIN entries : ~Matches(b, entries[i].of, podLabels[i])
    BY <1>1 DEF ListInv, BudgetInv
  <2> QED
    <3>1. ASSUME whole, NEW b \in budgets \ touched
          PROVE  /\ \A i \in DOMAIN entries :
                        b \in entries'[i].pdbs <=> Matches(b, entries'[i].of, podLabels[i])
                 /\ b \in unmatched
                        <=> \A i \in DOMAIN entries : ~Matches(b, entries'[i].of, podLabels[i])
      BY <1>4, <2>1, <3>1
    <3>2. UNCHANGED <<budgets, touched, whole, unmatched, podLabels>>
      BY <1>1
    <3> QED
      BY <1>5, <3>1, <3>2 DEF BudgetInv, Matches
<1>11. SteadyInv'
  <2> SUFFICES ASSUME whole, touched = {}, NEW a \in Calls, ask = a
               PROVE  /\ podLabels' = AllLabels(a)'
                      /\ entries' = WithScalers(a)'
                      /\ unmatched' = BudgetsOfNone(a)'
    BY <1>1 DEF SteadyInv
  <2>1. entries = WithBudgets(a) /\ podLabels = AllLabels(a) /\ unmatched = BudgetsOfNone(a)
    BY <1>1 DEF ListInv, SteadyInv
  <2>2. entries' = WithScalers(a)
    BY <1>1, <1>2, <2>1 DEF WithScalers
  <2>3. /\ AllLabels(a)' = AllLabels(a)
        /\ WithScalers(a)' = WithScalers(a) /\ BudgetsOfNone(a)' = BudgetsOfNone(a)
    BY <1>1, SameAnswer
  <2> QED
    BY <1>1, <2>1, <2>2, <2>3
<1>12. LastInv'
  <2>1. \A a : AnswerNow(a)' = AnswerNow(a)
    BY <1>1, SameAnswer
  <2> QED
    BY <1>1, <2>1 DEF ListInv, LastInv
<1> QED
  BY <1>7, <1>8, <1>9, <1>10, <1>11, <1>12 DEF ListInv

\* Others may edit the cluster: what they touch is out of the call's reach.
LEMMA ListEditKeeps ==
    ASSUME ListInv, NEW x \in Workloads \cup Budgets, ListEdit(x),
           alive' \subseteq Workloads, template' \in [Workloads -> Templates], budgets' \subseteq Budgets,
           \A w \in Workloads : w # x => (w \in alive' <=> w \in alive) /\ template'[w] = template[w],
           \A b \in Budgets : b # x => (b \in budgets' <=> b \in budgets)
    PROVE  ListInv'
<1>1. /\ listEdits' \in 0..MaxListEdits /\ last' = NoAnswer
      /\ touched' = IF listPc = "idle" THEN {} ELSE touched \cup {x}
      /\ UNCHANGED <<listPc, ask, left, entries, podLabels, unmatched, whole>>
  BY ListAssumption DEF ListEdit, listCall, ListInv, ListTypeOK
<1>2. ListTypeOK
  BY DEF ListInv
<1>3. ListTypeOK'
  BY <1>1, <1>2 DEF ListTypeOK
<1>4. StageInv'
  BY <1>1 DEF ListInv, StageInv
<1>5. LastInv'
  BY <1>1 DEF LastInv, NoAnswer, Calls, AllKinds
<1>6. entries \in Seq(WorkloadEntry)
  BY <1>2 DEF ListTypeOK
<1>7. ASSUME NEW i \in DOMAIN entries PROVE entries[i].of \in Workloads
  <2>1. entries[i] \in WorkloadEntry
    BY <1>6, LenProperties, ElementOfSeq
  <2> QED
    BY <2>1 DEF WorkloadEntry
<1>8. CASE listPc = "idle"
  <2>1. entries = <<>> /\ DOMAIN entries = {}
    BY <1>8 DEF ListInv, StageInv
  <2> QED
    BY <1>1, <1>3, <1>4, <1>5, <1>8, <2>1
       DEF ListInv, LabelsInv, ListedInv, BudgetInv, SteadyInv
<1>9. CASE listPc # "idle"
  <2>1. touched' = touched \cup {x}
    BY <1>1, <1>9
  <2>2. LabelsInv'
    BY <1>1, <1>7, <2>1 DEF ListInv, LabelsInv, HasPods
  <2>3. ListedInv'
    <3>1. \A w \in alive' \ touched' : w \in alive \ touched
      BY <2>1
    <3> QED
      BY <1>1, <3>1 DEF ListInv, ListedInv
  <2>4. BudgetInv'
    <3>1. \A b \in budgets' \ touched' : b \in budgets \ touched
      BY <2>1
    <3> QED
      BY <1>1, <3>1 DEF ListInv, BudgetInv, Matches
  <2>5. SteadyInv'
    BY <2>1 DEF SteadyInv
  <2> QED
    BY <1>3, <1>4, <1>5, <2>2, <2>3, <2>4, <2>5 DEF ListInv
<1> QED
  BY <1>8, <1>9

\* A call begins with nothing, and forgets everything when it ends.
LEMMA ListEndsKeeps ==
    ASSUME ListInv, ListEnds, LastInv'
    PROVE  ListInv'
<1>1. /\ listPc' = "idle" /\ ask' = EveryKind /\ left' = <<>> /\ entries' = <<>> /\ podLabels' = <<>>
      /\ unmatched' = {} /\ touched' = {} /\ whole' = TRUE
      /\ UNCHANGED <<alive, template, budgets, listEdits>>
  BY DEF ListEnds, workloadsThere
<1>2. ask' \in [kind : {"all"} \cup AllKinds, hpas : BOOLEAN]
  BY <1>1 DEF EveryKind
<1>3. left' \in Seq(AllKinds) /\ entries' \in Seq(WorkloadEntry) /\ podLabels' \in Seq(SUBSET Nat)
      /\ Len(podLabels') = Len(entries') /\ DOMAIN entries' = {}
  BY <1>1
<1>4. ListTypeOK'
  BY <1>1, <1>2, <1>3 DEF ListInv, ListTypeOK
<1>5. StageInv' /\ LabelsInv' /\ ListedInv' /\ BudgetInv' /\ SteadyInv'
  BY <1>1, <1>3 DEF StageInv, LabelsInv, ListedInv, BudgetInv, SteadyInv
<1> QED
  BY <1>4, <1>5 DEF ListInv

LEMMA FinishKeeps == ASSUME ListInv, Finish PROVE ListInv'
<1>1. /\ listPc = "sort" /\ UNCHANGED <<alive, template, budgets>>
      /\ last' = IF whole /\ touched = {} THEN ListAnswer ELSE NoAnswer
      /\ ListEnds
  BY DEF Finish, ListEnds, workloadsThere
<1>2. ASSUME NEW a \in Calls, last'.ask = a PROVE last' = AnswerNow(a)'
  <2>1. CASE whole /\ touched = {}
    <3>1. last' = ListAnswer /\ ask = a
      BY <1>1, <1>2, <2>1 DEF ListAnswer
    <3>2. entries = WithScalers(a) /\ unmatched = BudgetsOfNone(a)
      BY <1>1, <2>1, <3>1 DEF ListInv, SteadyInv
    <3>3. last' = AnswerNow(a)
      BY <3>1, <3>2 DEF ListAnswer, AnswerNow
    <3> QED
      BY <1>1, <3>3, SameAnswer
  <2>2. CASE ~(whole /\ touched = {})
    BY <1>1, <1>2, <2>2 DEF NoAnswer, Calls, AllKinds
  <2> QED
    BY <2>1, <2>2
<1>3. LastInv'
  BY <1>2 DEF LastInv
<1> QED
  BY <1>1, <1>3, ListEndsKeeps

LEMMA AskKeeps == ASSUME ListInv, AskWorkloads PROVE ListInv'
<1>1. /\ listPc = "idle" /\ ask' \in Asks /\ left' = KindsFor(ask'.kind) /\ listPc' = "list"
      /\ UNCHANGED <<alive, template, budgets, listEdits, entries, podLabels, unmatched,
                     touched, whole, last>>
  BY DEF AskWorkloads, workloadsThere
<1>2. PICK a \in Calls : ask' = a
  BY <1>1, ListAssumption DEF Calls
<1>3. /\ ListTypeOK /\ entries = <<>> /\ podLabels = <<>> /\ touched = {} /\ whole
  BY <1>1 DEF ListInv, StageInv
<1> DEFINE k == a.kind
<1>4. k \in {"all"} \cup AllKinds
  BY DEF Calls
<1>5. left' = KindsFor(k)
  BY <1>1, <1>2
<1> HIDE DEF k
<1>6. /\ KindsFor(k) \in Seq(AllKinds) /\ Len(KindsFor(k)) \in 1..4
      /\ DOMAIN KindsFor(k) = 1..Len(KindsFor(k))
      /\ KindsLeft(k, 0) = KindsFor(k) /\ 0 \in 0..Len(KindsFor(k)) - 1
  BY <1>4, KindsAre, KindsGo
<1>7. /\ FirstEntries(k, 0) = <<>> /\ FirstLabels(k, 0) = <<>>
  BY <1>3, <1>4, <1>6, Grows
<1>8. ListTypeOK'
  BY <1>1, <1>2, <1>3, <1>5, <1>6 DEF ListTypeOK, Calls
<1>9. StageInv'
  BY <1>1, <1>2, <1>3, <1>5, <1>6 DEF StageInv, k
<1>10. DOMAIN entries' = {}
  BY <1>1, <1>3
<1>11. LabelsInv' /\ BudgetInv'
  BY <1>1, <1>10 DEF LabelsInv, BudgetInv
<1>12. ListedInv'
  BY <1>2, <1>5 DEF ListedInv, k
<1>13. SteadyInv'
  <2>1. FirstEntries(k, 0)' = <<>> /\ FirstLabels(k, 0)' = <<>>
    BY <1>1, <1>7, SameAnswer
  <2> QED
    BY <1>1, <1>2, <1>3, <1>5, <1>6, <2>1 DEF SteadyInv, k
<1>14. LastInv'
  <2>1. \A c : AnswerNow(c)' = AnswerNow(c)
    BY <1>1, SameAnswer
  <2> QED
    BY <1>1, <2>1 DEF ListInv, LastInv
<1> QED
  BY <1>8, <1>9, <1>11, <1>12, <1>13, <1>14 DEF ListInv

\* Without budgets or autoscalers: the answer is not whole any more.
LEMMA BestEffortKeeps == ASSUME ListInv, BestEffortFails PROVE ListInv'
<1>1. /\ listPc \in {"pdbs", "hpas"} /\ whole' = FALSE
      /\ listPc' = IF listPc = "pdbs" /\ ask.hpas THEN "hpas" ELSE "sort"
      /\ UNCHANGED <<alive, template, budgets, listEdits, ask, left, entries, podLabels, unmatched,
                     touched, last>>
  BY DEF BestEffortFails, workloadsThere
<1>2. ListTypeOK /\ left = <<>>
  BY <1>1 DEF ListInv, StageInv
<1>3. ListTypeOK'
  BY <1>1, <1>2 DEF ListTypeOK
<1>4. StageInv'
  BY <1>1, <1>2 DEF StageInv
<1>5. LabelsInv' /\ ListedInv'
  BY <1>1, OfTheSame
<1>6. BudgetInv' /\ SteadyInv'
  BY <1>1 DEF BudgetInv, SteadyInv
<1>7. LastInv'
  <2>1. \A a : AnswerNow(a)' = AnswerNow(a)
    BY <1>1, SameAnswer
  <2> QED
    BY <1>1, <2>1 DEF ListInv, LastInv
<1> QED
  BY <1>3, <1>4, <1>5, <1>6, <1>7 DEF ListInv

LEMMA ListKeeps == ListInv /\ [ListNext]_listVars => ListInv'
<1> SUFFICES ASSUME ListInv, [ListNext]_listVars PROVE ListInv'
  OBVIOUS
<1>1. /\ alive \subseteq Workloads /\ template \in [Workloads -> Templates] /\ budgets \subseteq Budgets
  BY DEF ListInv, ListTypeOK
<1>2. CASE ListKindFails
  <2>1. ListEnds /\ last' = last /\ UNCHANGED <<alive, template, budgets>>
    BY <1>2 DEF ListKindFails, ListEnds, workloadsThere
  <2>2. \A a : AnswerNow(a)' = AnswerNow(a)
    BY <2>1, SameAnswer
  <2>3. LastInv'
    BY <2>1, <2>2 DEF ListInv, LastInv
  <2> QED
    BY <2>1, <2>3, ListEndsKeeps
<1>3. ASSUME NEW w \in Workloads, WorkloadComesOrGoes(w) PROVE ListInv'
  <2>1. /\ alive' = IF w \in alive THEN alive \ {w} ELSE alive \cup {w}
        /\ ListEdit(w) /\ UNCHANGED <<template, budgets>>
    BY <1>3 DEF WorkloadComesOrGoes
  <2>2. alive' \subseteq Workloads /\ \A v \in Workloads : v # w => (v \in alive' <=> v \in alive)
    BY <1>1, <2>1
  <2> QED
    BY <1>1, <2>1, <2>2, ListEditKeeps
<1>4. ASSUME NEW w \in Workloads, Relabel(w) PROVE ListInv'
  <2>1. PICK t \in Templates : template' = [template EXCEPT ![w] = t]
    BY <1>4 DEF Relabel
  <2>2. ListEdit(w) /\ UNCHANGED <<alive, budgets>>
    BY <1>4 DEF Relabel
  <2>3. /\ template' \in [Workloads -> Templates]
        /\ \A v \in Workloads : v # w => template'[v] = template[v]
    BY <1>1, <2>1
  <2> QED
    BY <1>1, <2>2, <2>3, ListEditKeeps
<1>5. ASSUME NEW b \in Budgets, EditBudget(b) PROVE ListInv'
  <2>1. /\ budgets' = IF b \in budgets THEN budgets \ {b} ELSE budgets \cup {b}
        /\ ListEdit(b) /\ UNCHANGED <<alive, template>>
    BY <1>5 DEF EditBudget
  <2>2. budgets' \subseteq Budgets /\ \A c \in Budgets : c # b => (c \in budgets' <=> c \in budgets)
    BY <1>1, <2>1
  <2> QED
    BY <1>1, <2>1, <2>2, ListEditKeeps
<1>6. CASE UNCHANGED listVars
  <2>1. UNCHANGED <<alive, template, budgets, listEdits, listPc, ask, left, entries, podLabels,
                    unmatched, touched, whole, last>>
    BY <1>6 DEF listVars, workloadsThere, listCall
  <2>2. ListTypeOK' /\ StageInv' /\ LabelsInv' /\ ListedInv' /\ BudgetInv'
    BY <2>1 DEF ListInv, ListTypeOK, StageInv, LabelsInv, ListedInv, BudgetInv, HasPods, Matches
  <2>3. /\ \A k, n : FirstEntries(k, n)' = FirstEntries(k, n)
                     /\ FirstLabels(k, n)' = FirstLabels(k, n)
        /\ \A a : /\ AllEntries(a)' = AllEntries(a) /\ AllLabels(a)' = AllLabels(a)
                  /\ WithBudgets(a)' = WithBudgets(a) /\ WithScalers(a)' = WithScalers(a)
                  /\ BudgetsOfNone(a)' = BudgetsOfNone(a) /\ AnswerNow(a)' = AnswerNow(a)
    BY <2>1, SameAnswer
  <2>4. SteadyInv' /\ LastInv'
    BY <2>1, <2>3 DEF ListInv, SteadyInv, LastInv
  <2> QED
    BY <2>2, <2>4 DEF ListInv
<1> QED
  BY <1>2, <1>3, <1>4, <1>5, <1>6, AskKeeps, ListKindKeeps, ListPdbsKeeps, ListHpasKeeps,
     BestEffortKeeps, FinishKeeps DEF ListNext

LEMMA BudgetsAreExact == ListInv => BudgetsExact
<1> SUFFICES ASSUME ListInv, listPc = "sort", whole, NEW i \in DOMAIN entries, NEW b \in budgets,
                    entries[i].of \notin touched, b \notin touched
             PROVE  b \in entries[i].pdbs <=> Selects(b, entries[i].of)
  BY DEF BudgetsExact, Answered
<1>1. b \in entries[i].pdbs <=> Matches(b, entries[i].of, podLabels[i])
  BY DEF ListInv, BudgetInv
<1>2. podLabels[i] = IF HasPods(entries[i].of) THEN template[entries[i].of] ELSE {}
  BY DEF ListInv, LabelsInv
<1> QED
  BY <1>1, <1>2 DEF Matches, Selects

LEMMA UnmatchedAreSo == ListInv => UnmatchedSelectNothing
<1> SUFFICES ASSUME ListInv, listPc = "sort", whole, ask.kind = "all", NEW b \in budgets \ touched
             PROVE  /\ b \in unmatched => \A w \in alive \ touched : ~Selects(b, w)
                    /\ touched = {} /\ b \notin unmatched => \E w \in alive : Selects(b, w)
  BY DEF UnmatchedSelectNothing, Answered
<1>1. b \in unmatched <=> \A i \in DOMAIN entries : ~Matches(b, entries[i].of, podLabels[i])
  BY DEF ListInv, BudgetInv
<1>2. ASSUME NEW i \in DOMAIN entries, entries[i].of \notin touched
      PROVE  entries[i].of \in alive /\ (Matches(b, entries[i].of, podLabels[i])
                                           <=> Selects(b, entries[i].of))
  BY <1>2 DEF ListInv, LabelsInv, Matches, Selects
<1>3. ASSUME NEW w \in alive \ touched, Selects(b, w)
      PROVE  \E i \in DOMAIN entries : entries[i].of = w
  <2>1. PICK a \in Calls : ask = a
    BY DEF ListInv, ListTypeOK, Calls
  <2>2. w.kind \in AllKinds /\ w.kind \notin {"CronJob", "Job"}
    BY <1>3, ListAssumption DEF ListInv, ListTypeOK, Selects, HasPods
  <2>3. /\ KindsFor(a.kind)[1] = "Deployment" /\ KindsFor(a.kind)[2] = "StatefulSet"
        /\ KindsFor(a.kind)[3] = "DaemonSet" /\ Len(KindsFor(a.kind)) = 4
    BY <2>1 DEF KindsFor, WorkloadKinds
  <2>4. \E j \in 1..Len(KindsFor(a.kind)) : KindsFor(a.kind)[j] = w.kind
    BY <2>2, <2>3 DEF AllKinds
  <2>5. left = <<>> /\ Len(left) = 0
    BY DEF ListInv, StageInv
  <2> QED
    BY <2>1, <2>4, <2>5 DEF ListInv, ListedInv
<1>4. ASSUME b \in unmatched, NEW w \in alive \ touched, Selects(b, w) PROVE FALSE
  BY <1>1, <1>2, <1>3, <1>4
<1>5. ASSUME touched = {}, b \notin unmatched PROVE \E w \in alive : Selects(b, w)
  BY <1>1, <1>2, <1>5
<1> QED
  BY <1>4, <1>5

LEMMA PollsDoAgree == ListInv => PollsAgree
<1> SUFFICES ASSUME ListInv, listPc = "sort", whole, touched = {}, last.ask = ask
             PROVE  ListAnswer = last
  BY DEF PollsAgree, Answered
<1>1. PICK a \in Calls : ask = a
  BY DEF ListInv, ListTypeOK, Calls
<1>2. entries = WithScalers(a) /\ unmatched = BudgetsOfNone(a)
  BY <1>1 DEF ListInv, SteadyInv
<1>3. last = AnswerNow(a)
  BY <1>1 DEF ListInv, LastInv
<1> QED
  BY <1>1, <1>2, <1>3 DEF ListAnswer, AnswerNow

-----------------------------------------------------------------------------
(* list_pods *)

\* Owners are looked up by keys that tell the ReplicaSets in question apart.
Alone == task = "list_pods" \/ scope # PodNamespaces

\* Such a ReplicaSet, unless it was edited, is in the map if it has a controller.
OwnerInv ==
    /\ OwnerTypeOK
    /\ ownerPc = "idle" => listed = {} /\ setsTouched = {}
    /\ \A p \in listed : p.ns \in scope
    /\ ownerPc \in {"usage", "answer"} /\ Alone =>
         \A k \in SetKeys \ setsTouched : k[1] \in scope =>
            LET key == rsOwnerKey(task, k[1], k[2])
            IN  /\ key \in DOMAIN owners <=> k \in DOMAIN sets /\ sets[k] # NoOwner
                /\ key \in DOMAIN owners => owners[key] = sets[k]

LEMMA OwnerBegins == OwnerInit => OwnerInv
<1> SUFFICES ASSUME OwnerInit PROVE OwnerInv
  OBVIOUS
<1>1. PodNamespaces \in Scopes
  BY DEF Scopes
<1>2. owners \in [DOMAIN owners -> Owners]
  BY DEF OwnerInit, NoMap
<1>3. sets \in [SetKeys -> Owners \cup {NoOwner}] /\ DOMAIN sets = SetKeys
  BY DEF OwnerInit
<1> QED
  BY <1>1, <1>2, <1>3, OwnerAssumption DEF OwnerInit, OwnerInv, OwnerTypeOK

\* Of several ReplicaSets one is listed last, and of one it is that one.
LEMMA LastIsOne ==
    ASSUME NEW K \in SUBSET SetKeys, K # {}
    PROVE  LastListed(K) \in K
<1> DEFINE before == {d \in K \X K : d[1][1] < d[2][1] \/ (d[1][1] = d[2][1] /\ d[1][2] < d[2][2])}
<1>1. IsFiniteSet(SetKeys)
  BY OwnerAssumption, FS_Product DEF SetKeys
<1>2. IsFiniteSet(K)
  BY <1>1, FS_Subset
<1>3. ASSUME NEW j \in K PROVE j[1] \in Nat /\ j[2] \in Nat /\ j = <<j[1], j[2]>>
  <2> HIDE DEF before
  <2>1. PICK n \in PodNamespaces, m \in SetNames : j = <<n, m>>
    BY DEF SetKeys
  <2>2. n \in Nat /\ m \in Nat
    BY OwnerAssumption
  <2>3. j[1] = n /\ j[2] = m
    BY <2>1
  <2> QED
    BY <2>1, <2>2, <2>3, Zenon
<1>4. ASSUME NEW j \in K, NEW k \in K
      PROVE  <<j, k>> \in before <=> j[1] < k[1] \/ (j[1] = k[1] /\ j[2] < k[2])
  OBVIOUS
<1>5. LastListed(K) = InOrder(K, before)[Cardinality(K)]
  BY DEF LastListed
<1> HIDE DEF before
<1>6. Strict(K, before)
  <2>1. ASSUME NEW x \in K, NEW y \in K, NEW z \in K, <<x, y>> \in before, <<y, z>> \in before
        PROVE  <<x, z>> \in before
    BY <1>3, <1>4, <2>1
  <2>2. \A x \in K : <<x, x>> \notin before
    BY <1>3, <1>4
  <2>3. ASSUME NEW x \in K, NEW y \in K, x # y PROVE <<x, y>> \in before \/ <<y, x>> \in before
    <3>1. x[1] # y[1] \/ x[2] # y[2]
      BY <1>3, <2>3
    <3> QED
      BY <1>3, <1>4, <3>1
  <2> QED
    BY <2>1, <2>2, <2>3 DEF Strict
<1>7. Cardinality(K) \in Nat /\ InOrder(K, before) \in [1..Cardinality(K) -> K]
  BY <1>2, <1>6, Ordered
<1>8. Cardinality(K) # 0
  BY <1>2, FS_EmptySet
<1>9. Cardinality(K) \in 1..Cardinality(K)
  BY <1>7, <1>8
<1> QED
  BY <1>5, <1>7, <1>9

\* resolveReplicaSetOwners
LEMMA ListSetsKeeps == ASSUME OwnerInv, ListSets PROVE OwnerInv'
<1>1. /\ DOMAIN sets \subseteq SetKeys /\ sets \in [DOMAIN sets -> Owners \cup {NoOwner}]
      /\ scope \in Scopes /\ task \in {"list_pods", "cluster_health"}
  BY DEF OwnerInv, OwnerTypeOK
<1> DEFINE key(k) == rsOwnerKey(task, k[1], k[2])
<1>2. /\ owners' = [x \in {key(k) : k \in Controlled} |-> sets[LastListed(WithKey(x))]]
      /\ UNCHANGED <<pods, sets, setEdits, task, scope, listed, measured, setsTouched>>
      /\ ownerPc' \in {"usage", "answer"}
  BY DEF ListSets, ownersThere
<1>3. /\ Controlled \subseteq DOMAIN sets
      /\ \A k \in Controlled : k[1] \in scope /\ sets[k] \in Owners
  BY <1>1 DEF Controlled
<1>4. DOMAIN owners' = {key(k) : k \in Controlled}
  BY <1>2
<1>5. ASSUME NEW x \in {key(k) : k \in Controlled}
      PROVE  LastListed(WithKey(x)) \in WithKey(x) /\ WithKey(x) \subseteq Controlled
  <2>1. WithKey(x) # {} /\ WithKey(x) \subseteq Controlled
    BY DEF WithKey
  <2>2. WithKey(x) \in SUBSET SetKeys
    BY <1>1, <1>3, <2>1
  <2> QED
    BY <2>1, <2>2, LastIsOne
<1>6. owners' \in [DOMAIN owners' -> Owners]
  <2>1. \A x \in {key(k) : k \in Controlled} : sets[LastListed(WithKey(x))] \in Owners
    BY <1>3, <1>5
  <2> QED
    BY <1>2, <1>4, <2>1
<1>7. OwnerTypeOK'
  BY <1>2, <1>6 DEF OwnerInv, OwnerTypeOK
<1>8. ASSUME Alone, NEW k \in SetKeys, k[1] \in scope
      PROVE  /\ key(k) \in DOMAIN owners' <=> k \in DOMAIN sets /\ sets[k] # NoOwner
             /\ key(k) \in DOMAIN owners' => owners'[key(k)] = sets[k]
  <2>1. ASSUME NEW j \in Controlled, key(j) = key(k) PROVE j = k
    <3>1. j \in SetKeys /\ j[1] \in scope
      BY <1>1, <1>3
    <3>2. j = <<j[1], j[2]>> /\ k = <<k[1], k[2]>>
      BY <3>1 DEF SetKeys
    <3>3. j[2] = k[2]
      BY <2>1 DEF rsOwnerKey
    <3>4. j[1] = k[1]
      <4>1. CASE task = "list_pods"
        BY <2>1, <4>1 DEF rsOwnerKey
      <4>2. CASE scope # PodNamespaces
        BY <1>1, <1>8, <3>1, <4>2 DEF Scopes
      <4> QED
        BY <1>8, <4>1, <4>2 DEF Alone
    <3> QED
      BY <3>2, <3>3, <3>4
  <2>2. k \in Controlled <=> k \in DOMAIN sets /\ sets[k] # NoOwner
    BY <1>8 DEF Controlled
  <2>3. key(k) \in DOMAIN owners' <=> k \in Controlled
    BY <1>4, <2>1
  <2>4. ASSUME key(k) \in DOMAIN owners' PROVE owners'[key(k)] = sets[k]
    <3>1. LastListed(WithKey(key(k))) = k
      BY <1>4, <1>5, <2>1, <2>4 DEF WithKey
    <3> QED
      BY <1>2, <1>4, <2>4, <3>1
  <2> QED
    BY <2>2, <2>3, <2>4
<1>9. ownerPc' # "idle" /\ (\A p \in listed : p.ns \in scope)'
  BY <1>2 DEF OwnerInv
<1>10. Alone' <=> Alone
  BY <1>2 DEF Alone
<1>11. ASSUME Alone', NEW k \in SetKeys \ setsTouched', k[1] \in scope'
       PROVE  LET x == rsOwnerKey(task', k[1], k[2])
              IN  /\ x \in DOMAIN owners' <=> k \in DOMAIN sets' /\ sets'[k] # NoOwner
                  /\ x \in DOMAIN owners' => owners'[x] = sets'[k]
  BY <1>2, <1>8, <1>10, <1>11
<1> QED
  BY <1>7, <1>9, <1>11 DEF OwnerInv

LEMMA OwnerKeeps == OwnerInv /\ [OwnerNext]_ownerVars => OwnerInv'
<1> SUFFICES ASSUME OwnerInv, [OwnerNext]_ownerVars PROVE OwnerInv'
  OBVIOUS
<1>1. CASE ListPods
  <2>1. {p \in pods : p.ns \in scope'} \subseteq OwnedPods
    BY DEF OwnerInv, OwnerTypeOK
  <2>2. /\ scope' \in Scopes /\ task' \in {"list_pods", "cluster_health"} /\ ownerPc' = "sets"
        /\ listed' = {p \in pods : p.ns \in scope'}
        /\ UNCHANGED <<pods, sets, setEdits, owners, measured, setsTouched>>
    BY <1>1 DEF ListPods, ownersThere
  <2> QED
    BY <2>1, <2>2 DEF OwnerInv, OwnerTypeOK
<1>2. CASE ReadUsage
  <2>1. /\ measured' \in {pods, {}} /\ ownerPc = "usage" /\ ownerPc' = "answer"
        /\ UNCHANGED <<pods, sets, setEdits, task, scope, listed, owners, setsTouched>>
    BY <1>2 DEF ReadUsage, ownersThere
  <2> QED
    BY <2>1 DEF OwnerInv, OwnerTypeOK, Alone
<1>3. CASE ListSetsFails \/ AnswerPods
  <2>1. /\ ownerPc' = "idle" /\ task' = "list_pods" /\ scope' = PodNamespaces /\ listed' = {}
        /\ owners' = NoMap /\ measured' = {} /\ setsTouched' = {}
        /\ UNCHANGED <<pods, sets, setEdits>>
    BY <1>3 DEF ListSetsFails, AnswerPods, OwnersEnd, ownersThere
  <2>2. PodNamespaces \in Scopes /\ NoMap \in [DOMAIN NoMap -> Owners]
    BY DEF Scopes, NoMap
  <2> QED
    BY <2>1, <2>2 DEF OwnerInv, OwnerTypeOK
<1>4. ASSUME NEW K \in SUBSET SetKeys, SetEdit(K), pods' \subseteq OwnedPods,
             DOMAIN sets' \subseteq SetKeys, sets' \in [DOMAIN sets' -> Owners \cup {NoOwner}],
             \A k \in SetKeys \ K : /\ k \in DOMAIN sets' <=> k \in DOMAIN sets
                                    /\ k \in DOMAIN sets => sets'[k] = sets[k]
      PROVE  OwnerInv'
  <2>1. /\ setEdits' \in 0..MaxSetEdits
        /\ UNCHANGED <<ownerPc, task, scope, listed, owners, measured>>
        /\ setsTouched' = IF ownerPc = "idle" THEN {} ELSE setsTouched \cup K
    BY <1>4, OwnerAssumption DEF SetEdit, OwnerInv, OwnerTypeOK
  <2>2. OwnerTypeOK'
    BY <1>4, <2>1 DEF OwnerInv, OwnerTypeOK
  <2>3. ASSUME ownerPc' \in {"usage", "answer"}, Alone', NEW k \in SetKeys \ setsTouched', k[1] \in scope'
        PROVE  LET x == rsOwnerKey(task', k[1], k[2])
               IN  /\ x \in DOMAIN owners' <=> k \in DOMAIN sets' /\ sets'[k] # NoOwner
                   /\ x \in DOMAIN owners' => owners'[x] = sets'[k]
    <3>1. k \in SetKeys \ setsTouched /\ k \notin K /\ Alone
      BY <2>1, <2>3 DEF Alone
    <3>2. /\ k \in DOMAIN sets' <=> k \in DOMAIN sets
          /\ k \in DOMAIN sets => sets'[k] = sets[k]
      BY <1>4, <3>1
    <3> DEFINE x == rsOwnerKey(task, k[1], k[2])
    <3>3. /\ x \in DOMAIN owners <=> k \in DOMAIN sets /\ sets[k] # NoOwner
          /\ x \in DOMAIN owners => owners[x] = sets[k]
      BY <2>1, <2>3, <3>1 DEF OwnerInv
    <3> QED
      BY <2>1, <3>2, <3>3
  <2> QED
    BY <2>1, <2>2, <2>3 DEF OwnerInv
<1>5. ASSUME NEW k \in SetKeys, NEW o \in Owners \cup {NoOwner}, CreateSet(k, o) PROVE OwnerInv'
  <2>1. /\ sets' = [j \in DOMAIN sets \cup {k} |-> IF j = k THEN o ELSE sets[j]]
        /\ pods' = pods /\ SetEdit({k})
    BY <1>5 DEF CreateSet
  <2>2. /\ DOMAIN sets \subseteq SetKeys /\ sets \in [DOMAIN sets -> Owners \cup {NoOwner}]
        /\ pods \subseteq OwnedPods
    BY DEF OwnerInv, OwnerTypeOK
  <2>3. DOMAIN sets' = DOMAIN sets \cup {k}
    BY <2>1
  <2>4. sets' \in [DOMAIN sets' -> Owners \cup {NoOwner}]
    BY <2>1, <2>2, <2>3
  <2>5. \A j \in SetKeys \ {k} : /\ j \in DOMAIN sets' <=> j \in DOMAIN sets
                                 /\ j \in DOMAIN sets => sets'[j] = sets[j]
    BY <2>1, <2>3
  <2> QED
    BY <1>4, <2>1, <2>2, <2>3, <2>4, <2>5
<1>6. ASSUME NEW k \in SetKeys, DeleteSet(k) PROVE OwnerInv'
  <2>1. /\ sets' = [j \in DOMAIN sets \ {k} |-> sets[j]]
        /\ pods' = pods /\ SetEdit({k})
    BY <1>6 DEF DeleteSet
  <2>2. /\ DOMAIN sets \subseteq SetKeys /\ sets \in [DOMAIN sets -> Owners \cup {NoOwner}]
        /\ pods \subseteq OwnedPods
    BY DEF OwnerInv, OwnerTypeOK
  <2>3. DOMAIN sets' = DOMAIN sets \ {k}
    BY <2>1
  <2>4. sets' \in [DOMAIN sets' -> Owners \cup {NoOwner}]
    BY <2>1, <2>2, <2>3
  <2>5. \A j \in SetKeys \ {k} : /\ j \in DOMAIN sets' <=> j \in DOMAIN sets
                                 /\ j \in DOMAIN sets => sets'[j] = sets[j]
    BY <2>1, <2>3
  <2> QED
    BY <1>4, <2>1, <2>2, <2>3, <2>4, <2>5
<1>7. ASSUME NEW p \in OwnedPods, PodComesOrGoes(p) PROVE OwnerInv'
  <2>1. pods' \subseteq OwnedPods /\ sets' = sets /\ SetEdit({})
    BY <1>7 DEF PodComesOrGoes, OwnerInv, OwnerTypeOK
  <2> QED
    BY <1>4, <2>1 DEF OwnerInv, OwnerTypeOK
<1>8. CASE UNCHANGED ownerVars
  <2>1. UNCHANGED <<pods, sets, setEdits, ownerPc, task, scope, listed, owners, measured, setsTouched>>
    BY <1>8 DEF ownerVars, ownersThere
  <2> QED
    BY <2>1 DEF OwnerInv, OwnerTypeOK, Alone
<1> QED
  BY <1>1, <1>2, <1>3, <1>5, <1>6, <1>7, <1>8, ListSetsKeeps DEF OwnerNext

LEMMA OwnersAreFinal == OwnerInv => OwnersFinal
<1> SUFFICES ASSUME OwnerInv, ownerPc = "answer", Alone, NEW p \in listed, Lasting(p)
             PROVE  Owner(p) = Final(p)
  BY DEF OwnersFinal, Alone
<1>1. CASE p.ref.kind # "ReplicaSet"
  BY <1>1 DEF Owner, Final
<1>2. CASE p.ref.kind = "ReplicaSet"
  <2> DEFINE k == <<p.ns, p.ref.name>>
             x == rsOwnerKey(task, p.ns, p.ref.name)
  <2>1. k \in DOMAIN sets /\ k \notin setsTouched
    BY <1>2 DEF Lasting
  <2>2. k \in SetKeys \ setsTouched /\ p.ns \in scope
    BY <2>1 DEF OwnerInv, OwnerTypeOK
  <2>3. k[1] = p.ns /\ k[2] = p.ref.name
    OBVIOUS
  <2> HIDE DEF k
  <2>4. /\ x \in DOMAIN owners <=> sets[k] # NoOwner
        /\ x \in DOMAIN owners => owners[x] = sets[k]
    BY <2>1, <2>2, <2>3 DEF OwnerInv
  <2> QED
    BY <1>2, <2>4 DEF Owner, Final, k
<1> QED
  BY <1>1, <1>2

\* Of any workloads, budgets and pods: budgets are shown with what they select, two
\* polls agree while nothing changes, and pods are shown with their final owners.
THEOREM ListingsAreJoined == ListSpec /\ OwnerSpec => []ListingsJoined
<1>1. ListInv /\ OwnerInv => ListingsJoined
  BY BudgetsAreExact, UnmatchedAreSo, PollsDoAgree, OwnersAreFinal
     DEF ListingsJoined, ListInv, OwnerInv
<1>2. ListSpec => []ListInv
  BY ListBegins, ListKeeps, PTL DEF ListSpec
<1>3. OwnerSpec => []OwnerInv
  BY OwnerBegins, OwnerKeeps, PTL DEF OwnerSpec
<1> QED
  BY <1>1, <1>2, <1>3, PTL

-----------------------------------------------------------------------------
(* list_routes *)

\* No route is listed twice, and only of kinds that have been listed.
FoundOnce ==
    /\ \A i, j \in DOMAIN routesFound : i # j => routesFound[i].route # routesFound[j].route
    /\ \A i \in DOMAIN routesFound : routesFound[i].route.kind \in asked \ routeLeft

\* What was not edited has been found if its kind has been listed, and as it is.
FoundAsIs ==
    /\ \A r \in routes \ routesTouched : r.kind \in (asked \ routeLeft) \cap installed =>
           api /\ \E i \in DOMAIN routesFound : routesFound[i].route = r
    /\ \A i \in DOMAIN routesFound : routesFound[i].route \notin routesTouched =>
           routesFound[i].status = parentStatus[routesFound[i].route]

\* A status names as accepting only gateways that are.
StatusKnown ==
    \A r \in Routes : \A i \in DOMAIN parentStatus[r] :
        parentStatus[r][i].accepted = "True" => Gateway(r, parentStatus[r][i].ref) \in accepted[r]

RouteInv ==
    /\ RouteTypeOK
    /\ routePc = "idle" => routesFound = <<>> /\ asked = {} /\ routeLeft = {} /\ routesTouched = {}
    /\ routePc = "answer" => routeLeft = {}
    /\ FoundOnce /\ FoundAsIs /\ StatusKnown

LEMMA RouteBegins == RouteInit => RouteInv
<1> SUFFICES ASSUME RouteInit PROVE RouteInv
  OBVIOUS
<1>1. PICK R \in SUBSET ParentRefs : parents = [r \in Routes |-> R]
  BY DEF RouteInit
<1>2. parents \in [Routes -> SUBSET ParentRefs]
  BY <1>1
<1>3. parentStatus \in [Routes -> Seq(ParentEntry)] /\ routesFound \in Seq(RouteInfo)
  BY DEF RouteInit
<1>4. accepted \in [Routes -> SUBSET [name : Nat, ns : Nat]]
  BY DEF RouteInit
<1>5. /\ installed \subseteq RouteKinds /\ routes = Routes /\ routeEdits = 0 /\ routePc = "idle"
      /\ routeLeft = {} /\ asked = {} /\ api = FALSE /\ routesTouched = {}
      /\ routesFound = <<>>
  BY DEF RouteInit
<1>8. RouteTypeOK
  <2>1. routeEdits \in 0..MaxRouteEdits
    BY <1>5, RouteAssumption
  <2>2. routes \subseteq Routes /\ routesTouched \subseteq Routes /\ api \in BOOLEAN
    BY <1>5
  <2>3. asked \subseteq RouteKinds /\ routeLeft \subseteq asked
    BY <1>5
  <2> QED
    BY <1>2, <1>3, <1>4, <1>5, <2>1, <2>2, <2>3 DEF RouteTypeOK
<1>6. \A r \in Routes : DOMAIN parentStatus[r] = {}
  BY DEF RouteInit
<1>7. DOMAIN routesFound = {}
  BY DEF RouteInit
<1> QED
  BY <1>5, <1>6, <1>7, <1>8 DEF RouteInv, FoundOnce, FoundAsIs, StatusKnown

\* The routes of a kind in the API server's order, with what is read of them.
LEMMA OneKind ==
    ASSUME RouteTypeOK, NEW k
    PROVE  LET R == {r \in routes : r.kind = k}
               s == Stored(R)
               new == [i \in DOMAIN s |-> RouteRead(s[i])]
           IN  /\ new \in Seq(RouteInfo)
               /\ \A i \in 1..Len(new) :
                      /\ new[i].route \in R
                      /\ new[i].status = parentStatus[new[i].route]
               /\ \A i, j \in 1..Len(new) : i # j => new[i].route # new[j].route
               /\ \A r \in R : \E i \in 1..Len(new) : new[i].route = r
<1> DEFINE R == {r \in routes : r.kind = k}
           s == Stored(R)
           new == [i \in DOMAIN s |-> RouteRead(s[i])]
<1>1. /\ R \in SUBSET Routes /\ parents \in [Routes -> SUBSET ParentRefs]
      /\ parentStatus \in [Routes -> Seq(ParentEntry)]
  BY DEF RouteTypeOK
<1>2. IsFiniteSet(R)
  BY <1>1, RouteAssumption, FS_Subset
<1>3. \A r \in R : r \in [kind : Nat, ns : Nat, name : Nat] /\ r.kind = k
  BY <1>1, RouteAssumption
<1>4. /\ \A r \in R : r.ns \in Nat /\ r.name \in Nat
      /\ \A q, r \in R : q.ns = r.ns /\ q.name = r.name => q = r
  BY <1>3
<1> HIDE DEF R
<1>5. /\ s \in Seq(R)
      /\ \A i \in DOMAIN s : s[i] \in R
      /\ \A i, j \in DOMAIN s : i # j => s[i] # s[j]
      /\ \A r \in R : \E i \in DOMAIN s : s[i] = r
  BY <1>2, <1>4, StoredIsSeq
<1> HIDE DEF s
<1>6. DOMAIN s = 1..Len(s) /\ Len(s) \in Nat
  BY <1>5, LenProperties
<1>7. ASSUME NEW r \in R
      PROVE  /\ RouteRead(r) \in RouteInfo
             /\ RouteRead(r).route = r /\ RouteRead(r).status = parentStatus[r]
  BY <1>1 DEF RouteRead, RouteInfo
<1>8. new \in [1..Len(s) -> RouteInfo] /\ new \in Seq(RouteInfo) /\ Len(new) = Len(s)
  BY <1>5, <1>6, <1>7
<1>9. \A i \in 1..Len(s) : new[i].route = s[i] /\ new[i].status = parentStatus[s[i]]
  BY <1>5, <1>6, <1>7
<1> HIDE DEF new
<1>10. \A i \in 1..Len(new) : new[i].route \in R /\ new[i].status = parentStatus[new[i].route]
  BY <1>5, <1>6, <1>8, <1>9
<1>11. \A i, j \in 1..Len(new) : i # j => new[i].route # new[j].route
  BY <1>5, <1>6, <1>8, <1>9
<1>12. \A r \in R : \E i \in 1..Len(new) : new[i].route = r
  BY <1>5, <1>6, <1>8, <1>9
<1> QED
  BY <1>8, <1>10, <1>11, <1>12 DEF R, s, new

LEMMA ListRoutesKeeps == ASSUME RouteInv, NEW k \in RouteKinds, ListRoutes(k) PROVE RouteInv'
<1>1. /\ k \in routeLeft /\ routePc = "list" /\ routeLeft' = routeLeft \ {k}
      /\ routePc' \in {"answer", "list"} /\ (routePc' = "answer" => routeLeft' = {})
      /\ UNCHANGED <<installed, routes, parents, parentStatus, routeEdits, accepted, asked, routesTouched>>
  BY DEF ListRoutes, LeftAfter, gateways
<1>2. RouteTypeOK /\ routeLeft \subseteq asked
  BY DEF RouteInv, RouteTypeOK
<1>3. routesFound \in Seq(RouteInfo) /\ DOMAIN routesFound = 1..Len(routesFound) /\ Len(routesFound) \in Nat
  BY <1>2, LenProperties DEF RouteTypeOK
<1>4. StatusKnown'
  BY <1>1 DEF RouteInv, StatusKnown, Gateway
<1>5. CASE k \notin installed
  <2>1. UNCHANGED <<routesFound, api>>
    BY <1>5 DEF ListRoutes
  <2>2. RouteTypeOK'
    BY <1>1, <1>2, <2>1 DEF RouteTypeOK
  <2>3. FoundOnce' /\ FoundAsIs'
    BY <1>1, <1>2, <1>5, <2>1 DEF RouteInv, FoundOnce, FoundAsIs
  <2> QED
    BY <1>1, <1>4, <2>2, <2>3 DEF RouteInv
<1>6. CASE k \in installed
  <2> DEFINE R == {r \in routes : r.kind = k}
             new == [i \in DOMAIN Stored(R) |-> RouteRead(Stored(R)[i])]
             n == Len(routesFound)
             m == Len(new)
  <2>1. /\ new \in Seq(RouteInfo)
        /\ \A i \in 1..m : new[i].route \in R /\ new[i].status = parentStatus[new[i].route]
        /\ \A i, j \in 1..m : i # j => new[i].route # new[j].route
        /\ \A r \in R : \E i \in 1..m : new[i].route = r
    BY <1>2, OneKind
  <2>2. routesFound' = routesFound \o new /\ api' = TRUE
    BY <1>6 DEF ListRoutes
  <2> HIDE DEF new
  <2>3. m \in Nat
    BY <2>1, LenProperties
  <2>16. \A i \in 1..m : new[i].route.kind = k
    BY <2>1
  <2>4. /\ routesFound' \in Seq(RouteInfo) /\ DOMAIN routesFound' = 1..n + m
        /\ \A i \in 1..n + m :
               routesFound'[i] = IF i <= n THEN routesFound[i] ELSE new[i - n]
    BY <1>3, <2>1, <2>2, ConcatProperties, LenProperties
  <2>5. \A i \in 1..n : i \in 1..n + m /\ routesFound'[i] = routesFound[i]
    BY <1>3, <2>3, <2>4
  <2>6. \A i \in 1..n + m : i \notin 1..n =>
            i - n \in 1..m /\ routesFound'[i] = new[i - n]
    BY <1>3, <2>3, <2>4
  <2>7. \A j \in 1..m : n + j \in 1..n + m /\ routesFound'[n + j] = new[j]
    BY <1>3, <2>3, <2>4
  <2>8. RouteTypeOK'
    BY <1>1, <1>2, <2>2, <2>4 DEF RouteTypeOK
  <2>9. \A i \in 1..n : routesFound[i].route.kind \in asked \ routeLeft
    BY <1>3 DEF RouteInv, FoundOnce
  <2>10. \A i \in 1..n + m : routesFound'[i].route.kind \in asked' \ routeLeft'
    <3>1. ASSUME NEW i \in 1..n + m PROVE routesFound'[i].route.kind \in asked \ (routeLeft \ {k})
      <4>1. CASE i \in 1..n
        BY <2>5, <2>9, <4>1
      <4>2. CASE i \notin 1..n
        <5>1. routesFound'[i].route.kind = k
          BY <2>6, <2>16, <4>2
        <5> QED
          BY <1>1, <1>2, <5>1
      <4> QED
        BY <4>1, <4>2
    <3> QED
      BY <1>1, <3>1
  <2>11. ASSUME NEW i \in 1..n + m, NEW j \in 1..n + m, i # j
         PROVE  routesFound'[i].route # routesFound'[j].route
    <3>1. CASE i \in 1..n /\ j \in 1..n
      BY <1>3, <2>5, <2>11, <3>1 DEF RouteInv, FoundOnce
    <3>2. CASE i \in 1..n /\ j \notin 1..n
      <4>1. routesFound'[i].route.kind \notin routeLeft /\ routesFound'[j].route.kind = k
        BY <2>5, <2>6, <2>9, <2>16, <3>2
      <4> QED
        BY <1>1, <4>1
    <3>3. CASE i \notin 1..n /\ j \in 1..n
      <4>1. routesFound'[j].route.kind \notin routeLeft /\ routesFound'[i].route.kind = k
        BY <2>5, <2>6, <2>9, <2>16, <3>3
      <4> QED
        BY <1>1, <4>1
    <3>4. CASE i \notin 1..n /\ j \notin 1..n
      <4>1. i - n # j - n
        BY <1>3, <2>3, <2>11
      <4>2. i - n \in 1..m /\ j - n \in 1..m /\ routesFound'[i] = new[i - n]
            /\ routesFound'[j] = new[j - n]
        BY <2>6, <3>4
      <4>3. new[i - n].route # new[j - n].route
        BY <2>1, <4>1, <4>2
      <4> QED
        BY <4>2, <4>3
    <3> QED
      BY <3>1, <3>2, <3>3, <3>4
  <2>12. FoundOnce'
    BY <2>4, <2>10, <2>11 DEF FoundOnce
  <2>13. ASSUME NEW r \in routes' \ routesTouched', r.kind \in (asked' \ routeLeft') \cap installed'
         PROVE  \E i \in 1..n + m : routesFound'[i].route = r
    <3>1. CASE r.kind = k
      <4>1. r \in R
        BY <1>1, <2>13, <3>1
      <4>2. PICK i \in 1..m : new[i].route = r
        BY <2>1, <4>1
      <4>3. n + i \in 1..n + m /\ routesFound'[n + i] = new[i]
        BY <2>7
      <4> QED
        BY <4>2, <4>3
    <3>2. CASE r.kind # k
      <4>1. \E i \in 1..n : routesFound[i].route = r
        BY <1>1, <1>3, <2>13, <3>2 DEF RouteInv, FoundAsIs
      <4> QED
        BY <2>5, <4>1
    <3> QED
      BY <3>1, <3>2
  <2>14. ASSUME NEW i \in 1..n + m, routesFound'[i].route \notin routesTouched'
         PROVE  routesFound'[i].status = parentStatus'[routesFound'[i].route]
    <3>1. CASE i \in 1..n
      BY <1>1, <1>3, <2>5, <2>14, <3>1 DEF RouteInv, FoundAsIs
    <3>2. CASE i \notin 1..n
      BY <1>1, <2>1, <2>6, <3>2
    <3> QED
      BY <3>1, <3>2
  <2>15. FoundAsIs'
    BY <2>2, <2>4, <2>13, <2>14 DEF FoundAsIs
  <2> QED
    BY <1>1, <1>4, <2>8, <2>12, <2>15 DEF RouteInv
<1> QED
  BY <1>5, <1>6

\* An edit leaves what was read of others as it is.
LEMMA RouteEditKeeps ==
    ASSUME RouteInv, NEW R \in SUBSET Routes, RouteEdit(R),
           installed' \subseteq RouteKinds, routes' \subseteq Routes,
           parents' \in [Routes -> SUBSET ParentRefs],
           parentStatus' \in [Routes -> Seq(ParentEntry)],
           accepted' \in [Routes -> SUBSET [name : Nat, ns : Nat]],
           \A r \in Routes \ R : /\ r \in routes' => r \in routes
                                 /\ r.kind \in installed' => r.kind \in installed
                                 /\ parentStatus'[r] = parentStatus[r],
           StatusKnown'
    PROVE  RouteInv'
<1>1. /\ routeEdits' \in 0..MaxRouteEdits
      /\ UNCHANGED <<routePc, routeLeft, asked, routesFound, api>>
      /\ routesTouched' = IF routePc = "idle" THEN {} ELSE routesTouched \cup R
  BY RouteAssumption DEF RouteEdit, routeCall, RouteInv, RouteTypeOK
<1>2. RouteTypeOK'
  BY <1>1 DEF RouteInv, RouteTypeOK
<1>3. FoundOnce'
  BY <1>1 DEF RouteInv, FoundOnce
<1>4. FoundAsIs'
  <2>1. CASE routePc = "idle"
    BY <1>1, <2>1 DEF RouteInv, FoundAsIs
  <2>2. CASE routePc # "idle"
    <3>1. routesTouched' = routesTouched \cup R
      BY <1>1, <2>2
    <3>2. ASSUME NEW i \in DOMAIN routesFound PROVE routesFound[i].route \in Routes
      <4>1. routesFound[i] \in RouteInfo
        BY LenProperties, ElementOfSeq DEF RouteInv, RouteTypeOK
      <4> QED
        BY <4>1 DEF RouteInfo
    <3> QED
      BY <1>1, <3>1, <3>2 DEF RouteInv, FoundAsIs
  <2> QED
    BY <2>1, <2>2
<1> QED
  BY <1>1, <1>2, <1>3, <1>4 DEF RouteInv

\* What a gateway does not say itself stays in the status.
LEMMA OthersSay ==
    ASSUME RouteTypeOK, StatusKnown, NEW r \in Routes, NEW ref
    PROVE  /\ SaidByOthers(r, ref) \in Seq(ParentEntry)
           /\ \A i \in DOMAIN SaidByOthers(r, ref) : SaidByOthers(r, ref)[i].accepted = "True" =>
                  Gateway(r, SaidByOthers(r, ref)[i].ref) \in accepted[r]
<1> DEFINE s == parentStatus[r]
           I == {i \in DOMAIN s : s[i].ref # ref}
           t == Ascending(I)
<1>1. s \in Seq(ParentEntry)
  BY DEF RouteTypeOK
<1>2. DOMAIN s = 1..Len(s) /\ Len(s) \in Nat
  BY <1>1, LenProperties
<1>3. I \in SUBSET Nat
  BY <1>2
<1>4. IsFiniteSet(I)
  <2>1. IsFiniteSet(1..Len(s))
    BY <1>2, FS_Interval
  <2>2. I \in SUBSET (1..Len(s))
    BY <1>2
  <2> HIDE DEF I
  <2> QED
    BY <2>1, <2>2, FS_Subset
<1>5. \A i \in I : i \in DOMAIN s
  OBVIOUS
<1>6. SaidByOthers(r, ref) = [i \in DOMAIN t |-> s[t[i]]]
  BY DEF SaidByOthers
<1> HIDE DEF I
<1>7. t \in Seq(I) /\ \A i \in DOMAIN t : t[i] \in I
  BY <1>3, <1>4, AscendingIsSeq
<1> HIDE DEF t
<1>8. DOMAIN t = 1..Len(t) /\ Len(t) \in Nat
  BY <1>7, LenProperties
<1>9. \A i \in DOMAIN s : s[i] \in ParentEntry
  BY <1>1, <1>2, ElementOfSeq
<1>10. \A i \in DOMAIN t : t[i] \in DOMAIN s /\ s[t[i]] \in ParentEntry
  BY <1>5, <1>7, <1>9
<1>11. [i \in DOMAIN t |-> s[t[i]]] \in Seq(ParentEntry)
  BY <1>8, <1>10
<1>12. \A i \in DOMAIN s : s[i].accepted = "True" => Gateway(r, s[i].ref) \in accepted[r]
  BY DEF StatusKnown
<1> HIDE DEF s
<1> QED
  BY <1>6, <1>10, <1>11, <1>12

LEMMA ReconcileKeeps ==
    ASSUME RouteInv, NEW r \in Routes, NEW ref \in ParentRefs, ReconcileRoute(r, ref)
    PROVE  RouteInv'
<1> DEFINE o == SaidByOthers(r, ref)
<1>1. /\ parentStatus \in [Routes -> Seq(ParentEntry)]
      /\ accepted \in [Routes -> SUBSET [name : Nat, ns : Nat]]
      /\ installed \subseteq RouteKinds /\ routes \subseteq Routes
      /\ parents \in [Routes -> SUBSET ParentRefs]
  BY DEF RouteInv, RouteTypeOK
<1>2. /\ o \in Seq(ParentEntry)
      /\ \A i \in DOMAIN o : o[i].accepted = "True" => Gateway(r, o[i].ref) \in accepted[r]
  BY OthersSay DEF RouteInv
<1>3. RouteEdit({r}) /\ UNCHANGED <<installed, routes, parents>>
  BY DEF ReconcileRoute
<1>4. Gateway(r, ref) \in [name : Nat, ns : Nat]
  <2>1. ref \in [name : Nat, ns : Nat] /\ r \in [kind : Nat, ns : Nat, name : Nat]
    BY RouteAssumption
  <2> QED
    BY <2>1 DEF Gateway
<1> HIDE DEF o
<1>5. ASSUME NEW t \in Seq(ParentEntry), parentStatus' = [parentStatus EXCEPT ![r] = t],
             NEW A \in SUBSET [name : Nat, ns : Nat], accepted' = [accepted EXCEPT ![r] = A],
             \A i \in DOMAIN t : t[i].accepted = "True" => Gateway(r, t[i].ref) \in A
      PROVE  RouteInv'
  <2>1. StatusKnown'
    BY <1>1, <1>5 DEF RouteInv, StatusKnown, Gateway
  <2>2. parentStatus' \in [Routes -> Seq(ParentEntry)]
    BY <1>1, <1>5
  <2>3. accepted' \in [Routes -> SUBSET [name : Nat, ns : Nat]]
    BY <1>1, <1>5
  <2>4. \A q \in Routes \ {r} : parentStatus'[q] = parentStatus[q]
    BY <1>1, <1>5
  <2> QED
    BY <1>1, <1>3, <2>1, <2>2, <2>3, <2>4, RouteEditKeeps
<1>6. CASE ref \in parents[r]
  <2>1. PICK v \in RouteVerdicts :
          /\ parentStatus' = [parentStatus EXCEPT ![r] = Append(o, [ref |-> ref, accepted |-> v])]
          /\ accepted' = [accepted EXCEPT ![r] =
                IF v = "True" THEN accepted[r] \cup {Gateway(r, ref)} ELSE accepted[r]]
    BY <1>6 DEF ReconcileRoute, o
  <2> DEFINE e == [ref |-> ref, accepted |-> v]
             t == Append(o, e)
             A == IF v = "True" THEN accepted[r] \cup {Gateway(r, ref)} ELSE accepted[r]
  <2>2. e \in ParentEntry /\ e.ref = ref /\ e.accepted = v
    BY DEF ParentEntry
  <2> HIDE DEF e
  <2>3. /\ t \in Seq(ParentEntry) /\ Len(t) = Len(o) + 1 /\ Len(o) \in Nat
        /\ \A i \in 1..Len(o) : t[i] = o[i]
        /\ t[Len(o) + 1] = e
        /\ DOMAIN t = 1..Len(t) /\ DOMAIN o = 1..Len(o)
    BY <1>2, <2>2, AppendProperties, LenProperties
  <2> HIDE DEF t
  <2>4. A \in SUBSET [name : Nat, ns : Nat]
    BY <1>1, <1>4
  <2>5. ASSUME NEW i \in DOMAIN t, t[i].accepted = "True" PROVE Gateway(r, t[i].ref) \in A
    <3>1. CASE i \in 1..Len(o)
      BY <1>2, <2>3, <2>5, <3>1
    <3>2. CASE i = Len(o) + 1
      BY <2>2, <2>3, <2>5, <3>2
    <3> QED
      BY <2>3, <3>1, <3>2
  <2> HIDE DEF A
  <2> QED
    BY <1>5, <2>1, <2>3, <2>4, <2>5 DEF t, A, e
<1>7. CASE ref \notin parents[r]
  <2>1. parentStatus' = [parentStatus EXCEPT ![r] = o] /\ accepted' = accepted
    BY <1>7 DEF ReconcileRoute, o
  <2>2. accepted' = [accepted EXCEPT ![r] = accepted[r]] /\ accepted[r] \in SUBSET [name : Nat, ns : Nat]
    BY <1>1, <2>1
  <2> QED
    BY <1>2, <1>5, <2>1, <2>2
<1> QED
  BY <1>6, <1>7

LEMMA RouteKeeps == RouteInv /\ [RouteNext]_routeVars => RouteInv'
<1> SUFFICES ASSUME RouteInv, [RouteNext]_routeVars PROVE RouteInv'
  OBVIOUS
<1>1. /\ parentStatus \in [Routes -> Seq(ParentEntry)]
      /\ accepted \in [Routes -> SUBSET [name : Nat, ns : Nat]]
      /\ installed \subseteq RouteKinds /\ routes \subseteq Routes
      /\ parents \in [Routes -> SUBSET ParentRefs]
  BY DEF RouteInv, RouteTypeOK
<1>2. CASE AskRoutes
  <2>1. /\ routePc = "idle" /\ routePc' = "list" /\ routeLeft' = asked' /\ asked' \subseteq RouteKinds
        /\ UNCHANGED <<installed, routes, parents, parentStatus, routeEdits, accepted,
                       routesFound, api, routesTouched>>
    BY <1>2 DEF AskRoutes, gateways
  <2>2. StatusKnown'
    BY <2>1 DEF RouteInv, StatusKnown, Gateway
  <2> QED
    BY <2>1, <2>2 DEF RouteInv, RouteTypeOK, FoundOnce, FoundAsIs
<1>3. CASE ListRoutesFails \/ AnswerRoutes
  <2>1. /\ routePc' = "idle" /\ routeLeft' = {} /\ asked' = {} /\ routesFound' = <<>>
        /\ api' = FALSE /\ routesTouched' = {}
        /\ UNCHANGED <<installed, routes, parents, parentStatus, routeEdits, accepted>>
    BY <1>3 DEF ListRoutesFails, AnswerRoutes, RoutesEnd, gateways
  <2>2. StatusKnown'
    BY <2>1 DEF RouteInv, StatusKnown, Gateway
  <2>3. routesFound' \in Seq(RouteInfo) /\ DOMAIN routesFound' = {}
    BY <2>1
  <2> QED
    BY <2>1, <2>2, <2>3 DEF RouteInv, RouteTypeOK, FoundOnce, FoundAsIs
<1>4. ASSUME NEW k \in RouteKinds, KindComesOrGoes(k) PROVE RouteInv'
  <2>1. /\ installed' = IF k \in installed THEN installed \ {k} ELSE installed \cup {k}
        /\ RouteEdit({r \in Routes : r.kind = k})
        /\ UNCHANGED <<routes, parents, parentStatus, accepted>>
    BY <1>4 DEF KindComesOrGoes
  <2>2. StatusKnown'
    BY <2>1 DEF RouteInv, StatusKnown, Gateway
  <2>3. installed' \subseteq RouteKinds
    BY <1>1, <2>1
  <2>4. \A r \in Routes \ {q \in Routes : q.kind = k} : r.kind \in installed' => r.kind \in installed
    BY <2>1
  <2> QED
    BY <1>1, <2>1, <2>2, <2>3, <2>4, RouteEditKeeps
<1>5. ASSUME NEW r \in Routes, RouteComesOrGoes(r) PROVE RouteInv'
  <2>1. /\ routes' = IF r \in routes THEN routes \ {r} ELSE routes \cup {r}
        /\ parentStatus' = [parentStatus EXCEPT ![r] = <<>>]
        /\ accepted' = [accepted EXCEPT ![r] = {}]
        /\ RouteEdit({r}) /\ UNCHANGED <<installed, parents>>
    BY <1>5 DEF RouteComesOrGoes
  <2>2. DOMAIN parentStatus'[r] = {} /\ \A q \in Routes \ {r} : parentStatus'[q] = parentStatus[q] /\ accepted'[q] = accepted[q]
    BY <1>1, <2>1
  <2>3. StatusKnown'
    BY <2>2 DEF RouteInv, StatusKnown, Gateway
  <2>4. parentStatus' \in [Routes -> Seq(ParentEntry)]
    BY <1>1, <2>1
  <2>5. accepted' \in [Routes -> SUBSET [name : Nat, ns : Nat]]
    BY <1>1, <2>1
  <2>6. routes' \subseteq Routes /\ \A q \in Routes \ {r} : q \in routes' => q \in routes
    BY <1>1, <2>1
  <2> QED
    BY <1>1, <2>1, <2>2, <2>3, <2>4, <2>5, <2>6, RouteEditKeeps
<1>6. ASSUME NEW r \in Routes, EditParents(r) PROVE RouteInv'
  <2>1. PICK R \in SUBSET ParentRefs : parents' = [parents EXCEPT ![r] = R]
    BY <1>6 DEF EditParents
  <2>2. RouteEdit({r}) /\ UNCHANGED <<installed, routes, parentStatus, accepted>>
    BY <1>6 DEF EditParents
  <2>3. StatusKnown'
    BY <2>2 DEF RouteInv, StatusKnown, Gateway
  <2>4. parents' \in [Routes -> SUBSET ParentRefs]
    BY <1>1, <2>1
  <2> QED
    BY <1>1, <2>2, <2>3, <2>4, RouteEditKeeps
<1>7. CASE UNCHANGED routeVars
  <2>1. UNCHANGED <<installed, routes, parents, parentStatus, routeEdits, accepted,
                    routePc, routeLeft, asked, routesFound, api, routesTouched>>
    BY <1>7 DEF routeVars, gateways, routeCall
  <2>2. RouteTypeOK' /\ FoundOnce' /\ FoundAsIs' /\ StatusKnown'
    BY <2>1 DEF RouteInv, RouteTypeOK, FoundOnce, FoundAsIs, StatusKnown, Gateway
  <2> QED
    BY <2>1, <2>2 DEF RouteInv
<1> QED
  BY <1>2, <1>3, <1>4, <1>5, <1>6, <1>7, ListRoutesKeeps, ReconcileKeeps DEF RouteNext

\* The routes found can be put in order, since no two of them are the same.
LEMMA RoutesInOrder == RouteInv => RoutesListed
<1> SUFFICES ASSUME RouteInv, routePc = "answer" PROVE RoutesListed
  BY DEF RoutesListed
<1> DEFINE D == DOMAIN routesFound
           before == {p \in D \X D : RouteBefore(routesFound[p[1]].route, routesFound[p[2]].route)}
<1>1. D = 1..Len(routesFound) /\ Len(routesFound) \in Nat
  BY LenProperties DEF RouteInv, RouteTypeOK
<1>2. IsFiniteSet(D) /\ Cardinality(D) = Len(routesFound)
  <2>1. /\ IsFiniteSet(1..Len(routesFound))
        /\ Cardinality(1..Len(routesFound))
             = IF 1 > Len(routesFound) THEN 0 ELSE Len(routesFound) - 1 + 1
    BY <1>1, FS_Interval
  <2>2. (IF 1 > Len(routesFound) THEN 0 ELSE Len(routesFound) - 1 + 1) = Len(routesFound)
    BY <1>1
  <2> QED
    BY <1>1, <2>1, <2>2
<1>3. ASSUME NEW i \in D
      PROVE  routesFound[i].route \in Routes
             /\ routesFound[i].route \in [kind : Nat, ns : Nat, name : Nat]
  <2>1. routesFound[i] \in RouteInfo
    BY LenProperties, ElementOfSeq DEF RouteInv, RouteTypeOK
  <2> QED
    BY <2>1, RouteAssumption DEF RouteInfo
<1>4. \A i, j \in D : i # j => routesFound[i].route # routesFound[j].route
  BY DEF RouteInv, FoundOnce
<1>5. \A i, j \in D : <<i, j>> \in before
          <=> RouteBefore(routesFound[i].route, routesFound[j].route)
  OBVIOUS
<1>6. SortedRoutes = InOrder(D, before)
  BY DEF SortedRoutes
<1> HIDE DEF before, D
<1>7. Strict(D, before)
  <2>1. ASSUME NEW u \in [kind : Nat, ns : Nat, name : Nat],
               NEW v \in [kind : Nat, ns : Nat, name : Nat],
               NEW w \in [kind : Nat, ns : Nat, name : Nat]
        PROVE  /\ RouteBefore(u, v) /\ RouteBefore(v, w) => RouteBefore(u, w)
               /\ ~RouteBefore(u, u)
               /\ u # v => RouteBefore(u, v) \/ RouteBefore(v, u)
    <3>1. /\ {u.kind, u.ns, u.name, v.kind, v.ns, v.name, w.kind, w.ns, w.name} \subseteq Nat
          /\ u # v => u.kind # v.kind \/ u.ns # v.ns \/ u.name # v.name
      OBVIOUS
    <3> QED
      BY <3>1 DEF RouteBefore
  <2> QED
    BY <1>3, <1>4, <1>5, <2>1 DEF Strict
<1>8. /\ SortedRoutes \in [1..Cardinality(D) -> D]
      /\ \A i, j \in 1..Cardinality(D) : i < j => <<SortedRoutes[i], SortedRoutes[j]>> \in before
  BY <1>2, <1>6, <1>7, Ordered
<1>9. ASSUME NEW i \in D, NEW j \in D, i < j
      PROVE  LET v == ShownRoutes[i].route
                 w == ShownRoutes[j].route
             IN  <<v.kind, v.ns, v.name>> # <<w.kind, w.ns, w.name>> /\ v.kind <= w.kind
  <2> DEFINE v == routesFound[SortedRoutes[i]].route
             w == routesFound[SortedRoutes[j]].route
  <2>1. /\ SortedRoutes[i] \in D /\ SortedRoutes[j] \in D
        /\ <<SortedRoutes[i], SortedRoutes[j]>> \in before
    BY <1>1, <1>2, <1>8, <1>9 DEF D
  <2>2. RouteBefore(v, w)
    BY <1>5, <2>1
  <2>3. v \in [kind : Nat, ns : Nat, name : Nat] /\ w \in [kind : Nat, ns : Nat, name : Nat]
    BY <1>3, <2>1
  <2>4. ShownRoutes[i] = routesFound[SortedRoutes[i]] /\ ShownRoutes[j] = routesFound[SortedRoutes[j]]
    BY DEF ShownRoutes, D
  <2> HIDE DEF v, w
  <2>5. v.kind <= w.kind /\ ~(v.kind = w.kind /\ v.ns = w.ns /\ v.name = w.name)
    BY <2>2, <2>3 DEF RouteBefore
  <2>6. <<v.kind, v.ns, v.name>> # <<w.kind, w.ns, w.name>>
    BY <2>5
  <2> QED
    BY <2>4, <2>5, <2>6 DEF v, w
<1>10. \A r \in routes \ routesTouched : r.kind \in asked \cap installed =>
           api /\ \E i \in D : routesFound[i].route = r
  BY DEF RouteInv, FoundAsIs, D
<1> QED
  BY <1>9, <1>10 DEF RoutesListed, D

LEMMA AttachedIsAccepted == RouteInv => AttachmentHonest
<1> SUFFICES ASSUME RouteInv, NEW i \in DOMAIN routesFound
             PROVE  LET e == routesFound[i]
                    IN  /\ \A ref \in e.parents : e.route \notin routesTouched /\ ref.ns # 0
                               /\ isParentAttached(e, ref) => ref \in accepted[e.route]
                        /\ Condition(e.status) = "False" =>
                               \A j \in DOMAIN e.status : e.status[j].accepted # "True"
  BY DEF AttachmentHonest
<1> DEFINE e == routesFound[i]
<1>1. e \in RouteInfo
  BY LenProperties, ElementOfSeq DEF RouteInv, RouteTypeOK
<1>2. e.route \in Routes /\ e.parents \subseteq ParentRefs /\ e.status \in Seq(ParentEntry)
  BY <1>1 DEF RouteInfo
<1>3. e.route \notin routesTouched => e.status = parentStatus[e.route]
  BY DEF RouteInv, FoundAsIs
<1> HIDE DEF e
<1>4. ASSUME NEW ref \in e.parents, e.route \notin routesTouched, ref.ns # 0, isParentAttached(e, ref)
      PROVE  ref \in accepted[e.route]
  <2>1. PICK j \in DOMAIN e.status :
            SameParent(ref, e.status[j].ref) /\ e.status[j].accepted = "True"
    BY <1>4 DEF isParentAttached
  <2>2. e.status[j] \in ParentEntry
    BY <1>2, LenProperties, ElementOfSeq
  <2>3. /\ e.status[j].ref \in [name : Nat, ns : Nat] /\ ref \in [name : Nat, ns : Nat]
    BY <1>2, <2>2, RouteAssumption DEF ParentEntry
  <2>4. e.status[j].ref = ref
    BY <1>4, <2>1, <2>3 DEF SameParent
  <2>5. Gateway(e.route, ref) \in accepted[e.route]
    BY <1>2, <1>3, <1>4, <2>1, <2>4 DEF RouteInv, StatusKnown
  <2>6. Gateway(e.route, ref) = ref
    BY <1>4, <2>3 DEF Gateway
  <2> QED
    BY <2>5, <2>6
<1>5. Condition(e.status) = "False" => \A j \in DOMAIN e.status : e.status[j].accepted # "True"
  BY DEF Condition
<1> QED
  BY <1>4, <1>5 DEF e

\* Of any routes, kinds and gateways, list_routes shows every route once, in order,
\* and as attached only where it is accepted.
THEOREM RoutesAreHonest == RouteSpec => []RoutesHonest
<1>1. RouteInv => RoutesHonest
  BY RoutesInOrder, AttachedIsAccepted DEF RoutesHonest, RouteInv
<1> QED
  BY <1>1, RouteBegins, RouteKeeps, PTL DEF RouteSpec

-----------------------------------------------------------------------------
(* Resource accounting *)

\* What the pods on a node request that were not resized to more since they were bound.
Bound(n) == Requested(On(n) \ raised, requests)
Counted(n) == {p \in DOMAIN podsRead : podsRead[p].node = n /\ Live(p)}

\* No pod is bound that is not there, and what no one has resized fits on its node: now,
\* and in what has been read, if the node did not come or go between the reads.
AccountInv ==
    /\ AccountTypeOK
    /\ \A p \in AccountPods : podPhase[p] = "absent" => bound[p] = "none"
    /\ \A n \in Nodes : room[n] # 0 => Bound(n) <= room[n]
    /\ accountPc = "pods" => \A n \in NodesRead \ renewed : roomRead[n] = room[n]
    /\ accountPc = "answer" =>
         /\ \A n \in NodesRead \ renewed : RequestedRead(Counted(n) \ raised) <= roomRead[n]
         /\ \A p \in DOMAIN podsRead : podsRead[p].phase # "absent"

\* The units of some pods, which Requested counts.
Units(S, r) == UNION {{p} \X (1..r[p]) : p \in S}

LEMMA UnitsFinite ==
    ASSUME NEW S \in SUBSET AccountPods, NEW r, \A p \in S : r[p] \in Nat
    PROVE  /\ IsFiniteSet(Units(S, r)) /\ Requested(S, r) \in Nat
           /\ Requested(S, r) = Cardinality(Units(S, r))
<1> DEFINE F(p) == {p} \X (1..r[p])
           T == {F(p) : p \in S}
           g == [p \in S |-> F(p)]
<1>1. IsFiniteSet(S)
  BY AccountAssumption, FS_Subset
<1>2. g \in Surjection(S, T)
  BY DEF Surjection
<1>3. IsFiniteSet(T)
  <2> HIDE DEF g, T
  <2> QED
    BY <1>1, <1>2, FS_Surjection
<1>4. ASSUME NEW p \in S PROVE IsFiniteSet(F(p))
  <2>1. r[p] \in Nat
    OBVIOUS
  <2>2. IsFiniteSet(1..r[p])
    BY <2>1, FS_Interval
  <2>3. IsFiniteSet({p})
    BY FS_Singleton
  <2> QED
    BY <2>2, <2>3, FS_Product
<1>5. \A t \in T : IsFiniteSet(t)
  BY <1>4
<1>6. IsFiniteSet(UNION T)
  <2> HIDE DEF T
  <2> QED
    BY <1>3, <1>5, FS_UNION
<1>7. IsFiniteSet(Units(S, r)) /\ Requested(S, r) = Cardinality(Units(S, r))
  BY <1>6 DEF Units, Requested
<1> QED
  BY <1>7, FS_CardinalityType

\* Fewer pods that each request no more.
LEMMA RequestedLess ==
    ASSUME NEW T \in SUBSET AccountPods, NEW S \in SUBSET T, NEW q, NEW r,
           \A p \in T : r[p] \in Nat, \A p \in S : q[p] \in Nat /\ q[p] <= r[p]
    PROVE  Requested(S, q) <= Requested(T, r)
<1>1. ASSUME NEW p \in S PROVE 1..q[p] \in SUBSET (1..r[p])
  <2>1. q[p] \in Nat /\ r[p] \in Nat /\ q[p] <= r[p]
    OBVIOUS
  <2> QED
    BY <2>1
<1>2. Units(S, q) \in SUBSET Units(T, r)
  BY <1>1 DEF Units
<1>3. S \in SUBSET AccountPods
  OBVIOUS
<1>4. /\ IsFiniteSet(Units(T, r)) /\ Requested(T, r) = Cardinality(Units(T, r))
      /\ Requested(S, q) = Cardinality(Units(S, q))
  BY <1>3, UnitsFinite
<1>5. Cardinality(Units(S, q)) <= Cardinality(Units(T, r))
  BY <1>2, <1>4, FS_Subset, Zenon
<1> QED
  BY <1>4, <1>5

\* Only what pods request matters.
LEMMA RequestedSame ==
    ASSUME NEW S, NEW q, NEW r, \A p \in S : q[p] = r[p]
    PROVE  Requested(S, q) = Requested(S, r)
<1>1. {{p} \X (1..q[p]) : p \in S} = {{p} \X (1..r[p]) : p \in S}
  OBVIOUS
<1> QED
  BY <1>1 DEF Requested

LEMMA RequestedAdds ==
    ASSUME NEW S \in SUBSET AccountPods, NEW p \in AccountPods, NEW r,
           \A q \in S \cup {p} : r[q] \in Nat
    PROVE  Requested(S \cup {p}, r) <= Requested(S, r) + r[p]
<1> DEFINE U == {p} \X (1..r[p])
<1>1. /\ IsFiniteSet(Units(S, r)) /\ Requested(S, r) = Cardinality(Units(S, r))
      /\ Cardinality(Units(S, r)) \in Nat
  BY UnitsFinite
<1>2. Requested(S \cup {p}, r) = Cardinality(Units(S \cup {p}, r))
  BY UnitsFinite
<1>3. Units(S \cup {p}, r) = Units(S, r) \cup U
  BY DEF Units
<1>4. r[p] \in Nat
  OBVIOUS
<1>5. IsFiniteSet(U) /\ Cardinality(U) = r[p]
  <2>1. IsFiniteSet(1..r[p]) /\ Cardinality(1..r[p]) = r[p]
    <3>1. /\ IsFiniteSet(1..r[p])
          /\ Cardinality(1..r[p]) = IF 1 > r[p] THEN 0 ELSE r[p] - 1 + 1
      BY <1>4, FS_Interval
    <3> QED
      BY <1>4, <3>1
  <2>2. IsFiniteSet({p}) /\ Cardinality({p}) = 1
    BY FS_Singleton
  <2>3. IsFiniteSet(U) /\ Cardinality(U) = Cardinality({p}) * Cardinality(1..r[p])
    BY <2>1, <2>2, FS_Product
  <2> QED
    BY <1>4, <2>1, <2>2, <2>3
<1> HIDE DEF U
<1>6. /\ Cardinality(Units(S, r) \cup U)
            = Cardinality(Units(S, r)) + Cardinality(U) - Cardinality(Units(S, r) \cap U)
      /\ Cardinality(Units(S, r) \cap U) \in Nat
  <2>1. Cardinality(Units(S, r) \cup U)
            = Cardinality(Units(S, r)) + Cardinality(U) - Cardinality(Units(S, r) \cap U)
    BY <1>1, <1>5, FS_Union
  <2>2. Cardinality(Units(S, r) \cap U) \in Nat
    BY <1>1, FS_Intersection, FS_CardinalityType
  <2> QED
    BY <2>1, <2>2
<1>7. Requested(S \cup {p}, r) = Cardinality(Units(S, r) \cup U)
  BY <1>2, <1>3
<1> QED
  BY <1>1, <1>4, <1>5, <1>6, <1>7

LEMMA ReadRequests ==
    ASSUME AccountTypeOK, NEW S \in SUBSET DOMAIN podsRead
    PROVE  S \in SUBSET AccountPods /\ RequestedRead(S) \in Nat
<1>1. \A p \in DOMAIN podsRead : podsRead[p].request \in Nat
  BY AccountAssumption DEF AccountTypeOK, PodRecords
<1>2. S \in SUBSET AccountPods
  BY DEF AccountTypeOK
<1> DEFINE r == [p \in DOMAIN podsRead |-> podsRead[p].request]
<1>3. \A p \in S : r[p] \in Nat
  BY <1>1
<1> HIDE DEF r
<1>4. Requested(S, r) \in Nat
  BY <1>2, <1>3, UnitsFinite
<1> QED
  BY <1>2, <1>4 DEF RequestedRead, r

\* Ordered by what they are measured by: the first are no smaller than the rest.
LEMMA ByRequestsStrict == ASSUME AccountInv PROVE IsFiniteSet(Visited) /\ Strict(Visited, ByRequests)
<1>1. DOMAIN podsRead \in SUBSET AccountPods /\ order \in Ranges({p.ns : p \in DOMAIN podsRead})
  BY DEF AccountInv, AccountTypeOK
<1> DEFINE D == {q \in DOMAIN podsRead : Live(q)}
           g == [p \in D |-> p.ns]
<1>2. IsFiniteSet(D)
  BY <1>1, AccountAssumption, FS_Subset
<1>3. g \in Surjection(D, Visited)
  BY DEF Surjection, Visited
<1>4. IsFiniteSet(Visited)
  <2> HIDE DEF D, g
  <2> QED
    BY <1>2, <1>3, FS_Surjection
<1>5. ASSUME NEW m \in Visited PROVE Visit(m) \in DOMAIN order /\ order[Visit(m)] = m
  <2>1. m \in {p.ns : p \in DOMAIN podsRead}
    BY DEF Visited
  <2>2. \E i \in DOMAIN order : order[i] = m
    <3>1. {order[i] : i \in DOMAIN order} = {p.ns : p \in DOMAIN podsRead}
      BY <1>1, Zenon DEF Ranges
    <3> QED
      BY <2>1, <3>1, Zenon
  <2> QED
    BY <2>2 DEF Visit
<1>6. \E n : order \in [1..n -> {p.ns : p \in DOMAIN podsRead}]
  BY <1>1, Zenon DEF Ranges
<1>7. ASSUME NEW m \in Visited PROVE Visit(m) \in Int
  BY <1>5, <1>6
<1>8. \A m \in Visited : NamespaceRequests(m) \in Nat
  BY ReadRequests DEF NamespaceRequests, AccountInv
<1>9. ASSUME NEW m \in Visited, NEW n \in Visited
      PROVE  <<m, n>> \in ByRequests
                 <=> \/ NamespaceRequests(m) > NamespaceRequests(n)
                     \/ NamespaceRequests(m) = NamespaceRequests(n) /\ Visit(m) < Visit(n)
  BY DEF ByRequests, ByVisit
<1>10. Strict(Visited, ByRequests)
  <2>1. ASSUME NEW x \in Visited, NEW y \in Visited, NEW z \in Visited,
               <<x, y>> \in ByRequests, <<y, z>> \in ByRequests
        PROVE  <<x, z>> \in ByRequests
    BY <1>7, <1>8, <1>9, <2>1
  <2>2. \A x \in Visited : <<x, x>> \notin ByRequests
    BY <1>7, <1>8, <1>9
  <2>3. ASSUME NEW x \in Visited, NEW y \in Visited, x # y
        PROVE  <<x, y>> \in ByRequests \/ <<y, x>> \in ByRequests
    <3>1. Visit(x) # Visit(y)
      BY <1>5, <2>3
    <3> QED
      BY <1>7, <1>8, <1>9, <3>1
  <2> QED
    BY <2>1, <2>2, <2>3 DEF Strict
<1> QED
  BY <1>4, <1>10

\* What a list cut off after n elements shows.
LEMMA CutOffShows ==
    ASSUME NEW S, IsFiniteSet(S), NEW before, Strict(S, before), NEW n \in 0..Cardinality(S)
    PROVE  LET s == SubSeq(InOrder(S, before), 1, n)
               shown == {s[i] : i \in DOMAIN s}
           IN  /\ Len(s) = n /\ shown \subseteq S /\ Cardinality(shown) = n
               /\ \A x \in shown, y \in S \ shown : <<x, y>> \in before
<1> DEFINE c == Cardinality(S)
           t == InOrder(S, before)
           s == SubSeq(t, 1, n)
           shown == {s[i] : i \in DOMAIN s}
<1>1. c \in Nat
  BY FS_CardinalityType
<1>2. /\ t \in [1..c -> S]
      /\ \A i, j \in 1..c : i < j => <<t[i], t[j]>> \in before
      /\ \A i, j \in 1..c : i # j => t[i] # t[j]
      /\ \A x \in S : \E i \in 1..c : t[i] = x
  BY Ordered
<1> HIDE DEF t, c
<1>3. s \in Seq(S) /\ Len(s) = n /\ \A i \in 1..n : s[i] = t[i]
  <2>1. n \in Nat /\ n <= c
    BY <1>1 DEF c
  <2>2. \A i \in 1..n : t[i] \in S
    BY <1>1, <1>2, <2>1
  <2>3. /\ s \in Seq(S) /\ Len(s) = IF 1 <= n THEN n - 1 + 1 ELSE 0
        /\ \A i \in 1..n - 1 + 1 : s[i] = t[1 + i - 1]
    <3> HIDE DEF s
    <3> QED
      BY <2>1, <2>2, SubSeqProperties DEF s
  <2> HIDE DEF s
  <2> QED
    BY <2>1, <2>3
<1> HIDE DEF s
<1>4. DOMAIN s = 1..n
  BY <1>3
<1>5. n \in Nat /\ n <= c
  BY <1>1 DEF c
<1>6. shown = {t[i] : i \in 1..n}
  <2>1. shown = {s[i] : i \in 1..n}
    BY <1>4
  <2> QED
    BY <1>3, <2>1
<1> HIDE DEF shown
<1>7. shown \subseteq S
  <2>1. \A i \in 1..n : t[i] \in S
    BY <1>1, <1>2, <1>5
  <2> QED
    BY <1>6, <2>1
<1>8. Cardinality(shown) = n
  <2> DEFINE g == [i \in 1..n |-> t[i]]
             T == {t[i] : i \in 1..n}
  <2>1. g \in Surjection(1..n, T)
    BY DEF Surjection
  <2>2. g \in Injection(1..n, T)
    <3>1. g \in [1..n -> T]
      OBVIOUS
    <3>2. \A i, j \in 1..n : g[i] = g[j] => i = j
      BY <1>1, <1>2, <1>5
    <3> HIDE DEF g, T
    <3> QED
      BY <3>1, <3>2 DEF Injection, IsInjective
  <2>3. IsFiniteSet(1..n) /\ Cardinality(1..n) = n
    <3>1. IsFiniteSet(1..n) /\ Cardinality(1..n) = IF 1 > n THEN 0 ELSE n - 1 + 1
      BY <1>5, FS_Interval
    <3> QED
      BY <1>5, <3>1
  <2> HIDE DEF g, T
  <2>4. ExistsBijection(1..n, T)
    BY <2>1, <2>2 DEF ExistsBijection, Bijection
  <2>5. Cardinality(T) = Cardinality(1..n)
    BY <2>3, <2>4, FS_Bijection
  <2> QED
    BY <1>6, <2>3, <2>5 DEF T
<1>9. ASSUME NEW x \in shown, NEW y \in S \ shown PROVE <<x, y>> \in before
  <2>1. PICK i \in 1..n : x = t[i]
    BY <1>6
  <2>2. PICK j \in 1..c : y = t[j]
    BY <1>2
  <2>3. j \notin 1..n
    BY <1>6, <2>2
  <2>4. i \in 1..c /\ i < j
    BY <1>1, <1>5, <2>3
  <2> QED
    BY <1>2, <2>1, <2>2, <2>4
<1> QED
  BY <1>3, <1>7, <1>8, <1>9 DEF shown, s, t, c

LEMMA NoneVisited == <<>> \in Ranges({})
<1>1. Cardinality({}) = 0
  BY FS_EmptySet
<1>2. <<>> \in [1..0 -> {}] /\ DOMAIN <<>> = {}
  OBVIOUS
<1>3. {<<>>[i] : i \in DOMAIN <<>>} = {}
  BY <1>2
<1> QED
  BY <1>1, <1>2, <1>3 DEF Ranges

LEMMA AccountBegins == AccountInit => AccountInv
<1> SUFFICES ASSUME AccountInit PROVE AccountInv
  OBVIOUS
<1>1. AccountTypeOK
  <2>1. DOMAIN podsRead = {} /\ podsRead \in [{} -> PodRecords]
    BY DEF AccountInit, NoPodsRead
  <2>2. {p.ns : p \in DOMAIN podsRead} = {}
    BY <2>1
  <2>3. order \in Ranges({p.ns : p \in DOMAIN podsRead})
    BY <2>2, NoneVisited DEF AccountInit
  <2> QED
    BY <2>1, <2>3 DEF AccountInit, AccountTypeOK, Phases, NoRooms
<1>2. ASSUME NEW n \in Nodes PROVE Bound(n) <= room[n]
  <2>1. On(n) \ raised = {}
    BY AccountAssumption DEF AccountInit, On
  <2>2. Requested({}, requests) = 0
    <3>1. UNION {{p} \X (1..requests[p]) : p \in {}} = {}
      OBVIOUS
    <3> QED
      BY <3>1, FS_EmptySet DEF Requested
  <2>3. room[n] \in Nat
    BY AccountAssumption DEF AccountInit
  <2> QED
    BY <2>1, <2>2, <2>3 DEF Bound
<1> QED
  BY <1>1, <1>2 DEF AccountInv, AccountInit

\* The steps of a call leave the cluster as it is; what it reads fits on the nodes
\* as they are when it is read.
LEMMA AccountCallKeeps ==
    ASSUME AccountInv, ListNodes \/ ListAccountPods \/ ListAccountPodsFails \/ AnswerAccounts
    PROVE  AccountInv'
<1>1. UNCHANGED <<room, requests, bound, podPhase, raised>>
  BY DEF ListNodes, ListAccountPods, ListAccountPodsFails, AnswerAccounts, AccountsEnd, accountsThere
<1>2. /\ {room, roomRead} \subseteq [Nodes -> Rooms \cup {0}]
      /\ requests \in [AccountPods -> Amounts \cup {0}]
      /\ bound \in [AccountPods -> Nodes \cup {"none"}]
      /\ podPhase \in [AccountPods -> Phases]
      /\ raised \subseteq AccountPods /\ renewed \subseteq Nodes
  BY DEF AccountInv, AccountTypeOK
<1>3. (\A n \in Nodes : room[n] # 0 => Bound(n) <= room[n])'
  BY <1>1 DEF AccountInv, Bound, On
<1>4. (\A p \in AccountPods : podPhase[p] = "absent" => bound[p] = "none")'
  BY <1>1 DEF AccountInv
<1>5. CASE ListNodes
  <2>1. /\ accountPc' = "pods" /\ roomRead' = room
        /\ UNCHANGED <<order, podsRead, renewed>>
    BY <1>5 DEF ListNodes
  <2>2. AccountTypeOK'
    BY <1>1, <2>1 DEF AccountInv, AccountTypeOK
  <2>3. (\A n \in NodesRead \ renewed : roomRead[n] = room[n])'
    BY <1>1, <2>1
  <2> QED
    BY <1>3, <1>4, <2>1, <2>2, <2>3 DEF AccountInv
<1>6. CASE ListAccountPods
  <2> DEFINE D == {q \in AccountPods : podPhase[q] # "absent"}
  <2>1. /\ podsRead' = [p \in D |-> [node |-> bound[p], phase |-> podPhase[p],
                                     request |-> requests[p]]]
        /\ order' \in Ranges({p.ns : p \in DOMAIN podsRead'})
        /\ accountPc = "pods" /\ accountPc' = "answer"
        /\ roomRead' = roomRead /\ renewed' = renewed
    BY <1>6 DEF ListAccountPods
  <2>2. DOMAIN podsRead' = D /\ D \subseteq AccountPods
    BY <2>1
  <2>3. /\ \A p \in D : /\ podsRead'[p].node = bound[p] /\ podsRead'[p].phase = podPhase[p]
                        /\ podsRead'[p].request = requests[p]
        /\ \A p \in D : podPhase[p] \in Phases \ {"absent"}
    BY <1>2, <2>1
  <2>4. podsRead' \in [D -> PodRecords]
    BY <1>2, <2>1 DEF PodRecords
  <2>5. AccountTypeOK'
    BY <1>1, <1>2, <2>1, <2>2, <2>4 DEF AccountTypeOK
  <2>6. ASSUME NEW n \in (NodesRead \ renewed)'
        PROVE  RequestedRead(Counted(n) \ raised)' <= roomRead'[n]
    <3>1. n \in NodesRead \ renewed
      BY <2>1, <2>6 DEF NodesRead
    <3>2. roomRead'[n] = room[n] /\ room[n] # 0 /\ n \in Nodes
      BY <2>1, <3>1 DEF AccountInv, NodesRead
    <3>3. (Counted(n) \ raised)' = On(n) \ raised
      <4>1. Counted(n)' = {p \in D : bound[p] = n /\ podPhase[p] \in {"Pending", "Running"}}
        BY <2>2, <2>3 DEF Counted, Live, Phases
      <4> QED
        BY <1>1, <4>1 DEF On
    <3> DEFINE r == [p \in DOMAIN podsRead' |-> podsRead'[p].request]
    <3>4. \A p \in On(n) \ raised : r[p] = requests[p]
      BY <2>2, <2>3 DEF On
    <3>5. Requested(On(n) \ raised, r) = Bound(n)
      <4> HIDE DEF r
      <4> QED
        BY <3>4, RequestedSame DEF Bound
    <3>6. RequestedRead(Counted(n) \ raised)' = Requested((Counted(n) \ raised)', r)
      BY DEF RequestedRead, Requested
    <3> QED
      BY <3>2, <3>3, <3>5, <3>6 DEF AccountInv
  <2>7. \A p \in DOMAIN podsRead' : podsRead'[p].phase # "absent"
    BY <2>2, <2>3, Zenon
  <2> QED
    BY <1>3, <1>4, <2>1, <2>5, <2>6, <2>7 DEF AccountInv
<1>7. CASE ListAccountPodsFails \/ AnswerAccounts
  <2>1. /\ accountPc' = "idle" /\ roomRead' = NoRooms /\ order' = <<>>
        /\ podsRead' = NoPodsRead /\ renewed' = {}
    BY <1>7 DEF ListAccountPodsFails, AnswerAccounts, AccountsEnd
  <2>2. DOMAIN podsRead' = {} /\ podsRead' \in [{} -> PodRecords]
    BY <2>1 DEF NoPodsRead
  <2>3. {p.ns : p \in DOMAIN podsRead'} = {}
    BY <2>2
  <2>4. order' \in Ranges({p.ns : p \in DOMAIN podsRead'})
    BY <2>1, <2>3, NoneVisited
  <2>5. roomRead' \in [Nodes -> Rooms \cup {0}]
    BY <2>1 DEF NoRooms
  <2> QED
    BY <1>1, <1>2, <1>3, <1>4, <2>1, <2>2, <2>4, <2>5 DEF AccountInv, AccountTypeOK
<1> QED
  BY <1>5, <1>6, <1>7

\* The cluster goes on, but not while the answer is made.
AccountThereOK ==
    /\ room \in [Nodes -> Rooms \cup {0}]
    /\ requests \in [AccountPods -> Amounts \cup {0}]
    /\ bound \in [AccountPods -> Nodes \cup {"none"}]
    /\ podPhase \in [AccountPods -> Phases]
    /\ raised \subseteq AccountPods /\ renewed \subseteq Nodes

LEMMA AccountOthersKeep ==
    ASSUME AccountInv, Steady, AccountThereOK',
           \A p \in AccountPods : podPhase'[p] = "absent" => bound'[p] = "none",
           \A n \in Nodes : room'[n] # 0 => Bound(n)' <= room'[n],
           accountPc = "pods" =>
               renewed \subseteq renewed' /\ \A n \in Nodes \ renewed' : room'[n] = room[n]
    PROVE  AccountInv'
BY DEF AccountInv, AccountTypeOK, AccountThereOK, Steady, NodesRead

\* What no one resizes is only added to a node by Bind, and only what fits.
LEMMA PodStepKeeps ==
    ASSUME AccountInv, NEW p \in AccountPods,
           \/ CreatePod(p) \/ RunOrEnd(p) \/ DeletePod(p)
           \/ \E n \in Nodes : Bind(p, n)
           \/ \E a \in Amounts : Resize(p, a)
    PROVE  AccountInv'
<1> DEFINE Unraised(n) == On(n) \ raised
<1>1. /\ AccountThereOK
      /\ \A q \in AccountPods : podPhase[q] = "absent" => bound[q] = "none"
      /\ \A n \in Nodes : room[n] # 0 => Bound(n) <= room[n]
      /\ \A n \in Nodes : room[n] \in Nat
      /\ \A q \in AccountPods : requests[q] \in Nat
      /\ "none" \notin Nodes
  BY AccountAssumption DEF AccountInv, AccountTypeOK, AccountThereOK
<1>2. ASSUME NEW n \in Nodes PROVE Unraised(n) \in SUBSET AccountPods /\ Bound(n) \in Nat
  <2>1. Unraised(n) \in SUBSET AccountPods
    BY DEF On
  <2> HIDE DEF Unraised
  <2>2. Requested(Unraised(n), requests) \in Nat
    BY <1>1, <2>1, UnitsFinite
  <2> QED
    BY <2>1, <2>2 DEF Bound, Unraised
\* Nothing is added to any node.
<1>3. ASSUME UNCHANGED room, AccountThereOK',
             \A n \in Nodes : Unraised(n)' \subseteq Unraised(n),
             \A n \in Nodes : \A q \in Unraised(n)' : requests'[q] <= requests[q]
      PROVE  \A n \in Nodes : room'[n] # 0 => Bound(n)' <= room'[n]
  <2>1. \A q \in AccountPods : requests'[q] \in Nat
    <3>1. requests' \in [AccountPods -> Amounts \cup {0}]
      BY <1>3 DEF AccountThereOK
    <3>2. \A a \in Amounts \cup {0} : a \in Nat
      BY AccountAssumption
    <3> QED
      BY <3>1, <3>2
  <2>2. SUFFICES ASSUME NEW n \in Nodes, room'[n] # 0 PROVE Bound(n)' <= room'[n]
    OBVIOUS
  <2>3. /\ Unraised(n) \in SUBSET AccountPods /\ Unraised(n)' \in SUBSET Unraised(n)
        /\ \A q \in Unraised(n)' : requests'[q] <= requests[q]
    BY <1>2, <1>3
  <2>4. Bound(n)' = Requested(Unraised(n)', requests') /\ Bound(n) = Requested(Unraised(n), requests)
    BY DEF Bound, Requested
  <2> HIDE DEF Unraised
  <2> DEFINE K == Unraised(n)
             L == Unraised(n)'
             q0 == requests'
  <2> HIDE DEF K, L, q0
  <2>5. /\ K \in SUBSET AccountPods /\ L \in SUBSET K
        /\ \A q \in K : requests[q] \in Nat
        /\ \A q \in L : q0[q] \in Nat /\ q0[q] <= requests[q]
    BY <1>1, <2>1, <2>3 DEF K, L, q0
  <2>6. Requested(L, q0) <= Requested(K, requests)
    BY <2>5, RequestedLess
  <2>7. Requested(L, q0) \in Nat
    <3>1. L \in SUBSET AccountPods
      BY <2>5
    <3> QED
      BY <2>5, <3>1, UnitsFinite
  <2>8. Bound(n)' <= Bound(n) /\ Bound(n)' \in Nat
    BY <2>4, <2>6, <2>7 DEF K, L, q0
  <2> QED
    BY <1>1, <1>2, <1>3, <2>2, <2>8
<1>4. CASE CreatePod(p)
  <2>1. PICK a \in Amounts : requests' = [requests EXCEPT ![p] = a]
    BY <1>4 DEF CreatePod
  <2>2. /\ podPhase[p] = "absent" /\ podPhase' = [podPhase EXCEPT ![p] = "Pending"]
        /\ UNCHANGED <<room, bound, raised, renewed>> /\ Steady
    BY <1>4 DEF CreatePod
  <2>3. AccountThereOK'
    BY <1>1, <2>1, <2>2 DEF AccountThereOK, Phases
  <2>4. ASSUME NEW n \in Nodes
        PROVE  Unraised(n)' \subseteq Unraised(n) /\ \A q \in Unraised(n)' : requests'[q] <= requests[q]
    BY <1>1, <2>1, <2>2 DEF AccountThereOK, On
  <2>5. \A q \in AccountPods : podPhase'[q] = "absent" => bound'[q] = "none"
    BY <1>1, <2>2 DEF AccountThereOK
  <2> HIDE DEF Unraised
  <2> QED
    BY <1>3, <2>2, <2>3, <2>4, <2>5, AccountOthersKeep
<1>5. CASE RunOrEnd(p)
  <2>1. /\ bound[p] # "none" /\ UNCHANGED <<room, requests, bound, raised, renewed>> /\ Steady
        /\ podPhase[p] \in {"Pending", "Running"}
        /\ \E e \in {"Running", "Succeeded", "Failed"} : podPhase' = [podPhase EXCEPT ![p] = e]
    BY <1>5 DEF RunOrEnd
  <2>2. AccountThereOK'
    BY <1>1, <2>1 DEF AccountThereOK, Phases
  <2>3. ASSUME NEW n \in Nodes
        PROVE  Unraised(n)' \subseteq Unraised(n) /\ \A q \in Unraised(n)' : requests'[q] <= requests[q]
    BY <1>1, <2>1 DEF AccountThereOK, On
  <2>4. \A q \in AccountPods : podPhase'[q] = "absent" => bound'[q] = "none"
    BY <1>1, <2>1 DEF AccountThereOK
  <2> HIDE DEF Unraised
  <2> QED
    BY <1>3, <2>1, <2>2, <2>3, <2>4, AccountOthersKeep
<1>6. CASE DeletePod(p)
  <2>1. /\ podPhase' = [podPhase EXCEPT ![p] = "absent"]
        /\ bound' = [bound EXCEPT ![p] = "none"]
        /\ requests' = [requests EXCEPT ![p] = 0]
        /\ raised' = raised \ {p}
        /\ UNCHANGED <<room, renewed>> /\ Steady
    BY <1>6 DEF DeletePod
  <2>2. AccountThereOK'
    BY <1>1, <2>1 DEF AccountThereOK, Phases
  <2>3. ASSUME NEW n \in Nodes
        PROVE  Unraised(n)' \subseteq Unraised(n) /\ \A q \in Unraised(n)' : requests'[q] <= requests[q]
    BY <1>1, <2>1 DEF AccountThereOK, On
  <2>4. \A q \in AccountPods : podPhase'[q] = "absent" => bound'[q] = "none"
    BY <1>1, <2>1 DEF AccountThereOK
  <2> HIDE DEF Unraised
  <2> QED
    BY <1>3, <2>1, <2>2, <2>3, <2>4, AccountOthersKeep
<1>7. ASSUME NEW m \in Nodes, Bind(p, m) PROVE AccountInv'
  <2>1. /\ podPhase[p] = "Pending" /\ bound[p] = "none" /\ room[m] # 0
        /\ Taken(m) + requests[p] <= room[m]
        /\ bound' = [bound EXCEPT ![p] = m]
        /\ UNCHANGED <<room, requests, podPhase, raised, renewed>> /\ Steady
    BY <1>7 DEF Bind
  <2>2. AccountThereOK'
    BY <1>1, <2>1 DEF AccountThereOK
  <2>3. \A q \in AccountPods : podPhase'[q] = "absent" => bound'[q] = "none"
    BY <1>1, <2>1 DEF AccountThereOK
  <2>4. ASSUME NEW n \in Nodes, n # m PROVE Bound(n)' = Bound(n)
    BY <1>1, <2>1, <2>4 DEF AccountThereOK, On, Bound
  <2>5. Bound(m)' <= room[m]
    <3>1. On(m)' = On(m) \cup {p} /\ On(m) \in SUBSET AccountPods
      BY <1>1, <2>1 DEF AccountThereOK, On
    <3>2. Requested(On(m) \cup {p}, requests) <= Taken(m) + requests[p]
      BY <1>1, <3>1, RequestedAdds DEF Taken
    <3>3. Requested(On(m)' \ raised', requests) <= Requested(On(m) \cup {p}, requests)
      <4> DEFINE T == On(m) \cup {p}
                 S == On(m)' \ raised'
      <4>1. T \in SUBSET AccountPods /\ S \in SUBSET T
        BY <3>1
      <4> HIDE DEF T, S
      <4>2. \A q \in T : requests[q] \in Nat /\ requests[q] <= requests[q]
        BY <1>1, <4>1
      <4>3. Requested(S, requests) <= Requested(T, requests)
        BY <4>1, <4>2, RequestedLess
      <4> QED
        BY <4>3 DEF T, S
    <3>4. /\ Taken(m) \in Nat
          /\ Requested(On(m) \cup {p}, requests) \in Nat
          /\ Requested(On(m)' \ raised', requests) \in Nat
      <4>1. On(m) \cup {p} \in SUBSET AccountPods /\ On(m)' \ raised' \in SUBSET AccountPods
        BY <3>1
      <4> QED
        BY <1>1, <3>1, <4>1, UnitsFinite DEF Taken
    <3>5. Bound(m)' = Requested(On(m)' \ raised', requests)
      BY <2>1 DEF Bound, Requested
    <3> QED
      BY <1>1, <2>1, <3>2, <3>3, <3>4, <3>5
  <2>6. \A n \in Nodes : room'[n] # 0 => Bound(n)' <= room'[n]
    BY <1>1, <2>1, <2>4, <2>5
  <2> QED
    BY <2>1, <2>2, <2>3, <2>6, AccountOthersKeep
<1>8. ASSUME NEW a \in Amounts, Resize(p, a) PROVE AccountInv'
  <2>1. /\ podPhase[p] = "Running"
        /\ requests' = [requests EXCEPT ![p] = a]
        /\ raised' = IF a > requests[p] THEN raised \cup {p} ELSE raised
        /\ UNCHANGED <<room, bound, podPhase, renewed>> /\ Steady
    BY <1>8 DEF Resize
  <2>2. AccountThereOK'
    BY <1>1, <2>1 DEF AccountThereOK
  <2>3. ASSUME NEW n \in Nodes
        PROVE  Unraised(n)' \subseteq Unraised(n) /\ \A q \in Unraised(n)' : requests'[q] <= requests[q]
    <3>1. On(n)' = On(n) /\ raised \subseteq raised'
      BY <2>1 DEF On
    <3>2. ASSUME NEW q \in On(n) \ raised' PROVE requests'[q] <= requests[q]
      <4>1. q \in AccountPods /\ requests[q] \in Nat /\ requests[p] \in Nat /\ a \in Nat
        BY <1>1, AccountAssumption DEF On
      <4>2. CASE q = p
        BY <1>1, <2>1, <3>2, <4>1, <4>2 DEF AccountThereOK
      <4>3. CASE q # p
        BY <1>1, <2>1, <4>1, <4>3 DEF AccountThereOK
      <4> QED
        BY <4>2, <4>3
    <3> QED
      BY <3>1, <3>2
  <2>4. \A q \in AccountPods : podPhase'[q] = "absent" => bound'[q] = "none"
    BY <1>1, <2>1
  <2> HIDE DEF Unraised
  <2> QED
    BY <1>3, <2>1, <2>2, <2>3, <2>4, AccountOthersKeep
<1> QED
  BY <1>4, <1>5, <1>6, <1>7, <1>8

LEMMA AccountKeeps == AccountInv /\ [AccountNext]_accountVars => AccountInv'
<1> SUFFICES ASSUME AccountInv, [AccountNext]_accountVars PROVE AccountInv'
  OBVIOUS
<1>1. ASSUME NEW n \in Nodes, NodeComesOrGoes(n) PROVE AccountInv'
  <2>1. PICK r \in Rooms \cup {0} : /\ r = 0 \/ Taken(n) <= r
                                  /\ room' = [room EXCEPT ![n] = r]
    BY <1>1 DEF NodeComesOrGoes
  <2>2. /\ UNCHANGED <<requests, bound, podPhase, raised>> /\ Steady
        /\ renewed' = IF accountPc = "pods" THEN renewed \cup {n} ELSE renewed
    BY <1>1 DEF NodeComesOrGoes
  <2>3. AccountThereOK
    BY DEF AccountInv, AccountTypeOK, AccountThereOK
  <2>4. AccountThereOK'
    BY <2>1, <2>2, <2>3 DEF AccountThereOK
  <2>5. \A m \in Nodes : Bound(m)' = Bound(m)
    BY <2>2 DEF Bound, On
  <2>6. Taken(n) <= r => Bound(n) <= r
    <3> DEFINE T == On(n)
               S == On(n) \ raised
    <3>1. T \in SUBSET AccountPods /\ S \in SUBSET T /\ S \in SUBSET AccountPods
      BY DEF On
    <3>2. \A q \in AccountPods : requests[q] \in Nat /\ requests[q] <= requests[q]
      <4>1. \A a \in Amounts \cup {0} : a \in Nat /\ a <= a
        BY AccountAssumption
      <4> QED
        BY <2>3, <4>1 DEF AccountThereOK
    <3>3. Taken(n) = Requested(T, requests) /\ Bound(n) = Requested(S, requests)
      BY DEF Taken, Bound
    <3> HIDE DEF T, S
    <3>4. Requested(S, requests) <= Requested(T, requests)
      BY <3>1, <3>2, RequestedLess
    <3>5. Requested(S, requests) \in Nat /\ Requested(T, requests) \in Nat /\ r \in Nat
      BY <3>1, <3>2, UnitsFinite, AccountAssumption
    <3> QED
      BY <3>3, <3>4, <3>5
  <2>7. \A m \in Nodes : room'[m] # 0 => Bound(m)' <= room'[m]
    BY <2>1, <2>3, <2>5, <2>6 DEF AccountThereOK, AccountInv
  <2>8. accountPc = "pods" =>
            renewed \subseteq renewed' /\ \A m \in Nodes \ renewed' : room'[m] = room[m]
    BY <2>1, <2>2, <2>3 DEF AccountThereOK
  <2> QED
    BY <2>2, <2>4, <2>7, <2>8, AccountOthersKeep DEF AccountInv
<1>2. CASE UNCHANGED accountVars
  <2>1. UNCHANGED <<room, requests, bound, podPhase, raised, accountPc, roomRead, order,
                    podsRead, renewed>>
    BY <1>2 DEF accountVars, accountsThere
  <2> QED
    BY <2>1 DEF AccountInv, AccountTypeOK, Bound, On, NodesRead, Counted, Live, RequestedRead
<1> QED
  BY <1>1, <1>2, AccountCallKeeps, PodStepKeeps DEF AccountNext

\* Without a pod that was resized to more, what is counted is what fits.
LEMMA ExplainsOverfull == AccountInv => OverfullExplained
<1> SUFFICES ASSUME AccountInv, accountPc = "answer", NEW n \in NodesRead \ renewed,
                    ClusterInfoShare(n) > roomRead[n],
                    \A p \in raised \cap DOMAIN podsRead : podsRead[p].node # n
             PROVE  FALSE
  BY DEF OverfullExplained
<1>1. Counted(n) \ raised = Counted(n)
  BY DEF Counted
<1>2. ClusterInfoShare(n) = RequestedRead(Counted(n))
  BY DEF ClusterInfoShare, Counted
<1>3. RequestedRead(Counted(n)) <= roomRead[n]
  BY <1>1 DEF AccountInv
<1>4. RequestedRead(Counted(n)) \in Nat
  BY ReadRequests DEF Counted, AccountInv
<1>5. roomRead[n] \in Nat
  BY AccountAssumption DEF AccountInv, AccountTypeOK, NodesRead
<1> QED
  BY <1>2, <1>3, <1>4, <1>5

LEMMA TasksDoAgree == AccountInv => TasksAgree
<1> SUFFICES ASSUME AccountInv, accountPc = "answer", NEW n \in NodesRead,
                    \A p \in DOMAIN podsRead : podsRead[p].node = n => podsRead[p].phase # "Pending"
             PROVE  n \in UnderPressure
                        <=> ClusterInfoShare(n) * 100 >= MinPressure * roomRead[n]
  BY DEF TasksAgree
<1>1. /\ podsRead \in [DOMAIN podsRead -> PodRecords]
      /\ \A p \in DOMAIN podsRead : podsRead[p].phase # "absent"
  BY DEF AccountInv, AccountTypeOK
<1>2. ASSUME NEW p \in DOMAIN podsRead, podsRead[p].node = n
      PROVE  Live(p) <=> podsRead[p].phase = "Running"
  <2>1. podsRead[p].phase \in Phases
    BY <1>1 DEF PodRecords
  <2>2. podsRead[p].phase # "Pending"
    BY <1>2
  <2> QED
    BY <1>1, <2>1, <2>2 DEF Live, Phases
<1>3. {p \in DOMAIN podsRead : podsRead[p].node = n /\ Live(p)}
        = {p \in DOMAIN podsRead : podsRead[p].node = n /\ podsRead[p].phase = "Running"}
  BY <1>2
<1>4. PressureShare(n) = ClusterInfoShare(n)
  BY <1>3 DEF PressureShare, ClusterInfoShare
<1> QED
  BY <1>4 DEF UnderPressure

LEMMA TopShown == AccountInv => TopNamespacesShown
<1> SUFFICES ASSUME AccountInv PROVE TopNamespacesShown
  OBVIOUS
<1> DEFINE c == Cardinality(Visited)
           k == IF c < Top THEN c ELSE Top
           shown == {PerNamespace[i] : i \in DOMAIN PerNamespace}
<1>1. IsFiniteSet(Visited) /\ Strict(Visited, ByRequests)
  BY ByRequestsStrict
<1>2. c \in Nat /\ k \in 0..c
  BY <1>1, FS_CardinalityType, AccountAssumption
<1>3. Len(InOrder(Visited, ByRequests)) = c
  BY <1>1, Ordered
<1>4. PerNamespace = SubSeq(InOrder(Visited, ByRequests), 1, k)
  BY <1>3 DEF PerNamespace, FirstOf
<1> HIDE DEF k
<1>5. /\ shown \subseteq Visited /\ Cardinality(shown) = k
      /\ \A x \in shown, y \in Visited \ shown : <<x, y>> \in ByRequests
  <2> DEFINE t == SubSeq(InOrder(Visited, ByRequests), 1, k)
             u == {t[i] : i \in DOMAIN t}
  <2>1. /\ u \subseteq Visited /\ Cardinality(u) = k
        /\ \A x \in u, y \in Visited \ u : <<x, y>> \in ByRequests
    BY <1>1, <1>2, CutOffShows
  <2>2. shown = u
    BY <1>4
  <2> HIDE DEF u, shown
  <2> QED
    BY <2>1, <2>2
<1> HIDE DEF shown
<1>6. \A m \in Visited : NamespaceRequests(m) \in Nat
  BY ReadRequests DEF NamespaceRequests, AccountInv
<1>7. ASSUME NEW m \in Visited \ shown, NEW n \in shown
      PROVE  NamespaceRequests(m) <= NamespaceRequests(n)
  <2>1. <<n, m>> \in ByRequests /\ n \in Visited
    BY <1>5
  <2>2. \/ NamespaceRequests(n) > NamespaceRequests(m)
        \/ NamespaceRequests(n) = NamespaceRequests(m)
    BY <2>1 DEF ByRequests
  <2> QED
    BY <1>6, <2>1, <2>2
<1>8. Cardinality(shown) = IF c < Top THEN c ELSE Top
  BY <1>5 DEF k
<1> QED
  BY <1>5, <1>7, <1>8, Zenon DEF TopNamespacesShown, shown

LEMMA UsageBegins == UsageInit => UsageTypeOK
<1> SUFFICES ASSUME UsageInit PROVE UsageTypeOK
  OBVIOUS
<1>1. ASSUME NEW S PROVE NoPods \in Maps(S)
  <2>1. NoPods \in [{} -> S] /\ {} \in SUBSET UsagePods
    BY DEF NoPods
  <2> QED
    BY <2>1 DEF Maps
<1>2. ASSUME NEW S PROVE [UsagePods -> S] \subseteq Maps(S)
  BY UsagePods \in SUBSET UsagePods DEF Maps
<1>3. limits \in Maps(Limits) /\ usage \in Maps(Usages) /\ limitsRead \in Maps(Limits)
      /\ metrics \in Maps(Usages)
  BY <1>1, <1>2 DEF UsageInit
<1>4. DOMAIN metrics = {} /\ scraped = <<>>
  BY DEF UsageInit, NoPods
<1>5. scraped \in Ranges(DOMAIN metrics)
  BY <1>4, NoneVisited
<1> QED
  BY <1>3, <1>5, UsageAssumption DEF UsageInit, UsageTypeOK

LEMMA UsageKeeps == UsageTypeOK /\ [UsageNext]_usageVars => UsageTypeOK'
<1> SUFFICES ASSUME UsageTypeOK, [UsageNext]_usageVars PROVE UsageTypeOK'
  OBVIOUS
<1>1. ASSUME NEW S PROVE NoPods \in Maps(S) /\ DOMAIN NoPods = {}
  <2>1. NoPods \in [{} -> S] /\ {} \in SUBSET UsagePods /\ DOMAIN NoPods = {}
    BY DEF NoPods
  <2> QED
    BY <2>1 DEF Maps
<1>2. /\ limits \in Maps(Limits) /\ usage \in Maps(Usages) /\ limitsRead \in Maps(Limits)
      /\ metrics \in Maps(Usages) /\ scraped \in Ranges(DOMAIN metrics)
      /\ usageEdits \in 0..MaxUsageEdits /\ payload \in Payloads
      /\ usagePc \in {"idle", "pods", "answer"}
  BY DEF UsageTypeOK
<1>3. CASE ReadMetrics
  BY <1>2, <1>3 DEF ReadMetrics, UsageTypeOK
<1>4. CASE ReadLimits
  BY <1>2, <1>4 DEF ReadLimits, UsageTypeOK
<1>5. CASE ReadLimitsFails \/ AnswerUsage
  <2>1. /\ usagePc' = "idle" /\ metrics' = NoPods /\ limitsRead' = NoPods /\ scraped' = <<>>
        /\ UNCHANGED <<limits, usage, usageEdits, payload>>
    BY <1>5 DEF ReadLimitsFails, AnswerUsage, UsageEnd
  <2>2. scraped' \in Ranges(DOMAIN metrics')
    BY <1>1, <2>1, NoneVisited
  <2> QED
    BY <1>1, <1>2, <2>1, <2>2 DEF UsageTypeOK
<1>6. CASE Scrape
  <2>1. PICK u \in Usages : usage' = [p \in DOMAIN limits |-> IF p \in DOMAIN usage THEN usage[p] ELSE u]
    BY <1>6 DEF Scrape
  <2>2. PICK D \in SUBSET UsagePods : limits \in [D -> Limits]
    BY <1>2 DEF Maps
  <2>3. PICK U \in SUBSET UsagePods : usage \in [U -> Usages]
    BY <1>2 DEF Maps
  <2>4. usage' \in [D -> Usages]
    BY <2>1, <2>2, <2>3
  <2>5. usage' \in Maps(Usages)
    BY <2>4 DEF Maps
  <2> QED
    BY <1>2, <1>6, <2>5 DEF Scrape, UsageTypeOK
<1>7. ASSUME NEW p \in UsagePods, Recreate(p) PROVE UsageTypeOK'
  <2>1. PICK D \in SUBSET UsagePods : limits \in [D -> Limits]
    BY <1>2 DEF Maps
  <2>2. limits' \in [D \cup {p} -> Limits] \/ limits' \in [D \ {p} -> Limits]
    BY <1>7, <2>1 DEF Recreate
  <2>3. limits' \in Maps(Limits)
    <3>1. D \cup {p} \in SUBSET UsagePods /\ D \ {p} \in SUBSET UsagePods
      OBVIOUS
    <3> QED
      BY <2>2, <3>1 DEF Maps
  <2>4. usageEdits' \in 0..MaxUsageEdits
    BY <1>2, <1>7, UsageAssumption DEF Recreate
  <2> QED
    BY <1>2, <1>7, <2>3, <2>4 DEF Recreate, UsageTypeOK
<1>8. CASE UNCHANGED usageVars
  BY <1>8 DEF usageVars, UsageTypeOK
<1> QED
  BY <1>3, <1>4, <1>5, <1>6, <1>7, <1>8 DEF UsageNext

\* What is ranked by are numbers, and two pods were not scraped at once.
LEMMA KeysAreNat ==
    ASSUME UsageTypeOK, NEW p \in DOMAIN metrics
    PROVE  /\ \A r \in Resources : Percent(p, r) \in Nat
           /\ UsageKey(p) \in Nat
           /\ (Highest(p) >= High <=> \E r \in Resources : Percent(p, r) >= High)
           /\ Scraped(p) \in Int /\ scraped[Scraped(p)] = p
<1>1. PICK D \in SUBSET UsagePods : metrics \in [D -> Usages]
  BY DEF UsageTypeOK, Maps
<1>2. PICK E \in SUBSET UsagePods : limitsRead \in [E -> Limits]
  BY DEF UsageTypeOK, Maps
<1>3. \A r \in Resources : metrics[p][r] \in Nat
  <2>1. metrics[p] \in [cpu : Nat, memory : Nat]
    BY <1>1, UsageAssumption
  <2> QED
    BY <2>1 DEF Resources
<1>4. ASSUME NEW r \in Resources PROVE Percent(p, r) \in Nat
  <2>1. CASE p \in DOMAIN limitsRead /\ limitsRead[p][r] > 0
    <3>1. limitsRead[p] \in [cpu : Nat, memory : Nat]
      BY <1>2, <2>1, UsageAssumption
    <3>2. limitsRead[p][r] \in Nat \ {0}
      BY <2>1, <3>1 DEF Resources
    <3> DEFINE l == limitsRead[p][r]
               m == metrics[p][r] * 100
    <3>3. l \in Nat \ {0} /\ m \in Nat
      BY <1>3, <3>2
    <3> HIDE DEF l, m
    <3>4. m \div l \in Nat
      BY <3>3, SMTT(30)
    <3> QED
      BY <2>1, <3>4 DEF Percent, l, m
  <2> QED
    BY <2>1 DEF Percent
<1>5. Percent(p, "cpu") \in Nat /\ Percent(p, "memory") \in Nat
  BY <1>4 DEF Resources
<1>6. Highest(p) \in Nat
  BY <1>5 DEF Highest
<1>7. Highest(p) >= High <=> \E r \in Resources : Percent(p, r) >= High
  BY <1>5 DEF Highest, Resources, High
<1>8. UsageKey(p) \in Nat
  <2>1. IF payload.resource = "memory" THEN "memory" \in Resources ELSE "cpu" \in Resources
    BY DEF Resources
  <2> QED
    BY <1>3, <1>4, <1>6, <2>1 DEF UsageKey
<1>9. Scraped(p) \in Int /\ scraped[Scraped(p)] = p
  <2>1. \E n : scraped \in [1..n -> DOMAIN metrics]
    BY Zenon DEF UsageTypeOK, Ranges
  <2>2. {scraped[i] : i \in DOMAIN scraped} = DOMAIN metrics
    BY Zenon DEF UsageTypeOK, Ranges
  <2>3. \E i \in DOMAIN scraped : scraped[i] = p
    BY <2>2, Zenon
  <2>4. Scraped(p) \in DOMAIN scraped /\ scraped[Scraped(p)] = p
    BY <2>3 DEF Scraped
  <2> QED
    BY <2>1, <2>4
<1> QED
  BY <1>4, <1>7, <1>8, <1>9

LEMMA ByKeyStrict == ASSUME UsageTypeOK PROVE IsFiniteSet(Scored) /\ Strict(Scored, ByKey)
<1>1. DOMAIN metrics \in SUBSET UsagePods
  BY DEF UsageTypeOK, Maps
<1>2. Scored \in SUBSET UsagePods
  BY <1>1 DEF Scored
<1>3. IsFiniteSet(Scored)
  BY <1>2, UsageAssumption, FS_Subset
<1>4. \A p \in Scored : UsageKey(p) \in Nat /\ Scraped(p) \in Int /\ scraped[Scraped(p)] = p
  BY KeysAreNat DEF Scored
<1>5. ASSUME NEW p \in Scored, NEW q \in Scored
      PROVE  <<p, q>> \in ByKey
                 <=> UsageKey(p) > UsageKey(q) \/ (UsageKey(p) = UsageKey(q) /\ Scraped(p) < Scraped(q))
  BY DEF ByKey
<1>6. ASSUME NEW x \in Scored, NEW y \in Scored, NEW z \in Scored,
             <<x, y>> \in ByKey, <<y, z>> \in ByKey
      PROVE  <<x, z>> \in ByKey
  BY <1>4, <1>5, <1>6
<1>7. \A x \in Scored : <<x, x>> \notin ByKey
  BY <1>4, <1>5
<1>8. ASSUME NEW x \in Scored, NEW y \in Scored, x # y
      PROVE  <<x, y>> \in ByKey \/ <<y, x>> \in ByKey
  <2>1. Scraped(x) # Scraped(y)
    BY <1>4, <1>8
  <2> QED
    BY <1>4, <1>5, <2>1
<1> QED
  BY <1>3, <1>6, <1>7, <1>8 DEF Strict

LEMMA RanksHonestly == UsageTypeOK => RankHonest
<1> SUFFICES ASSUME UsageTypeOK PROVE RankHonest
  OBVIOUS
<1> DEFINE c == Cardinality(Scored)
           k == IF CutOff THEN payload.limit ELSE c
           shown == {ShownPods[i] : i \in DOMAIN ShownPods}
<1>1. IsFiniteSet(Scored) /\ Strict(Scored, ByKey)
  BY ByKeyStrict
<1>2. Ranked \in Seq(Scored) /\ Len(Ranked) = c /\ c \in Nat
  BY <1>1, Ordered DEF Ranked
<1>3. payload.limit \in Nat
  BY UsageAssumption DEF UsageTypeOK
<1>4. k \in 0..c
  BY <1>2, <1>3 DEF CutOff
<1>5. ShownPods = SubSeq(InOrder(Scored, ByKey), 1, k)
  <2>1. SubSeq(Ranked, 1, Len(Ranked)) = Ranked
    BY <1>2, SubSeqFull
  <2> QED
    BY <1>2, <2>1 DEF ShownPods, Ranked
<1> HIDE DEF k
<1>6. /\ shown \subseteq Scored /\ Cardinality(shown) = k /\ Len(ShownPods) = k
      /\ \A x \in shown, y \in Scored \ shown : <<x, y>> \in ByKey
  <2> DEFINE t == SubSeq(InOrder(Scored, ByKey), 1, k)
             u == {t[i] : i \in DOMAIN t}
  <2>1. /\ u \subseteq Scored /\ Cardinality(u) = k /\ Len(t) = k
        /\ \A x \in u, y \in Scored \ u : <<x, y>> \in ByKey
    BY <1>1, <1>4, CutOffShows
  <2>2. shown = u /\ ShownPods = t
    BY <1>5
  <2> HIDE DEF u, shown, t
  <2> QED
    BY <2>1, <2>2
<1> HIDE DEF shown
<1>7. ASSUME NEW p \in shown, NEW q \in Scored \ shown PROVE UsageKey(q) <= UsageKey(p)
  <2>1. <<p, q>> \in ByKey /\ p \in Scored
    BY <1>6
  <2>2. UsageKey(p) > UsageKey(q) \/ UsageKey(p) = UsageKey(q)
    BY <2>1 DEF ByKey
  <2>3. UsageKey(p) \in Nat /\ UsageKey(q) \in Nat
    BY <2>1, KeysAreNat DEF Scored
  <2> QED
    BY <2>2, <2>3
<1>8. HighUsage = Cardinality({p \in Scored : \E r \in Resources : Percent(p, r) >= High})
  <2>1. {p \in Scored : Highest(p) >= High} = {p \in Scored : \E r \in Resources : Percent(p, r) >= High}
    BY KeysAreNat DEF Scored
  <2> QED
    BY <2>1 DEF HighUsage
<1>9. shown # Scored => Len(ShownPods) = payload.limit
  <2>1. CASE k = payload.limit
    BY <1>6, <2>1
  <2>2. CASE k = c
    <3>1. shown \in SUBSET Scored /\ Cardinality(Scored) = Cardinality(shown)
      BY <1>6, <2>2
    <3> QED
      BY <1>1, <3>1, FS_Subset, Zenon
  <2> QED
    BY <2>1, <2>2 DEF k
<1>10. Scored = {p \in DOMAIN metrics : KeptPod(p)}
  BY DEF Scored
<1> QED
  BY <1>6, <1>7, <1>8, <1>9, <1>10, Zenon DEF RankHonest, shown

\* What is shown of what pods ask for and use is true, for any pods, nodes, limits,
\* usages and calls.
THEOREM AccountsAreHonest == AccountSpec /\ UsageSpec => []AccountsHonest
<1>1. AccountInv /\ UsageTypeOK => AccountsHonest
  BY ExplainsOverfull, TasksDoAgree, TopShown, RanksHonestly DEF AccountsHonest, AccountInv
<1> QED
  BY <1>1, AccountBegins, AccountKeeps, UsageBegins, UsageKeeps, PTL DEF AccountSpec, UsageSpec
-----------------------------------------------------------------------------
(* The verdict on the cluster *)

\* A pod that its Deployment owns never succeeds; one that runs, and has ended before,
\* started after that.
PodCourse ==
    /\ phase # "Succeeded"
    /\ since <= ended
    /\ main = "run" => phase = "Running"
    /\ phase = "Failed" => main = "exit"

\* What is wrong all the time is found by the list that shows it, and in a cluster
\* that is well all the time nothing is.
SoFar ==
    /\ \A read \in lasting : IF read = "well" THEN Well ELSE Wrong(read)
    /\ pc = "pods" => found = {}
    /\ pc \in {"workloads", "nodes", "events"} /\ "pods" \in lasting => "pods" \in found
    /\ pc \in {"nodes", "events"} /\ "workloads" \in lasting => "workloads" \in found
    /\ pc = "events" /\ "nodes" \in lasting => "nodes" \in found
    /\ "well" \in lasting => found = {}

WatchInv == WatchTypeOK /\ PodCourse /\ SoFar

LEMMA HealthBounds ==
    /\ PendingGrace \in Nat /\ NodeGrace \in Nat /\ RestartWindow \in Nat
    /\ Threshold \in Nat /\ MaxRestarts \in Nat
    /\ Past = RestartWindow + 1 /\ Past \in Nat
  BY HealthAssumption DEF Past

\* Ticks are counted up to a bound.
LEMMA CappedIs ==
    ASSUME NEW n \in Nat, NEW b \in Nat
    PROVE  Capped(n, b) \in 0..b /\ \A m \in Nat : m <= n => Capped(m, b) <= Capped(n, b)
  BY DEF Capped

\* One look at a pod that is stuck, a node that is lost, a cluster that is well.
LEMMA StuckIsUnhealthy == ASSUME WatchInv, PodStuck PROVE Unhealthy
<1>1. age \in Nat /\ restarts \in Nat /\ since \in Nat /\ ended \in Nat
  BY HealthBounds DEF WatchInv, WatchTypeOK, TypeOK
<1>2. CASE phase = "Failed"
  BY <1>2 DEF Unhealthy, StillStarting
<1>3. CASE phase = "Pending" /\ (age = PendingGrace \/ Failing(init) \/ Failing(main))
  BY <1>1, <1>3, HealthBounds DEF Unhealthy, StillStarting, hasFailingContainer
<1>4. CASE phase = "Running" /\ main = "backoff"
  BY <1>4 DEF Unhealthy, StillStarting, Waiting
<1>5. CASE phase = "Running" /\ restarts > Threshold /\ ended <= RestartWindow
  <2>1. SinceRestart <= RestartWindow
    BY <1>1, <1>5, HealthBounds DEF SinceRestart, WatchInv, PodCourse
  <2> QED
    BY <1>5, <2>1 DEF Unhealthy, StillStarting, HighRestarts
<1> QED
  BY <1>2, <1>3, <1>4, <1>5 DEF PodStuck

LEMMA WellIsClean == ASSUME WatchInv, Well PROVE ~Unhealthy /\ ~Degraded /\ ~NodeIssue
<1>1. phase = "Running" /\ ~Waiting(main)
  BY DEF Well, WatchInv, PodCourse, Waiting
<1>2. ~HighRestarts
  BY HealthBounds DEF Well, HighRestarts, SinceRestart, WatchInv, WatchTypeOK, TypeOK
<1> QED
  BY <1>1, <1>2 DEF Unhealthy, Degraded, NodeIssue, Well

LEMMA WrongIsFound == ASSUME WatchInv, NEW read \in Reads, Wrong(read) PROVE Found(read)
<1>1. CASE read = "pods"
  BY <1>1, StuckIsUnhealthy DEF Wrong, Found
<1>2. CASE read = "workloads"
  BY <1>2 DEF Wrong, Found, Degraded
<1>3. CASE read = "nodes"
  <2>1. NodeLost /\ nodeAge >= NodeGrace
    BY <1>3, HealthBounds DEF Wrong, NodeLost
  <2> QED
    BY <1>3, <2>1 DEF Found, NodeIssue, NodeLost
<1> QED
  BY <1>1, <1>2, <1>3 DEF Reads, Wrong

LEMMA WellFindsNothing == ASSUME WatchInv, Well PROVE \A read \in Reads : ~Found(read)
  BY WellIsClean DEF Reads, Found

-----------------------------------------------------------------------------
\* What the cluster does by itself.
Happens ==
    \/ InitStep \/ PullFails \/ PullAgain \/ Start \/ Crash \/ BackOff \/ Restart \/ Fail
    \/ Delete \/ Replace \/ Reconcile \/ NodeChanges \/ Tick

LEMMA HappensKeeps ==
    ASSUME WatchInv, Happens
    PROVE  TypeOK' /\ PodCourse' /\ UNCHANGED <<pc, found, verdict>>
<1> USE HealthBounds
<1>0. /\ age \in 0..PendingGrace /\ restarts \in 0..MaxRestarts /\ nodeAge \in 0..NodeGrace
      /\ since \in 0..Past /\ ended \in 0..Past
  BY DEF WatchInv, WatchTypeOK, TypeOK
<1>1. CASE InitStep \/ PullFails \/ PullAgain
  BY <1>1 DEF InitStep, PullFails, PullAgain, Rest, node, WatchInv, WatchTypeOK, TypeOK, PodCourse
<1>2. CASE Start
  BY <1>0, <1>2 DEF Start, Rest, node, WatchInv, WatchTypeOK, TypeOK, PodCourse
<1>3. CASE Crash \/ BackOff
  BY <1>0, <1>3 DEF Crash, BackOff, Rest, node, WatchInv, WatchTypeOK, TypeOK, PodCourse
<1>4. CASE Restart
  <2>1. restarts' \in 0..MaxRestarts
    BY <1>0, <1>4, CappedIs DEF Restart
  <2> QED
    BY <1>0, <1>4, <2>1 DEF Restart, Rest, node, WatchInv, WatchTypeOK, TypeOK, PodCourse
<1>5. CASE Fail
  BY <1>0, <1>5 DEF Fail, Rest, node, WatchInv, WatchTypeOK, TypeOK, PodCourse
<1>6. CASE Delete \/ Replace
  <2>1. {deleting', nodeUp', disrupted'} \subseteq BOOLEAN
    BY <1>6, Zenon DEF Delete, Replace, node, WatchInv, WatchTypeOK, TypeOK
  <2>2. CASE Delete
    <3>1. UNCHANGED <<init, main, phase, age, restarts, since, ended, ready, node, pc, found,
                      verdict>>
      BY <2>2, Zenon DEF Delete
    <3> QED
      BY <1>0, <2>1, <3>1 DEF node, WatchInv, WatchTypeOK, TypeOK, PodCourse
  <2>3. CASE Replace
    BY <1>0, <2>1, <2>3 DEF Replace, node, WatchInv, WatchTypeOK, TypeOK, PodCourse
  <2> QED
    BY <1>6, <2>2, <2>3
<1>7. CASE Reconcile
  BY <1>7 DEF Reconcile, pod, node, WatchInv, WatchTypeOK, TypeOK, PodCourse
<1>8. CASE NodeChanges
  <2>1. {deleting', nodeUp', disrupted'} \subseteq BOOLEAN
    BY <1>8, Zenon DEF NodeChanges, pod, WatchInv, WatchTypeOK, TypeOK
  <2>2. nodeAge' \in 0..NodeGrace
    BY <1>0, <1>8 DEF NodeChanges
  <2> QED
    BY <1>8, <2>1, <2>2 DEF NodeChanges, pod, WatchInv, WatchTypeOK, TypeOK, PodCourse
<1>9. CASE Tick
  <2>1. /\ age' \in 0..PendingGrace /\ nodeAge' \in 0..NodeGrace
        /\ since' \in 0..Past /\ ended' \in 0..Past
    BY <1>0, <1>9, CappedIs DEF Tick
  <2>2. since' <= ended'
    BY <1>0, <1>9, CappedIs DEF Tick, WatchInv, PodCourse
  <2> QED
    BY <1>9, <2>1, <2>2 DEF Tick, WatchInv, WatchTypeOK, TypeOK, PodCourse
<1> QED
  BY <1>1, <1>2, <1>3, <1>4, <1>5, <1>6, <1>7, <1>8, <1>9 DEF Happens

\* A list changes nothing in the cluster.
LEMMA ReadsKeep ==
    ASSUME WatchInv, Read \/ ReadFails
    PROVE  /\ TypeOK' /\ PodCourse'
           /\ \A read : Wrong(read)' <=> Wrong(read)
           /\ Well' <=> Well
<1>1. cluster' = cluster
  BY DEF Read, ReadFails
<1>2. UNCHANGED <<init, main, phase, age, restarts, since, ended, deleting, ready, nodeUp, nodeAge,
                  disrupted>>
  BY <1>1 DEF cluster, pod, node
<1>3. pc' \in Reads
  BY DEF Read, ReadFails, After, Reads, WatchInv, WatchTypeOK, TypeOK
<1>4. found' \subseteq Reads /\ verdict' \in [healthy : BOOLEAN, names : SUBSET Reads]
  <2>1. Named(pc) \subseteq Reads
    BY DEF Named, WatchInv, WatchTypeOK, TypeOK
  <2>2. \A names \in SUBSET Reads :
            [healthy |-> names = {}, names |-> names] \in [healthy : BOOLEAN, names : SUBSET Reads]
    OBVIOUS
  <2>3. CASE Read /\ pc = "events"
    <3>1. verdict' = [healthy |-> Named(pc) = {}, names |-> Named(pc)] /\ found' = {}
      BY <2>3 DEF Read, Report
    <3>2. [healthy |-> Named(pc) = {}, names |-> Named(pc)]
              \in [healthy : BOOLEAN, names : SUBSET Reads]
      BY <2>1, <2>2
    <3> QED
      BY <3>1, <3>2, Zenon
  <2>4. CASE (Read /\ pc # "events") \/ ReadFails
    BY <2>1, <2>4 DEF Read, ReadFails, WatchInv, WatchTypeOK, TypeOK
  <2> QED
    BY <2>3, <2>4
<1> QED
  BY <1>2, <1>3, <1>4 DEF WatchInv, WatchTypeOK, TypeOK, PodCourse, Wrong, PodStuck, Failing,
                          NodeLost, Well

\* What lasts holds now.
LEMMA LastingHolds ==
    ASSUME WatchInv, WatchNext
    PROVE  /\ \A read \in lasting' : IF read = "well" THEN Well' ELSE Wrong(read)'
           /\ lasting' \subseteq Reads \cup {"well"}
           /\ pc' # "pods" => lasting' \subseteq lasting
<1>1. lasting' \subseteq Holding' /\ (pc' # "pods" => lasting' \subseteq lasting)
  BY DEF WatchNext
<1>2. "well" \notin Reads
  BY DEF Reads
<1>3. \A read \in Holding' : IF read = "well" THEN Well' ELSE Wrong(read)'
  BY <1>2 DEF Holding
<1>4. Holding' \subseteq Reads \cup {"well"}
  BY DEF Holding
<1> QED
  BY <1>1, <1>3, <1>4

LEMMA ReadSoFar == ASSUME WatchInv, WatchNext, Read PROVE SoFar'
<1> DEFINE new == IF pc = "events" THEN {} ELSE Named(pc)
<1>1. found' = new /\ pc' = After(pc) /\ pc \in Reads
  BY DEF Read, Report, WatchInv, WatchTypeOK, TypeOK
<1>2. \A read \in lasting' : IF read = "well" THEN Well ELSE Wrong(read)
  BY LastingHolds, ReadsKeep
<1>3. pc \in lasting' => pc \in Named(pc)
  <2>1. pc # "well"
    BY <1>1 DEF Reads
  <2> QED
    BY <1>1, <1>2, <2>1, WrongIsFound DEF Named
<1>4. CASE pc = "pods"
  BY <1>1, <1>2, <1>3, <1>4, WellFindsNothing, LastingHolds DEF SoFar, WatchInv, After, Named
<1>5. CASE pc = "workloads"
  BY <1>1, <1>2, <1>3, <1>5, WellFindsNothing, LastingHolds DEF SoFar, WatchInv, After, Named
<1>6. CASE pc = "nodes"
  BY <1>1, <1>2, <1>3, <1>6, WellFindsNothing, LastingHolds DEF SoFar, WatchInv, After, Named
<1>7. CASE pc = "events"
  BY <1>1, <1>7, LastingHolds DEF SoFar, After
<1> QED
  BY <1>1, <1>4, <1>5, <1>6, <1>7 DEF Reads

LEMMA WatchStep == ASSUME WatchInv, [WatchNext]_watchVars PROVE WatchInv'
<1>1. CASE WatchNext /\ Read
  BY <1>1, ReadsKeep, ReadSoFar, LastingHolds DEF WatchInv, WatchTypeOK
<1>2. CASE WatchNext /\ ReadFails
  <2>1. SoFar'
    BY <1>2, LastingHolds DEF ReadFails, SoFar
  <2> QED
    BY <1>2, <2>1, ReadsKeep, LastingHolds DEF WatchInv, WatchTypeOK
<1>3. CASE WatchNext /\ Happens
  <2>1. TypeOK' /\ PodCourse' /\ UNCHANGED <<pc, found, verdict>>
    BY <1>3, HappensKeeps
  <2>2. SoFar'
    BY <1>3, <2>1, LastingHolds DEF SoFar, WatchInv
  <2> QED
    BY <1>3, <2>1, <2>2, LastingHolds DEF WatchInv, WatchTypeOK
<1>4. CASE UNCHANGED watchVars
  BY <1>4 DEF watchVars, vars, cluster, pod, node, WatchInv, WatchTypeOK, TypeOK, PodCourse, SoFar,
              Wrong, PodStuck, Failing, NodeLost, Well
<1> QED
  BY <1>1, <1>2, <1>3, <1>4 DEF WatchNext, Next, Happens

LEMMA WatchBegins == ASSUME WatchInit PROVE WatchInv
<1>1. TypeOK /\ PodCourse
  <2>1. {deleting, nodeUp, disrupted} \subseteq BOOLEAN
    BY Zenon DEF WatchInit, Init
  <2>2. verdict \in [healthy : BOOLEAN, names : SUBSET Reads]
    BY DEF WatchInit, Init
  <2> QED
    BY HealthBounds, <2>1, <2>2 DEF WatchInit, Init, TypeOK, Reads, PodCourse
<1>2. "well" \notin Reads /\ lasting = Holding /\ main # "run" /\ pc = "pods" /\ found = {}
  BY DEF Reads, WatchInit, Init
<1>3. lasting \subseteq Reads \cup {"well"} /\ SoFar
  BY <1>2 DEF Holding, SoFar, Well
<1> QED
  BY <1>1, <1>3 DEF WatchInv, WatchTypeOK

\* What list_pods shows to wait for a failure is a container that does.
LEMMA FlagsFailures == ASSUME WatchInv PROVE FailuresFlagged
<1> SUFFICES ASSUME Failing(getPodStatus) PROVE Unhealthy
  BY DEF FailuresFlagged
<1>1. Failing(main) /\ Waiting(main)
  BY DEF getPodStatus, Failing, Waiting, WatchInv, WatchTypeOK, TypeOK
<1> QED
  BY <1>1 DEF Unhealthy, StillStarting, hasFailingContainer, WatchInv, PodCourse

\* cluster_health, for any grace periods, restart window and threshold: a pod that
\* list_pods shows to wait for a failure is flagged, what is wrong during a whole call is
\* in its report, and a cluster that is well during one, or has recovered, is called
\* healthy.
THEOREM ReportsAreHonest == WatchSpec => ReportsHonest
<1> DEFINE Told == pc = "events" /\ Read =>
                       /\ lasting \cap Reads \subseteq verdict'.names
                       /\ verdict'.healthy <=> verdict'.names = {}
                       /\ "well" \in lasting => verdict'.healthy
<1>1. WatchInit => WatchInv
  BY WatchBegins
<1>2. WatchInv /\ [WatchNext]_watchVars => WatchInv'
  BY WatchStep
<1>3. ASSUME WatchInv, pc = "events", Read PROVE Told
  <2>1. verdict' = [healthy |-> found = {}, names |-> found]
    BY <1>3 DEF Read, Report, Named, Found
  <2>2. lasting \cap Reads \subseteq found
    <3>1. "events" \notin lasting
      BY <1>3 DEF WatchInv, SoFar, Wrong
    <3> QED
      BY <1>3, <3>1 DEF WatchInv, SoFar, Reads
  <2> QED
    BY <1>3, <2>1, <2>2 DEF WatchInv, SoFar
<1>4. WatchInv /\ [WatchNext]_watchVars => [Told]_watchVars
  BY <1>3
<1>5. WatchInv => WatchTypeOK /\ FailuresFlagged
  BY FlagsFailures DEF WatchInv
<1> QED
  BY <1>1, <1>2, <1>4, <1>5, PTL DEF WatchSpec, ReportsHonest, WholeCallIsTold
=============================================================================
