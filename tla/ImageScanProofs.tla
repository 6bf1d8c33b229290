---------------------------- MODULE ImageScanProofs ----------------------------
(***************************************************************************)
(* running_image_vulnerabilities for any pods, repositories, platforms,    *)
(* findings, numbers of workers and sizes of the requests.                 *)
(*                                                                         *)
(* No two workers have the same item (PoolInv); what a worker has done of  *)
(* its item is in StageOf, and what all of them have done so far is in     *)
(* Resolving and Finding: an item is still to be fed, at work, or done,    *)
(* unless forEach has its first error.  A batch counts for a finding once  *)
(* its worker has read the page with that finding, or failed (AskedFor).   *)
(***************************************************************************)
EXTENDS ImageScan, FiniteSetTheorems, TLAPS

OnRepo == {"image", "merge"}
OnBatch == {"coverage", "findings", "mark"}

PoolInv ==
    /\ phase \in {"pods", "done"} => \A w \in Workers : wpc[w] = "out"
    /\ phase = "resolve" => \A w \in Workers : wpc[w] \in {"ready", "out"} \cup OnRepo
    /\ phase = "find" => \A w \in Workers : wpc[w] \in {"ready", "out"} \cup OnBatch
    /\ closed /\ phase \in {"resolve", "find"} => unfed = {} \/ first # None
    /\ \A w \in Workers : wpc[w] \in OnRepo \cup OnBatch =>
          /\ item[w] \notin unfed
          /\ \A v \in Workers \ {w} :
                wpc[v] \in OnRepo \cup OnBatch => item[v] # item[w]
    /\ phase # "done" => outcome = None

\* The images of the repository a worker resolves.
OfRepo(w) == {x \in running : RepoOf[x] = item[w]}

\* The findings of a batch are counted, but for some that are left to read.
ReadBut(b, leaving) ==
    \A f \in FindingsOf(b) \ leaving : FoundOn[f] \in Keys => counted[f] > 0

StageOf(w) ==
    /\ wpc[w] \in OnRepo =>
          /\ todo[w] \subseteq OfRepo(w) /\ got[w] \subseteq OfRepo(w)
          /\ got[w] \cap todo[w] = {}
          /\ failed[w] + Cardinality(got[w]) + Cardinality(todo[w]) = Cardinality(OfRepo(w))
    /\ wpc[w] = "merge" => todo[w] = {}
    /\ wpc[w] \in OnBatch => item[w] \in Batches /\ got[w] \subseteq Batch(item[w])
    /\ wpc[w] = "findings" => todo[w] \subseteq FindingsOf(item[w]) /\ ReadBut(item[w], todo[w])
    /\ wpc[w] = "mark" => ReadBut(item[w], {})

StageInv == \A w \in Workers : StageOf(w)

\* The images whose repositories are done with.
Merged ==
    {x \in running : /\ RepoOf[x] \notin unfed
                     /\ \A w \in Workers : wpc[w] \in OnRepo => item[w] # RepoOf[x]}

Resolving ==
    /\ phase = "pods" => resolved = {} /\ unresolved = 0
    /\ phase = "resolve" /\ first = None =>
          /\ resolved \subseteq Merged
          /\ unresolved + Cardinality(resolved) = Cardinality(Merged)
    /\ phase = "find" \/ outcome = "complete" =>
          unresolved + Cardinality(resolved) = Cardinality(running)

Finding ==
    /\ phase \in {"pods", "resolve"} =>
          finished = {} /\ assessed = {} /\ \A f \in Findings : counted[f] = 0
    /\ phase = "find" => unfed \subseteq Batches
    /\ phase = "find" /\ first = None =>
          \A b \in Batches : \/ b \in unfed \cup finished
                             \/ \E w \in Workers : wpc[w] \in OnBatch /\ item[w] = b
    /\ outcome = "complete" => Batches \subseteq finished
    /\ \A b \in finished : ReadBut(b, {})

\* The batches that a finding may have been counted for.
AskedFor(f) ==
    {b \in Batches : /\ f \in FindingsOf(b) /\ b \notin unfed
                     /\ \A w \in Workers : item[w] = b =>
                            /\ wpc[w] # "coverage"
                            /\ wpc[w] = "findings" => f \notin todo[w]}

Counting ==
    phase \in {"find", "done"} => \A f \in Findings : counted[f] <= Cardinality(AskedFor(f))

Inv == TypeOK /\ PoolInv /\ StageInv /\ Resolving /\ Finding /\ AssessedWereRead /\ Counting

-----------------------------------------------------------------------------
(* The platform images and their batches *)

\* Sets of images, and two that are disjoint.
LEMMA Sizes ==
    ASSUME NEW S \in SUBSET Images
    PROVE  /\ IsFiniteSet(S) /\ Cardinality(S) \in Nat
           /\ \A T \in SUBSET Images :
                S \cap T = {} => Cardinality(S \cup T) = Cardinality(S) + Cardinality(T)
           /\ \A T \in SUBSET S : Cardinality(S) = Cardinality(T) + Cardinality(S \ T)
<1>1. \A T \in SUBSET Images : IsFiniteSet(T) /\ Cardinality(T) \in Nat
  BY ScanAssumption, FS_Subset, FS_CardinalityType
<1>2. ASSUME NEW T \in SUBSET Images, NEW R \in SUBSET Images, R \cap T = {}
      PROVE  Cardinality(R \cup T) = Cardinality(R) + Cardinality(T)
  BY <1>1, <1>2, FS_Union, FS_EmptySet
<1>3. ASSUME NEW T \in SUBSET S
      PROVE  Cardinality(S) = Cardinality(T) + Cardinality(S \ T)
  <2>1. T \cup (S \ T) = S /\ T \cap (S \ T) = {} /\ T \in SUBSET Images /\ S \ T \in SUBSET Images
    OBVIOUS
  <2> QED
    BY <1>2, <2>1
<1> QED
  BY <1>1, <1>2, <1>3

\* There are finitely many platform images, since an image has finitely many.
LEMMA KeysFinite ==
    ASSUME NEW R \in SUBSET Images
    PROVE  LET K == UNION {{RepoOf[i]} \X PlatformsOf[i] : i \in R}
           IN  IsFiniteSet(K) /\ K \subseteq Nat \X Nat
<1> DEFINE f == [i \in R |-> {RepoOf[i]} \X PlatformsOf[i]]
           K == {{RepoOf[i]} \X PlatformsOf[i] : i \in R}
<1>1. IsFiniteSet(R)
  BY Sizes
<1>2. f \in Surjection(R, K)
  BY DEF Surjection
<1> HIDE DEF f
<1>3. IsFiniteSet(K)
  BY <1>1, <1>2, FS_Surjection
<1>4. ASSUME NEW T \in K PROVE IsFiniteSet(T)
  <2>1. PICK i \in R : T = {RepoOf[i]} \X PlatformsOf[i]
    OBVIOUS
  <2>2. IsFiniteSet({RepoOf[i]}) /\ IsFiniteSet(PlatformsOf[i])
    BY ScanAssumption, FS_Singleton
  <2> QED
    BY <2>1, <2>2, FS_Product
<1>5. IsFiniteSet(UNION K)
  BY <1>3, <1>4, FS_UNION
<1>6. UNION K \subseteq Nat \X Nat
  BY ScanAssumption
<1> QED
  BY <1>5, <1>6

LEMMA KeysType == TypeOK => IsFiniteSet(Keys) /\ Keys \subseteq Nat \X Nat
  BY KeysFinite DEF TypeOK, Keys

\* The batches cover all platform images: rounding up makes room for the last.
LEMMA Rounding ==
    ASSUME NEW n \in Nat, NEW p \in Nat, NEW h \in Nat \ {0}, p < n
    PROVE  /\ p \div h \in Nat
           /\ (p \div h) + 1 <= (n + h - 1) \div h
<1> DEFINE q == p \div h
           m == (n + h - 1) \div h
<1>1. q \in Nat /\ q * h <= p
  BY SMTT(30)
<1>2. m \in Nat /\ n + h - 1 < (m + 1) * h
  BY SMTT(30)
<1> HIDE DEF q, m
<1>3. (q + 1) * h < (m + 1) * h
  <2>1. (q + 1) * h = q * h + h
    BY <1>1, SMT
  <2>2. q * h \in Nat /\ (q + 1) * h \in Nat /\ (m + 1) * h \in Nat
    BY <1>1, <1>2, SMT
  <2> QED
    BY <1>1, <1>2, <2>1, <2>2
<1>4. q < m
  BY <1>1, <1>2, <1>3, SMTT(30)
<1> QED
  BY <1>1, <1>2, <1>4 DEF q, m

LEMMA BatchesCover ==
    ASSUME TypeOK, NEW k \in Keys
    PROVE  \E b \in Batches : k \in Batch(b)
<1> DEFINE n == Cardinality(Keys)
           p == Position(k)
<1>1. IsFiniteSet(Keys)
  BY KeysType
<1>2. n \in Nat
  BY <1>1, FS_CardinalityType
<1>3. p \in Nat /\ p < n
  <2>1. {j \in Keys : Before(j, k)} \subseteq Keys \ {k}
    BY KeysType DEF Before
  <2>2. IsFiniteSet(Keys \ {k}) /\ Cardinality(Keys \ {k}) = n - 1
    BY <1>1, FS_RemoveElement
  <2>3. p \in Nat /\ p <= n - 1
    BY <2>1, <2>2, FS_Subset, FS_CardinalityType DEF Position
  <2> QED
    BY <1>2, <2>3
<1>4. HashesPerCall \in Nat \ {0}
  BY ScanAssumption
<1> HIDE DEF n, p
<1>5. p \div HashesPerCall \in Nat
      /\ (p \div HashesPerCall) + 1 <= (n + HashesPerCall - 1) \div HashesPerCall
  BY <1>2, <1>3, <1>4, Rounding
<1>6. (n + HashesPerCall - 1) \div HashesPerCall \in Int
  BY <1>2, <1>4
<1>7. (p \div HashesPerCall) + 1 \in Batches
  BY <1>5, <1>6 DEF Batches, n
<1>8. k \in Batch((p \div HashesPerCall) + 1)
  BY <1>5 DEF Batch, p
<1> QED
  BY <1>7, <1>8

LEMMA BatchesFinite == TypeOK => Batches \subseteq Nat /\ IsFiniteSet(Batches)
<1> SUFFICES ASSUME TypeOK PROVE Batches \subseteq Nat /\ IsFiniteSet(Batches)
  OBVIOUS
<1>1. Cardinality(Keys) \in Nat
  BY KeysType, FS_CardinalityType
<1>2. (Cardinality(Keys) + HashesPerCall - 1) \div HashesPerCall \in Int
  BY <1>1, ScanAssumption
<1> QED
  BY <1>2, FS_Interval DEF Batches

\* They change only while images are resolved.
LEMMA SameBatches ==
    ASSUME resolved' = resolved
    PROVE  /\ Keys' = Keys /\ Batches' = Batches
           /\ \A b : Batch(b)' = Batch(b) /\ FindingsOf(b)' = FindingsOf(b)
<1>1. Keys' = Keys
  BY DEF Keys
<1>2. \A k : Position(k)' = Position(k)
  BY <1>1 DEF Position
<1>3. \A b : Batch(b)' = Batch(b)
  BY <1>1, <1>2 DEF Batch
<1> QED
  BY <1>1, <1>3 DEF Batches, FindingsOf

-----------------------------------------------------------------------------
(* Steps *)

LEMMA InitInv == Init => Inv
<1> SUFFICES ASSUME Init PROVE Inv
  OBVIOUS
<1> USE DEF Init
<1>1. TypeOK
  BY DEF TypeOK
<1>2. PoolInv /\ StageInv
  BY DEF PoolInv, StageInv, StageOf, OnRepo, OnBatch
<1>3. None # "complete"
  BY ScanAssumption
<1>4. Resolving
  BY <1>3 DEF Resolving
<1>5. Finding
  BY <1>3 DEF Finding
<1> QED
  BY <1>1, <1>2, <1>4, <1>5 DEF Inv, AssessedWereRead, Counting

LEMMA TypeStep == ASSUME TypeOK, PoolInv, StageInv, [Next]_vars PROVE TypeOK'
<1> USE DEF TypeOK, pool, work, report
<1>1. CASE ListPods
  <2>1. {RepoOf[i] : i \in running} \subseteq Nat
    BY ScanAssumption
  <2> QED
    BY <1>1, <2>1 DEF ListPods, Return, Begin
<1>2. CASE Expire
  BY <1>2 DEF Expire
<1>3. CASE Close
  BY <1>3 DEF Close
<1>4. CASE Join
  BY <1>4, BatchesFinite DEF Join, Return, Begin
<1>5. ASSUME NEW w \in Workers, Feed(w) PROVE TypeOK'
  BY <1>5 DEF Feed
<1>6. ASSUME NEW w \in Workers, Leave(w) PROVE TypeOK'
  BY <1>6 DEF Leave
<1>7. ASSUME NEW w \in Workers, OutOfBudget(w) \/ InspectorError(w) PROVE TypeOK'
  BY <1>7 DEF OutOfBudget, InspectorError, Fail
<1>8. ASSUME NEW w \in Workers, ResolveBatch(w) PROVE TypeOK'
  <2>1. PICK asked \in SUBSET todo[w] :
          /\ \E there \in SUBSET asked :
               /\ got' = [got EXCEPT ![w] = @ \cup there]
               /\ failed' = [failed EXCEPT ![w] = @ + Cardinality(asked \ there)]
          /\ todo' = [todo EXCEPT ![w] = @ \ asked]
          /\ wpc' = [wpc EXCEPT ![w] = IF asked = todo[w] THEN "merge" ELSE "image"]
    BY <1>8 DEF ResolveBatch
  <2>2. todo[w] \subseteq Images
    BY <1>8 DEF ResolveBatch, StageInv, StageOf, OnRepo, OfRepo
  <2>3. PICK there \in SUBSET asked :
          /\ got' = [got EXCEPT ![w] = @ \cup there]
          /\ failed' = [failed EXCEPT ![w] = @ + Cardinality(asked \ there)]
    BY <2>1
  <2>4. Cardinality(asked \ there) \in Nat
    BY <2>2, Sizes
  <2>5. /\ got[w] \cup there \in SUBSET (Images \cup Nat \X Nat)
        /\ todo[w] \ asked \in SUBSET (Images \cup Findings)
        /\ failed[w] + Cardinality(asked \ there) \in Nat
    BY <2>2, <2>4
  <2>6. /\ got' \in [Workers -> SUBSET (Images \cup Nat \X Nat)]
        /\ todo' \in [Workers -> SUBSET (Images \cup Findings)]
        /\ failed' \in [Workers -> Nat]
    BY <2>1, <2>3, <2>5
  <2>7. wpc' \in [Workers -> {"ready", "out", "image", "merge", "coverage", "findings", "mark"}]
    BY <2>1
  <2> QED
    BY <1>8, <2>6, <2>7 DEF ResolveBatch
<1>9. ASSUME NEW w \in Workers, MergeRepo(w) PROVE TypeOK'
  <2>1. got[w] \subseteq Images
    BY <1>9 DEF MergeRepo, StageInv, StageOf, OnRepo, OfRepo
  <2> QED
    BY <1>9, <2>1 DEF MergeRepo
<1>10. ASSUME NEW w \in Workers, ListCoverage(w) PROVE TypeOK'
  <2>1. Batch(item[w]) \subseteq Nat \X Nat
    BY KeysType DEF Batch
  <2>2. FindingsOf(item[w]) \subseteq Findings
    BY DEF FindingsOf
  <2> QED
    BY <1>10, <2>1, <2>2 DEF ListCoverage
<1>11. ASSUME NEW w \in Workers, ListFindings(w) PROVE TypeOK'
  BY <1>11 DEF ListFindings
<1>12. ASSUME NEW w \in Workers, Mark(w) PROVE TypeOK'
  <2>1. got[w] \subseteq Nat \X Nat
    BY <1>12, KeysType DEF Mark, StageInv, StageOf, OnBatch, Batch
  <2> QED
    BY <1>12, <2>1 DEF Mark
<1>13. CASE UNCHANGED vars
  BY <1>13 DEF vars
<1> QED
  BY <1>1, <1>2, <1>3, <1>4, <1>5, <1>6, <1>7, <1>8, <1>9, <1>10, <1>11, <1>12, <1>13
     DEF Next, WorkerStep, Done

LEMMA PoolStep == ASSUME TypeOK, PoolInv, [Next]_vars PROVE PoolInv'
<1> USE DEF TypeOK, PoolInv, OnRepo, OnBatch, pool, work, report
<1>1. CASE ListPods
  BY <1>1, ScanAssumption DEF ListPods, Return, Begin
<1>2. CASE Expire
  BY <1>2 DEF Expire
<1>3. CASE Close
  BY <1>3 DEF Close
<1>4. CASE Join
  BY <1>4 DEF Join, Return, Begin
<1>5. ASSUME NEW w \in Workers, Feed(w) PROVE PoolInv'
  <2>1. PICK i \in unfed : unfed' = unfed \ {i} /\ item' = [item EXCEPT ![w] = i]
    BY <1>5 DEF Feed
  <2> QED
    BY <1>5, <2>1 DEF Feed
<1>6. ASSUME NEW w \in Workers, Leave(w) PROVE PoolInv'
  BY <1>6 DEF Leave
<1>7. ASSUME NEW w \in Workers, OutOfBudget(w) \/ InspectorError(w) PROVE PoolInv'
  BY <1>7, ScanAssumption DEF OutOfBudget, InspectorError, Fail
<1>8. ASSUME NEW w \in Workers, ResolveBatch(w) PROVE PoolInv'
  BY <1>8 DEF ResolveBatch
<1>9. ASSUME NEW w \in Workers, MergeRepo(w) PROVE PoolInv'
  BY <1>9 DEF MergeRepo
<1>10. ASSUME NEW w \in Workers, ListCoverage(w) PROVE PoolInv'
  BY <1>10 DEF ListCoverage
<1>11. ASSUME NEW w \in Workers, ListFindings(w) PROVE PoolInv'
  BY <1>11 DEF ListFindings
<1>12. ASSUME NEW w \in Workers, Mark(w) PROVE PoolInv'
  BY <1>12 DEF Mark
<1>13. CASE UNCHANGED vars
  BY <1>13 DEF vars
<1> QED
  BY <1>1, <1>2, <1>3, <1>4, <1>5, <1>6, <1>7, <1>8, <1>9, <1>10, <1>11, <1>12, <1>13
     DEF Next, WorkerStep, Done

\* What is read stays read; the batches stay while findings are read.
LEMMA ReadStays ==
    ASSUME TypeOK, resolved' = resolved, \A f \in Findings : counted[f] > 0 => counted'[f] > 0,
           NEW b, NEW L, NEW M, ReadBut(b, L), L \subseteq M
    PROVE  ReadBut(b, M)'
<1>1. Keys' = Keys /\ FindingsOf(b)' = FindingsOf(b)
  BY SameBatches
<1> QED
  BY <1>1 DEF ReadBut, FindingsOf

\* A worker that does nothing keeps what it has, whatever the others do.
LEMMA StageStays ==
    ASSUME TypeOK, NEW w \in Workers, StageOf(w),
           UNCHANGED <<wpc[w], item[w], todo[w], got[w], failed[w], running>>,
           resolved' = resolved \/ wpc[w] \notin OnBatch,
           \A f \in Findings : counted[f] > 0 => counted'[f] > 0
    PROVE  StageOf(w)'
<1>1. CASE wpc[w] \notin OnBatch
  <2>1. OfRepo(w)' = OfRepo(w)
    BY DEF OfRepo
  <2> QED
    BY <1>1, <2>1 DEF StageOf, OnBatch, OnRepo
<1>2. CASE wpc[w] \in OnBatch /\ resolved' = resolved
  <2>1. Batches' = Batches /\ Batch(item[w])' = Batch(item[w])
        /\ FindingsOf(item[w])' = FindingsOf(item[w])
    BY <1>2, SameBatches
  <2>2. \A L : ReadBut(item[w], L) => ReadBut(item[w], L)'
    BY <1>2, ReadStays
  <2>3. wpc[w] \notin OnRepo
    BY <1>2 DEF OnBatch, OnRepo
  <2> QED
    BY <1>2, <2>1, <2>2, <2>3 DEF StageOf, OnBatch
<1> QED
  BY <1>1, <1>2

\* ResolveBatch splits what it asked for into what is there and what is not.
LEMMA ResolveStage ==
    ASSUME TypeOK, NEW w \in Workers, StageOf(w), ResolveBatch(w)
    PROVE  StageOf(w)'
<1> DEFINE repo == OfRepo(w)
<1>1. PICK asked \in SUBSET todo[w] :
        /\ \E there \in SUBSET asked :
             /\ got' = [got EXCEPT ![w] = @ \cup there]
             /\ failed' = [failed EXCEPT ![w] = @ + Cardinality(asked \ there)]
        /\ todo' = [todo EXCEPT ![w] = @ \ asked]
        /\ wpc' = [wpc EXCEPT ![w] = IF asked = todo[w] THEN "merge" ELSE "image"]
  BY DEF ResolveBatch
<1>2. PICK there \in SUBSET asked :
        /\ got' = [got EXCEPT ![w] = @ \cup there]
        /\ failed' = [failed EXCEPT ![w] = @ + Cardinality(asked \ there)]
  BY <1>1
<1>3. /\ wpc[w] = "image" /\ OfRepo(w)' = repo /\ repo \subseteq Images
      /\ UNCHANGED <<item, running, resolved>>
  BY DEF ResolveBatch, OfRepo, pool, report, TypeOK
<1>4. /\ todo'[w] = todo[w] \ asked /\ got'[w] = got[w] \cup there
      /\ failed'[w] = failed[w] + Cardinality(asked \ there)
      /\ wpc'[w] = IF asked = todo[w] THEN "merge" ELSE "image"
  BY <1>1, <1>2 DEF TypeOK
<1>5. /\ todo[w] \subseteq repo /\ got[w] \subseteq repo /\ got[w] \cap todo[w] = {}
      /\ failed[w] + Cardinality(got[w]) + Cardinality(todo[w]) = Cardinality(repo)
  BY <1>3 DEF StageOf, OnRepo
<1>6. /\ Cardinality(got[w] \cup there) = Cardinality(got[w]) + Cardinality(there)
      /\ Cardinality(todo[w]) = Cardinality(asked) + Cardinality(todo[w] \ asked)
      /\ Cardinality(asked) = Cardinality(there) + Cardinality(asked \ there)
  <2>1. got[w] \in SUBSET Images /\ todo[w] \in SUBSET Images /\ got[w] \cap there = {}
    BY <1>3, <1>5
  <2> QED
    BY <2>1, Sizes
<1>7. /\ Cardinality(got[w]) \in Nat /\ Cardinality(there) \in Nat
      /\ Cardinality(asked) \in Nat /\ Cardinality(asked \ there) \in Nat
      /\ Cardinality(todo[w] \ asked) \in Nat /\ Cardinality(todo[w]) \in Nat
      /\ failed[w] \in Nat /\ Cardinality(repo) \in Nat
  <2>1. /\ got[w] \in SUBSET Images /\ there \in SUBSET Images /\ asked \in SUBSET Images
        /\ asked \ there \in SUBSET Images /\ todo[w] \ asked \in SUBSET Images
        /\ todo[w] \in SUBSET Images /\ repo \in SUBSET Images
    BY <1>3, <1>5
  <2> QED
    BY <2>1, Sizes DEF TypeOK
<1>8. failed'[w] + Cardinality(got'[w]) + Cardinality(todo'[w]) = Cardinality(repo)
  BY <1>4, <1>5, <1>6, <1>7
<1>9. /\ todo'[w] \subseteq repo /\ got'[w] \subseteq repo /\ got'[w] \cap todo'[w] = {}
      /\ wpc'[w] = "merge" => todo'[w] = {}
      /\ wpc'[w] \in {"image", "merge"}
  BY <1>4, <1>5
<1> QED
  BY <1>3, <1>8, <1>9 DEF StageOf, OnRepo, OnBatch

LEMMA StageStep ==
    ASSUME TypeOK, PoolInv, StageInv, Finding, [Next]_vars
    PROVE  StageInv'
<1> USE DEF TypeOK, pool, work, report
<1>1. CASE ListPods \/ Join
  <2>1. \A w \in Workers : wpc'[w] \in {"ready", "out"}
    BY <1>1 DEF ListPods, Join, Begin, Return, PoolInv
  <2> QED
    BY <2>1 DEF StageInv, StageOf, OnRepo, OnBatch
<1>2. CASE Expire \/ Close \/ UNCHANGED vars
  BY <1>2, StageStays DEF Expire, Close, vars, StageInv
<1>3. ASSUME NEW w \in Workers, WorkerStep(w) PROVE StageInv'
  <2> SUFFICES ASSUME NEW v \in Workers PROVE StageOf(v)'
    BY DEF StageInv
  <2>1. StageOf(v) /\ StageOf(w)
    BY DEF StageInv
  <2>2. CASE v # w
    <3>1. UNCHANGED <<wpc[v], item[v], todo[v], got[v], failed[v], running>>
      BY <1>3, <2>2 DEF WorkerStep, Feed, Leave, OutOfBudget, InspectorError, Fail,
         ResolveBatch, MergeRepo, ListCoverage, ListFindings, Mark
    <3>2. \A f \in Findings : counted[f] > 0 => counted'[f] > 0
      BY <1>3 DEF WorkerStep, Feed, Leave, OutOfBudget, InspectorError, Fail,
         ResolveBatch, MergeRepo, ListCoverage, ListFindings, Mark
    <3>3. resolved' = resolved \/ wpc[v] \notin OnBatch
      BY <1>3 DEF WorkerStep, Feed, Leave, OutOfBudget, InspectorError, Fail,
         ResolveBatch, MergeRepo, ListCoverage, ListFindings, Mark, PoolInv, OnRepo, OnBatch
    <3> QED
      BY <2>1, <3>1, <3>2, <3>3, StageStays
  <2>3. CASE v = w /\ wpc'[w] \in {"ready", "out"}
    BY <2>3 DEF StageOf, OnRepo, OnBatch
  <2>4. CASE v = w /\ ResolveBatch(w)
    BY <2>1, <2>4, ResolveStage
  <2>5. CASE v = w /\ ListCoverage(w)
    <3>1. /\ resolved' = resolved /\ counted' = counted /\ item' = item
          /\ Batches' = Batches /\ Batch(item[w])' = Batch(item[w])
          /\ FindingsOf(item[w])' = FindingsOf(item[w])
      BY <2>5, SameBatches DEF ListCoverage
    <3>2. item[w] \in Batches /\ got[w] \subseteq Batch(item[w]) /\ wpc[w] = "coverage"
      BY <2>1, <2>5 DEF ListCoverage, StageOf, OnBatch
    <3>3. got'[w] \subseteq Batch(item[w])
      BY <2>5, <3>2 DEF ListCoverage
    <3>4. \/ wpc'[w] = "coverage"
          \/ wpc'[w] = "findings" /\ todo'[w] = FindingsOf(item[w])
      BY <2>5, <3>2 DEF ListCoverage
    <3> QED
      BY <2>5, <3>1, <3>2, <3>3, <3>4 DEF StageOf, OnRepo, OnBatch, ReadBut
  <2>6. CASE v = w /\ ListFindings(w)
    <3>1. /\ resolved' = resolved /\ item' = item /\ got' = got /\ Keys' = Keys
          /\ Batches' = Batches /\ Batch(item[w])' = Batch(item[w])
          /\ FindingsOf(item[w])' = FindingsOf(item[w])
      BY <2>6, SameBatches DEF ListFindings
    <3>2. /\ item[w] \in Batches /\ got[w] \subseteq Batch(item[w]) /\ wpc[w] = "findings"
          /\ todo[w] \subseteq FindingsOf(item[w]) /\ ReadBut(item[w], todo[w])
      BY <2>1, <2>6 DEF ListFindings, StageOf, OnBatch
    <3>3. PICK page \in SUBSET todo[w] :
            /\ counted' = [f \in Findings |->
                   IF f \in page /\ FoundOn[f] \in Keys THEN counted[f] + 1 ELSE counted[f]]
            /\ todo' = [todo EXCEPT ![w] = @ \ page]
            /\ wpc' = [wpc EXCEPT ![w] = IF page = todo[w] THEN "mark" ELSE "findings"]
      BY <2>6 DEF ListFindings
    <3>4. /\ todo'[w] = todo[w] \ page
          /\ wpc'[w] \in {"mark", "findings"} /\ (wpc'[w] = "mark" => todo'[w] = {})
      BY <3>3
    <3>5. ReadBut(item[w], todo[w])'
      BY <3>1, <3>2, <3>3, <3>4 DEF ReadBut, FindingsOf
    <3> QED
      BY <2>6, <3>1, <3>2, <3>4, <3>5 DEF StageOf, OnRepo, OnBatch
  <2>7. CASE v = w /\ Feed(w)
    <3>1. PICK i \in unfed :
            /\ item' = [item EXCEPT ![w] = i]
            /\ todo' = [todo EXCEPT ![w] =
                  IF phase = "resolve" THEN {x \in running : RepoOf[x] = i} ELSE {}]
      BY <2>7 DEF Feed
    <3>2. /\ item'[w] = i /\ got'[w] = {} /\ failed'[w] = 0 /\ running' = running
          /\ resolved' = resolved
      BY <2>7, <3>1 DEF Feed
    <3>3. CASE phase = "resolve"
      <4>1. wpc'[w] = "image" /\ todo'[w] = OfRepo(w)'
        BY <2>7, <3>1, <3>2, <3>3 DEF Feed, OfRepo
      <4>2. Cardinality(todo'[w]) \in Nat /\ Cardinality(got'[w]) = 0
        BY <3>2, <4>1, Sizes, FS_EmptySet DEF OfRepo
      <4> QED
        BY <2>7, <3>2, <4>1, <4>2 DEF StageOf, OnRepo, OnBatch
    <3>4. CASE phase = "find"
      <4>1. wpc'[w] = "coverage" /\ i \in Batches'
        BY <2>7, <3>2, <3>4, SameBatches DEF Feed, Finding
      <4> QED
        BY <2>7, <3>2, <4>1 DEF StageOf, OnRepo, OnBatch
    <3> QED
      BY <2>7, <3>3, <3>4 DEF Feed
  <2> QED
    BY <1>3, <2>2, <2>3, <2>4, <2>5, <2>6, <2>7 DEF WorkerStep, Leave, OutOfBudget,
       InspectorError, Fail, MergeRepo, Mark
<1> QED
  BY <1>1, <1>2, <1>3 DEF Next, Done

\* Which phase it is follows from what a worker does, and the outcome is not
\* known before the end.
LEMMA Phases ==
    ASSUME TypeOK, PoolInv
    PROVE  /\ \A w \in Workers : /\ wpc[w] \in OnRepo => phase = "resolve"
                                 /\ wpc[w] \in OnBatch => phase = "find"
           /\ outcome = "complete" => phase = "done"
           /\ None \notin {"budget", "aws", "complete"}
BY ScanAssumption DEF TypeOK, PoolInv, OnRepo, OnBatch

\* A repository is merged by the worker that has it, and only its images are.
LEMMA MergeMerged ==
    ASSUME TypeOK, PoolInv, StageInv, NEW w \in Workers, MergeRepo(w)
    PROVE  /\ Merged' = Merged \cup OfRepo(w) /\ Merged \cap OfRepo(w) = {}
           /\ got[w] \subseteq OfRepo(w)
           /\ failed[w] + Cardinality(got[w]) = Cardinality(OfRepo(w))
<1>1. /\ wpc[w] = "merge" /\ wpc' = [wpc EXCEPT ![w] = "ready"]
      /\ UNCHANGED <<item, running, unfed>>
  BY DEF MergeRepo, pool
<1>2. item[w] \notin unfed
      /\ \A v \in Workers \ {w} : wpc[v] \in OnRepo => item[v] # item[w]
  BY <1>1 DEF PoolInv, OnRepo, OnBatch
<1>3. \A v \in Workers : wpc'[v] \in OnRepo <=> v # w /\ wpc[v] \in OnRepo
  BY <1>1 DEF TypeOK, OnRepo
<1>4. Merged \cap OfRepo(w) = {}
  BY <1>1 DEF Merged, OfRepo, OnRepo
<1>5. Merged' = Merged \cup OfRepo(w)
  <2>1. \A x : x \in Merged' <=> x \in Merged \/ x \in OfRepo(w)
    BY <1>1, <1>2, <1>3 DEF Merged, OfRepo
  <2> QED
    BY <2>1
<1>6. /\ got[w] \subseteq OfRepo(w)
      /\ failed[w] + Cardinality(got[w]) + Cardinality({}) = Cardinality(OfRepo(w))
  BY <1>1 DEF StageInv, StageOf, OnRepo
<1>7. Cardinality(got[w]) \in Nat /\ failed[w] \in Nat
  BY <1>6, Sizes DEF OfRepo, TypeOK
<1> QED
  BY <1>4, <1>5, <1>6, <1>7, FS_EmptySet

LEMMA ResolvingStep ==
    ASSUME TypeOK, PoolInv, StageInv, Resolving, [Next]_vars
    PROVE  Resolving'
<1> USE Phases DEF pool, work, report
<1>1. CASE ListPods
  <2>1. phase = "pods" /\ resolved' = {} /\ unresolved' = 0
    BY <1>1 DEF ListPods, Resolving
  <2>2. CASE phase' = "pods" \/ phase' = "done"
    BY <1>1, <2>1, <2>2 DEF ListPods, Return, Resolving
  <2>3. CASE phase' \notin {"pods", "done"}
    <3>1. phase' = "resolve" /\ unfed' = {RepoOf[i] : i \in running} /\ running' = running
          /\ outcome' = outcome
      BY <1>1, <2>1, <2>3 DEF ListPods, Begin, Return
    <3>2. Merged' = {}
      BY <3>1 DEF Merged
    <3> QED
      BY <2>1, <3>1, <3>2, FS_EmptySet DEF Resolving
  <2> QED
    BY <2>2, <2>3
<1>2. CASE Expire \/ Close \/ UNCHANGED vars
  <2>1. Merged' = Merged
    BY <1>2 DEF Merged, Expire, Close, vars
  <2> QED
    BY <1>2, <2>1 DEF Resolving, Expire, Close, vars
<1>3. CASE Join
  <2>1. CASE first = None /\ phase = "resolve"
    <3>1. Merged = running
      BY <1>3, <2>1 DEF Join, Merged, PoolInv, OnRepo
    <3> QED
      BY <1>3, <2>1, <3>1 DEF Join, Begin, Resolving
  <2>2. CASE first = None /\ phase = "find"
    BY <1>3, <2>2 DEF Join, Return, Resolving
  <2>3. CASE first # None
    BY <1>3, <2>3 DEF Join, Return, Resolving
  <2> QED
    BY <1>3, <2>1, <2>2, <2>3 DEF Join
<1>4. ASSUME NEW w \in Workers, WorkerStep(w) PROVE Resolving'
  <2>1. phase' = phase /\ running' = running /\ outcome' = outcome
        /\ phase \in {"resolve", "find"}
    BY <1>4 DEF WorkerStep, Feed, Leave, OutOfBudget, InspectorError, Fail, ResolveBatch,
       MergeRepo, ListCoverage, ListFindings, Mark, TypeOK, PoolInv, OnRepo, OnBatch
  <2>2. CASE phase = "find"
    <3>1. resolved' = resolved /\ unresolved' = unresolved
      BY <1>4, <2>2 DEF WorkerStep, Feed, Leave, OutOfBudget, InspectorError, Fail,
         ResolveBatch, MergeRepo, ListCoverage, ListFindings, Mark, OnRepo
    <3> QED
      BY <2>1, <2>2, <3>1 DEF Resolving
  <2>3. CASE phase = "resolve" /\ first' # None
    BY <2>1, <2>3 DEF Resolving
  <2>4. CASE phase = "resolve" /\ first' = None /\ MergeRepo(w)
    <3>1. first = None
      BY <2>4 DEF MergeRepo
    <3>2. /\ Merged' = Merged \cup OfRepo(w) /\ Merged \cap OfRepo(w) = {}
          /\ got[w] \subseteq OfRepo(w)
          /\ failed[w] + Cardinality(got[w]) = Cardinality(OfRepo(w))
      BY <2>4, MergeMerged
    <3>3. resolved \subseteq Merged /\ unresolved + Cardinality(resolved) = Cardinality(Merged)
      BY <2>4, <3>1 DEF Resolving
    <3>4. resolved' = resolved \cup got[w] /\ unresolved' = unresolved + failed[w]
      BY <2>4 DEF MergeRepo
    <3>5. Merged \in SUBSET Images /\ OfRepo(w) \in SUBSET Images
      BY DEF Merged, OfRepo, TypeOK
    <3>6. /\ Cardinality(Merged') = Cardinality(Merged) + Cardinality(OfRepo(w))
          /\ Cardinality(resolved') = Cardinality(resolved) + Cardinality(got[w])
          /\ Cardinality(Merged) \in Nat /\ Cardinality(OfRepo(w)) \in Nat
          /\ Cardinality(resolved) \in Nat /\ Cardinality(got[w]) \in Nat
      <4>1. /\ resolved \in SUBSET Images /\ got[w] \in SUBSET Images
            /\ resolved \cap got[w] = {}
        BY <3>2, <3>3, <3>5
      <4> QED
        BY <3>2, <3>4, <3>5, <4>1, Sizes
    <3>7. resolved' \subseteq Merged'
      BY <3>2, <3>3, <3>4
    <3>8. unresolved' + Cardinality(resolved') = Cardinality(Merged')
      <4>1. unresolved \in Nat /\ failed[w] \in Nat
        BY DEF TypeOK
      <4> QED
        BY <3>2, <3>3, <3>4, <3>6, <4>1
    <3> QED
      BY <2>1, <2>4, <3>7, <3>8 DEF Resolving
  <2>5. CASE phase = "resolve" /\ first' = None /\ (Feed(w) \/ Leave(w) \/ ResolveBatch(w))
    <3>1. first = None /\ resolved' = resolved /\ unresolved' = unresolved
      BY <2>5 DEF Feed, Leave, ResolveBatch
    <3>2. Merged' = Merged
      <4>1. CASE Feed(w)
        <5>1. PICK i \in unfed : unfed' = unfed \ {i} /\ item' = [item EXCEPT ![w] = i]
          BY <4>1 DEF Feed
        <5>2. wpc[w] = "ready" /\ wpc' = [wpc EXCEPT ![w] = "image"] /\ running' = running
          BY <2>5, <4>1 DEF Feed
        <5>3. \A v \in Workers \ {w} : wpc'[v] = wpc[v] /\ item'[v] = item[v]
          BY <5>1, <5>2 DEF TypeOK
        <5>4. wpc'[w] \in OnRepo /\ item'[w] = i /\ wpc[w] \notin OnRepo
          BY <5>1, <5>2 DEF TypeOK, OnRepo
        <5>5. \A x : x \in Merged' <=> x \in Merged
          BY <5>1, <5>2, <5>3, <5>4 DEF Merged
        <5> QED
          BY <5>5
      <4>2. CASE Leave(w) \/ ResolveBatch(w)
        <5>1. /\ UNCHANGED <<item, unfed, running>>
              /\ \A v \in Workers : wpc'[v] \in OnRepo <=> wpc[v] \in OnRepo
          BY <4>2 DEF Leave, ResolveBatch, TypeOK, OnRepo
        <5>2. \A x : x \in Merged' <=> x \in Merged
          BY <5>1 DEF Merged
        <5> QED
          BY <5>2
      <4> QED
        BY <2>5, <4>1, <4>2
    <3> QED
      BY <2>1, <2>5, <3>1, <3>2 DEF Resolving
  <2>6. OutOfBudget(w) \/ InspectorError(w) => first' # None
    BY DEF OutOfBudget, InspectorError, Fail
  <2>7. phase = "resolve" => ~ListCoverage(w) /\ ~ListFindings(w) /\ ~Mark(w)
    BY DEF ListCoverage, ListFindings, Mark, OnBatch
  <2> QED
    BY <1>4, <2>1, <2>2, <2>3, <2>4, <2>5, <2>6, <2>7 DEF WorkerStep
<1> QED
  BY <1>1, <1>2, <1>3, <1>4 DEF Next, Done

\* While images are resolved no finding is read; afterwards no image is resolved.
LEMMA EitherPhase ==
    ASSUME TypeOK, PoolInv, NEW w \in Workers, WorkerStep(w)
    PROVE  /\ phase' = phase /\ outcome' = outcome
           /\ \/ phase = "resolve" /\ UNCHANGED <<counted, finished, assessed, clear>>
              \/ phase = "find" /\ resolved' = resolved
           /\ \A f \in Findings : counted[f] > 0 => counted'[f] > 0
<1> USE Phases DEF pool, work, report, OnRepo, OnBatch
<1>1. CASE Feed(w) \/ Leave(w) \/ OutOfBudget(w) \/ InspectorError(w)
  BY <1>1 DEF Feed, Leave, OutOfBudget, InspectorError, Fail, PoolInv, TypeOK
<1>2. CASE ResolveBatch(w) \/ MergeRepo(w)
  BY <1>2 DEF ResolveBatch, MergeRepo
<1>3. CASE ListCoverage(w) \/ Mark(w)
  BY <1>3 DEF ListCoverage, Mark
<1>4. CASE ListFindings(w)
  BY <1>4 DEF ListFindings, TypeOK
<1> QED
  BY <1>1, <1>2, <1>3, <1>4 DEF WorkerStep

\* A batch is done with when its worker has read all its findings.
LEMMA FindingStep ==
    ASSUME TypeOK, PoolInv, StageInv, Finding, [Next]_vars
    PROVE  Finding'
<1> USE Phases DEF pool, work, report
<1>1. CASE ListPods
  <2>1. phase = "pods" /\ phase' # "find" /\ outcome' # "complete"
        /\ UNCHANGED <<finished, assessed, counted, resolved>> /\ finished = {}
    BY <1>1 DEF ListPods, Begin, Return, Finding
  <2> QED
    BY <2>1 DEF Finding
<1>2. CASE Expire \/ Close \/ UNCHANGED vars
  <2>1. /\ UNCHANGED <<phase, unfed, finished, assessed, counted, resolved, wpc, item, outcome>>
        /\ first' = first
    BY <1>2 DEF Expire, Close, vars
  <2>2. Batches' = Batches /\ \A b : ReadBut(b, {}) => ReadBut(b, {})'
    BY <2>1, SameBatches, ReadStays
  <2> QED
    BY <2>1, <2>2 DEF Finding
<1>3. CASE Join
  <2>1. /\ UNCHANGED <<finished, assessed, counted, resolved>>
        /\ Batches' = Batches /\ \A b : ReadBut(b, {}) => ReadBut(b, {})'
    BY <1>3, SameBatches, ReadStays DEF Join
  <2>2. CASE first = None /\ phase = "resolve"
    BY <1>3, <2>1, <2>2 DEF Join, Begin, Finding
  <2>3. CASE first = None /\ phase = "find"
    <3>1. Batches \subseteq finished
      BY <1>3, <2>3 DEF Join, Finding, PoolInv, OnBatch
    <3> QED
      BY <1>3, <2>1, <2>3, <3>1 DEF Join, Return, Finding
  <2>4. CASE first # None
    BY <1>3, <2>1, <2>4 DEF Join, Return, Finding
  <2> QED
    BY <1>3, <2>2, <2>3, <2>4 DEF Join
<1>4. ASSUME NEW w \in Workers, WorkerStep(w) PROVE Finding'
  <2>1. CASE phase = "resolve"
    BY <1>4, <2>1, EitherPhase DEF Finding
  <2>2. CASE phase = "find"
    <3>1. /\ phase' = phase /\ outcome' = outcome /\ resolved' = resolved
          /\ Batches' = Batches /\ \A b : ReadBut(b, {}) => ReadBut(b, {})'
      BY <1>4, <2>2, EitherPhase, SameBatches, ReadStays
    <3>2. unfed' \subseteq unfed
      BY <1>4 DEF WorkerStep, Feed, Leave, OutOfBudget, InspectorError, Fail, ResolveBatch,
         MergeRepo, ListCoverage, ListFindings, Mark
    <3>3. \/ finished' = finished
          \/ finished' = finished \cup {item[w]} /\ ReadBut(item[w], {})
      BY <1>4 DEF WorkerStep, Feed, Leave, OutOfBudget, InspectorError, Fail, ResolveBatch,
         MergeRepo, ListCoverage, ListFindings, Mark, StageInv, StageOf
    <3>4. ASSUME first' = None, NEW b \in Batches
          PROVE  \/ b \in unfed' \cup finished'
                 \/ \E v \in Workers : wpc'[v] \in OnBatch /\ item'[v] = b
      <4>1. first = None /\ ~OutOfBudget(w) /\ ~InspectorError(w)
            /\ ~ResolveBatch(w) /\ ~MergeRepo(w)
        BY <1>4, <2>2, <3>4 DEF WorkerStep, Feed, Leave, OutOfBudget, InspectorError, Fail,
           ResolveBatch, MergeRepo, ListCoverage, ListFindings, Mark, OnRepo
      <4>2. \/ b \in unfed \cup finished
            \/ \E v \in Workers : wpc[v] \in OnBatch /\ item[v] = b
        BY <2>2, <4>1 DEF Finding
      <4>3. CASE Feed(w)
        <5>1. PICK i \in unfed : unfed' = unfed \ {i} /\ item' = [item EXCEPT ![w] = i]
          BY <4>3 DEF Feed
        <5>2. wpc[w] = "ready" /\ wpc' = [wpc EXCEPT ![w] = "coverage"] /\ finished' = finished
          BY <2>2, <4>3 DEF Feed
        <5>3. wpc'[w] \in OnBatch /\ item'[w] = i
              /\ \A v \in Workers \ {w} : wpc'[v] = wpc[v] /\ item'[v] = item[v]
          BY <5>1, <5>2 DEF TypeOK, OnBatch
        <5> QED
          BY <4>2, <5>1, <5>2, <5>3 DEF OnBatch
      <4>4. CASE Leave(w) \/ ListCoverage(w) \/ ListFindings(w)
        <5>1. /\ UNCHANGED <<item, unfed, finished>>
              /\ \A v \in Workers : wpc[v] \in OnBatch => wpc'[v] \in OnBatch
          BY <4>4 DEF Leave, ListCoverage, ListFindings, TypeOK, OnBatch
        <5> QED
          BY <4>2, <5>1
      <4>5. CASE Mark(w)
        <5>1. /\ UNCHANGED <<item, unfed>> /\ finished' = finished \cup {item[w]}
              /\ \A v \in Workers \ {w} : wpc'[v] = wpc[v]
          BY <4>5 DEF Mark, TypeOK
        <5> QED
          BY <4>2, <5>1
      <4> QED
        BY <1>4, <4>1, <4>3, <4>4, <4>5 DEF WorkerStep
    <3>5. phase' = "find" => unfed' \subseteq Batches'
      BY <2>2, <3>1, <3>2 DEF Finding
    <3>6. \A b \in finished' : ReadBut(b, {})'
      BY <3>1, <3>3 DEF Finding
    <3>7. outcome' # "complete"
      BY <2>2, <3>1
    <3> QED
      BY <2>2, <3>1, <3>4, <3>5, <3>6, <3>7 DEF Finding
  <2> QED
    BY <1>4, <2>1, <2>2, EitherPhase
<1> QED
  BY <1>1, <1>2, <1>3, <1>4 DEF Next, Done

\* Mark assesses images by platform images of the batch that has just been read.
LEMMA AssessedStep ==
    ASSUME TypeOK, PoolInv, StageInv, AssessedWereRead, [Next]_vars
    PROVE  AssessedWereRead'
<1> USE DEF pool, work, report
<1>1. ASSUME assessed' = assessed, clear' = clear,
             \A f \in Findings : counted[f] > 0 => counted'[f] > 0
      PROVE  AssessedWereRead'
  BY <1>1 DEF AssessedWereRead
<1>2. CASE ListPods \/ Expire \/ Close \/ Join \/ UNCHANGED vars
  BY <1>1, <1>2 DEF ListPods, Expire, Close, Join, vars
<1>3. ASSUME NEW w \in Workers, Mark(w) PROVE AssessedWereRead'
  <2>1. /\ clear' = clear \cup got[w] /\ counted' = counted
        /\ assessed' = assessed \cup {i \in resolved : \E k \in got[w] :
                                          k \in {RepoOf[i]} \X PlatformsOf[i]}
        /\ wpc[w] = "mark"
    BY <1>3 DEF Mark
  <2>2. got[w] \subseteq Batch(item[w]) /\ ReadBut(item[w], {})
    BY <2>1 DEF StageInv, StageOf, OnBatch
  <2>3. ASSUME NEW k \in got[w], NEW f \in Findings, FoundOn[f] = k
        PROVE  counted[f] > 0
    BY <2>2, <2>3 DEF ReadBut, FindingsOf, Batch
  <2>4. ASSUME NEW i \in assessed'
        PROVE  \E k \in {RepoOf[i]} \X PlatformsOf[i] :
                 /\ k \in clear'
                 /\ \A f \in Findings : FoundOn[f] = k => counted'[f] > 0
    <3>1. CASE i \in assessed
      BY <2>1, <3>1 DEF AssessedWereRead
    <3>2. CASE i \notin assessed
      BY <2>1, <2>3, <2>4, <3>2
    <3> QED
      BY <3>1, <3>2
  <2> QED
    BY <2>4 DEF AssessedWereRead
<1>4. ASSUME NEW w \in Workers, WorkerStep(w), ~Mark(w) PROVE AssessedWereRead'
  <2>1. assessed' = assessed /\ clear' = clear
    BY <1>4 DEF WorkerStep, Feed, Leave, OutOfBudget, InspectorError, Fail, ResolveBatch,
       MergeRepo, ListCoverage, ListFindings
  <2> QED
    BY <1>1, <1>4, <2>1, EitherPhase
<1> QED
  BY <1>2, <1>3, <1>4 DEF Next, Done

\* A count of batches that only grows.
LEMMA AskedGrows ==
    ASSUME TypeOK, resolved' = resolved, NEW f \in Findings, NEW S,
           S \subseteq AskedFor(f)'
    PROVE  /\ IsFiniteSet(S) /\ Cardinality(S) \in Nat
           /\ Cardinality(AskedFor(f)') \in Nat
           /\ Cardinality(S) <= Cardinality(AskedFor(f)')
<1>1. IsFiniteSet(Batches) /\ Batches' = Batches
  BY BatchesFinite, SameBatches
<1>2. IsFiniteSet(AskedFor(f)')
  BY <1>1, FS_Subset DEF AskedFor
<1> QED
  BY <1>2, FS_Subset, FS_CardinalityType

LEMMA CountingStep ==
    ASSUME TypeOK, PoolInv, StageInv, Finding, Counting, [Next]_vars, TypeOK'
    PROVE  Counting'
<1> USE DEF pool, work, report
<1>1. ASSUME resolved' = resolved, counted' = counted, phase \in {"find", "done"},
             \A f \in Findings : AskedFor(f) \subseteq AskedFor(f)'
      PROVE  Counting'
  <2> SUFFICES ASSUME NEW f \in Findings PROVE counted'[f] <= Cardinality(AskedFor(f)')
    BY DEF Counting
  <2>1. counted[f] <= Cardinality(AskedFor(f)) /\ counted[f] \in Nat
    BY <1>1 DEF Counting, TypeOK
  <2>2. /\ Cardinality(AskedFor(f)) \in Nat /\ Cardinality(AskedFor(f)') \in Nat
        /\ Cardinality(AskedFor(f)) <= Cardinality(AskedFor(f)')
    BY <1>1, AskedGrows
  <2> QED
    BY <1>1, <2>1, <2>2
<1>2. ASSUME phase \in {"pods", "resolve"}, resolved' = resolved, counted' = counted
      PROVE  Counting'
  <2> SUFFICES ASSUME NEW f \in Findings PROVE counted'[f] <= Cardinality(AskedFor(f)')
    BY DEF Counting
  <2>1. counted'[f] = 0
    BY <1>2 DEF Finding
  <2>2. Cardinality(AskedFor(f)') \in Nat
    BY <1>2, AskedGrows
  <2> QED
    BY <2>1, <2>2
<1>3. ASSUME resolved' = resolved, counted' = counted, phase \in {"find", "done"},
             unfed' \subseteq unfed, item' = item,
             \A w \in Workers : wpc'[w] = "coverage" => wpc[w] = "coverage",
             \A w \in Workers : wpc'[w] = "findings" => wpc[w] = "findings" /\ todo'[w] = todo[w]
      PROVE  Counting'
  <2>1. \A f \in Findings : AskedFor(f) \subseteq AskedFor(f)'
    BY <1>3, SameBatches DEF AskedFor
  <2> QED
    BY <1>1, <1>3, <2>1
<1>4. CASE ListPods \/ Expire \/ Close \/ UNCHANGED vars
  <2>1. resolved' = resolved /\ counted' = counted
    BY <1>4 DEF ListPods, Expire, Close, vars
  <2>2. CASE phase \in {"find", "done"}
    BY <1>3, <1>4, <2>1, <2>2 DEF ListPods, Expire, Close, vars
  <2> QED
    BY <1>2, <2>1, <2>2 DEF TypeOK
<1>5. CASE Join
  <2>1. resolved' = resolved /\ counted' = counted /\ phase \in {"resolve", "find"}
    BY <1>5 DEF Join
  <2>2. CASE phase = "find"
    BY <1>3, <1>5, <2>1, <2>2 DEF Join, Return
  <2> QED
    BY <1>2, <2>1, <2>2
<1>6. ASSUME NEW w \in Workers, Feed(w), phase = "find" PROVE Counting'
  <2>1. PICK i \in unfed :
          /\ unfed' = unfed \ {i}
          /\ item' = [item EXCEPT ![w] = i]
          /\ todo' = [todo EXCEPT ![w] = {}]
    BY <1>6 DEF Feed
  <2>2. /\ wpc[w] = "ready" /\ resolved' = resolved /\ counted' = counted /\ item'[w] = i
        /\ \A v \in Workers \ {w} : wpc'[v] = wpc[v] /\ item'[v] = item[v] /\ todo'[v] = todo[v]
    BY <1>6, <2>1 DEF Feed, TypeOK
  <2>3. \A f \in Findings : AskedFor(f) \subseteq AskedFor(f)'
    BY <2>1, <2>2, SameBatches DEF AskedFor
  <2> QED
    BY <1>1, <1>6, <2>2, <2>3
<1>7. ASSUME NEW w \in Workers, ListCoverage(w), phase = "find" PROVE Counting'
  <2>1. /\ wpc[w] = "coverage" /\ resolved' = resolved /\ counted' = counted
        /\ UNCHANGED <<item, unfed>>
        /\ \A v \in Workers \ {w} : wpc'[v] = wpc[v] /\ todo'[v] = todo[v]
    BY <1>7 DEF ListCoverage, TypeOK
  <2>2. ASSUME NEW f \in Findings, NEW b \in AskedFor(f) PROVE b # item[w]
    BY <2>1 DEF AskedFor
  <2>3. \A f \in Findings : AskedFor(f) \subseteq AskedFor(f)'
    BY <2>1, <2>2, SameBatches DEF AskedFor
  <2> QED
    BY <1>1, <1>7, <2>1, <2>3
<1>8. ASSUME NEW w \in Workers, ListFindings(w), phase = "find" PROVE Counting'
  <2>1. PICK page \in SUBSET todo[w] :
          /\ counted' = [f \in Findings |->
                 IF f \in page /\ FoundOn[f] \in Keys THEN counted[f] + 1 ELSE counted[f]]
          /\ todo' = [todo EXCEPT ![w] = @ \ page]
          /\ wpc' = [wpc EXCEPT ![w] = IF page = todo[w] THEN "mark" ELSE "findings"]
    BY <1>8 DEF ListFindings
  <2>2. /\ wpc[w] = "findings" /\ resolved' = resolved /\ UNCHANGED <<item, unfed>>
        /\ \A v \in Workers \ {w} : wpc'[v] = wpc[v] /\ todo'[v] = todo[v]
        /\ wpc'[w] \in {"mark", "findings"} /\ todo'[w] = todo[w] \ page
    BY <1>8, <2>1 DEF ListFindings, TypeOK
  <2>3. /\ item[w] \in Batches /\ item[w] \notin unfed /\ todo[w] \subseteq FindingsOf(item[w])
        /\ \A v \in Workers \ {w} : wpc[v] \in OnBatch => item[v] # item[w]
    BY <2>2 DEF StageInv, StageOf, PoolInv, OnBatch
  <2> SUFFICES ASSUME NEW f \in Findings PROVE counted'[f] <= Cardinality(AskedFor(f)')
    BY DEF Counting
  <2>4. counted[f] \in Nat /\ counted[f] <= Cardinality(AskedFor(f))
    BY <1>8 DEF TypeOK, Counting
  <2>5. AskedFor(f) \subseteq AskedFor(f)'
    BY <2>2, SameBatches DEF AskedFor
  <2>6. CASE f \in page
    <3>1. item[w] \notin AskedFor(f)
      BY <2>2, <2>6 DEF AskedFor
    <3>2. item[w] \in AskedFor(f)'
      BY <2>2, <2>3, <2>6, SameBatches DEF AskedFor, OnBatch
    <3>3. AskedFor(f) \cup {item[w]} \subseteq AskedFor(f)'
      BY <2>5, <3>2
    <3>4. Cardinality(AskedFor(f) \cup {item[w]}) = Cardinality(AskedFor(f)) + 1
      BY <2>2, <2>5, <3>1, AskedGrows, FS_AddElement
    <3>5. Cardinality(AskedFor(f) \cup {item[w]}) <= Cardinality(AskedFor(f)')
      BY <2>2, <3>3, AskedGrows
    <3>6. Cardinality(AskedFor(f)) \in Nat /\ Cardinality(AskedFor(f)') \in Nat
      BY <2>2, <2>5, AskedGrows
    <3>7. counted'[f] <= counted[f] + 1 /\ counted'[f] \in Nat
      BY <2>1, <2>4
    <3> QED
      BY <2>4, <3>4, <3>5, <3>6, <3>7
  <2>7. CASE f \notin page
    <3>1. counted'[f] = counted[f]
      BY <2>1, <2>7
    <3>2. /\ Cardinality(AskedFor(f)) \in Nat /\ Cardinality(AskedFor(f)') \in Nat
          /\ Cardinality(AskedFor(f)) <= Cardinality(AskedFor(f)')
      BY <2>2, <2>5, AskedGrows
    <3> QED
      BY <2>4, <3>1, <3>2
  <2> QED
    BY <2>6, <2>7
<1>9. ASSUME NEW w \in Workers, phase = "find",
             Leave(w) \/ OutOfBudget(w) \/ InspectorError(w) \/ Mark(w)
      PROVE  Counting'
  BY <1>3, <1>9 DEF Leave, OutOfBudget, InspectorError, Fail, Mark, TypeOK
<1>10. ASSUME NEW w \in Workers, WorkerStep(w) PROVE Counting'
  <2>1. CASE phase = "resolve"
    BY <1>10, <2>1, EitherPhase DEF Counting
  <2>2. CASE phase = "find"
    BY <1>6, <1>7, <1>8, <1>9, <1>10, <2>2, Phases DEF WorkerStep, ResolveBatch, MergeRepo, OnRepo
  <2> QED
    BY <1>10, <2>1, <2>2, EitherPhase
<1> QED
  BY <1>4, <1>5, <1>10 DEF Next, Done

LEMMA Invariance == Spec => []Inv
<1>1. Inv /\ [Next]_vars => Inv'
  BY TypeStep, PoolStep, StageStep, ResolvingStep, FindingStep, AssessedStep, CountingStep
     DEF Inv
<1> QED
  BY <1>1, InitInv, PTL DEF Spec

\* An image is called assessed, in a partial result too, only after all findings
\* of a batch with a platform of it that is not a gap have been read.
THEOREM AssessedAreRead == Spec => []AssessedWereRead
  BY Invariance, PTL DEF Inv

\* What a complete result accounts for, from what forEach has done of its items.
LEMMA Complete == Inv => CompleteAccountsForAll
<1> SUFFICES ASSUME Inv, outcome = "complete" PROVE CompleteAccountsForAll
  BY DEF CompleteAccountsForAll
<1>1. Batches \subseteq finished /\ \A b \in finished : ReadBut(b, {})
  BY DEF Inv, Finding
<1>2. \A k \in Keys : \E b \in finished : k \in Batch(b)
  BY <1>1, BatchesCover DEF Inv
<1>3. ASSUME NEW f \in Relevant PROVE counted[f] > 0
  BY <1>1, <1>2 DEF Relevant, ReadBut, FindingsOf
<1> QED
  BY <1>2, <1>3 DEF CompleteAccountsForAll, Inv, Resolving

LEMMA Once == Inv => CountedOncePerBatch
<1> SUFFICES ASSUME Inv, phase \in {"find", "done"}, NEW f \in Findings
             PROVE  counted[f] <= Cardinality({b \in Batches : f \in FindingsOf(b)})
  BY DEF CountedOncePerBatch
<1> DEFINE S == {b \in Batches : f \in FindingsOf(b)}
<1>1. IsFiniteSet(S)
  BY BatchesFinite, FS_Subset DEF Inv
<1>2. AskedFor(f) \in SUBSET S
  BY DEF AskedFor
<1>3. /\ Cardinality(AskedFor(f)) <= Cardinality(S) /\ Cardinality(S) \in Nat
      /\ Cardinality(AskedFor(f)) \in Nat
  BY <1>1, <1>2, FS_Subset, FS_CardinalityType
<1>4. counted[f] \in Nat /\ counted[f] <= Cardinality(AskedFor(f))
  BY DEF Inv, TypeOK, Counting
<1> QED
  BY <1>3, <1>4

\* A complete result accounts for every image that runs and every finding on one,
\* and none is counted twice for one batch, however the workers, the pages and
\* the errors fall.
THEOREM FindingsAreAccounted == Spec => []FindingsAccounted
<1>1. Inv => FindingsAccounted
  BY Complete, Once DEF Inv, FindingsAccounted
<1> QED
  BY <1>1, Invariance, PTL

=============================================================================
