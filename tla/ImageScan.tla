------------------------------- MODULE ImageScan -------------------------------
(***************************************************************************)
(* running_image_vulnerabilities: list the pods, resolve their images in   *)
(* ECR, one repository after the other, and read Inspector's coverage and  *)
(* findings of the platform images, batch by batch.  The last two are done *)
(* by a pool of workers (forEach) under one mutex and one time budget, and *)
(* the first error ends the feeding of the pool.                           *)
(*                                                                         *)
(* One action is one request with what the task does on its answer, or one *)
(* critical section, or one step of forEach's feeder.  Images of other     *)
(* registries are only counted and are left out; so is the grouping.       *)
(***************************************************************************)
EXTENDS Integers, FiniteSets

CONSTANTS
    Workers,       \* goroutines of a forEach
    Images,        \* images that pods may run from the account's ECR
    RepoOf,        \* their repositories, numbered in forEach's order
    PlatformsOf,   \* the digests of their platform manifests, numbers as well
    Findings,      \* Inspector's findings that match the request
    FoundOn,       \* the platform image each one is on
    EcrBatch,      \* ecrBatch
    HashesPerCall, \* hashesPerCall
    None

Repos == {RepoOf[i] : i \in Images}
Digests == UNION {PlatformsOf[i] : i \in Images}
PlatformKeys == Repos \X Digests

ASSUME ScanAssumption ==
    /\ RepoOf \in [Images -> Nat]
    /\ PlatformsOf \in [Images -> SUBSET Nat]
    /\ \A i \in Images : PlatformsOf[i] # {} /\ IsFiniteSet(PlatformsOf[i])
    /\ IsFiniteSet(Images) /\ IsFiniteSet(Findings)
    /\ FoundOn \in [Findings -> Nat \X Nat]
    /\ EcrBatch \in Nat \ {0} /\ HashesPerCall \in Nat \ {0}
    /\ None \notin Nat /\ None \notin {"budget", "aws", "complete"}

VARIABLES
    phase,      \* where Execute is
    expired,    \* the time budget is used up, or the caller is gone
    stopped,    \* scan.stopped
    running,    \* the images that pods run
    unfed,      \* items that forEach has not handed out
    closed,     \* its channel "next" is closed
    first,      \* its first error
    wpc,        \* where a worker is
    item,       \* the item it works on: a repository or a batch
    todo,       \* the images, or the findings, it has not asked for yet
    got,        \* the images it has resolved, or the platforms known not to be gaps
    failed,     \* images it could not resolve
    resolved,   \* images whose platforms are known
    unresolved, \* Coverage.UnresolvedImages
    finished,   \* batches that are marked
    clear,      \* platform images with a status that is not a gap
    assessed,   \* images marked as assessed
    counted,    \* how often a finding is in TotalFindings
    outcome     \* what Execute returned

pool == <<unfed, closed, first>>
work == <<wpc, item, todo, got, failed>>
report == <<stopped, resolved, unresolved, finished, clear, assessed, counted>>
vars == <<phase, expired, running, pool, work, report, outcome>>

\* scan.status: the platform images to be looked at, and their order.
Keys == UNION {{RepoOf[i]} \X PlatformsOf[i] : i \in resolved}
Before(j, k) == j[2] < k[2] \/ (j[2] = k[2] /\ j[1] < k[1])
Position(k) == Cardinality({j \in Keys : Before(j, k)})

\* Mutant of Batch: the last batch is cut off where it would not be full.
BatchFull(b) == {k \in Keys : /\ Position(k) \div HashesPerCall = b - 1
                              /\ Cardinality(Keys) >= b * HashesPerCall}

\* The b-th batch of HashesPerCall platform images.
Batch(b) == {k \in Keys : Position(k) \div HashesPerCall = b - 1}
Batches == 1 .. ((Cardinality(Keys) + HashesPerCall - 1) \div HashesPerCall)

\* What ListFindings returns for a batch: it filters by digest alone.
FindingsOf(b) == {f \in Findings : \E k \in Batch(b) : FoundOn[f][2] = k[2]}

TypeOK ==
    /\ phase \in {"pods", "resolve", "find", "done"}
    /\ expired \in BOOLEAN /\ stopped \in BOOLEAN /\ closed \in BOOLEAN
    /\ running \in SUBSET Images
    /\ unfed \in SUBSET Nat
    /\ first \in {None, "budget", "aws"}
    /\ wpc \in [Workers -> {"ready", "out", "image", "merge", "coverage", "findings", "mark"}]
    /\ item \in [Workers -> Nat]
    /\ todo \in [Workers -> SUBSET (Images \cup Findings)]
    /\ got \in [Workers -> SUBSET (Images \cup Nat \X Nat)]
    /\ failed \in [Workers -> Nat]
    /\ resolved \in SUBSET Images
    /\ unresolved \in Nat
    /\ finished \in SUBSET Nat
    /\ clear \in SUBSET (Nat \X Nat)
    /\ assessed \in SUBSET Images
    /\ counted \in [Findings -> Nat]
    /\ outcome \in {None, "complete", "partial", "error", "pods_error", "pods_timeout"}

Init ==
    /\ phase = "pods"
    /\ expired = FALSE /\ stopped = FALSE /\ closed = FALSE
    /\ running = {} /\ unfed = {} /\ first = None
    /\ wpc = [w \in Workers |-> "out"]
    /\ item = [w \in Workers |-> 0]
    /\ todo = [w \in Workers |-> {}] /\ got = [w \in Workers |-> {}]
    /\ failed = [w \in Workers |-> 0]
    /\ resolved = {} /\ unresolved = 0
    /\ finished = {} /\ clear = {} /\ assessed = {}
    /\ counted = [f \in Findings |-> 0]
    /\ outcome = None

-----------------------------------------------------------------------------
\* forEach begins: the workers wait for the items.
Begin(items) ==
    /\ unfed' = items /\ closed' = FALSE /\ first' = None
    /\ wpc' = [w \in Workers |-> "ready"]

Return(result) ==
    /\ phase' = "done"
    /\ outcome' = result

\* A page of collectPods' lists; any error ends the task with an error.
ListPods ==
    /\ phase = "pods"
    /\ \/ /\ ~expired
          /\ \E page \in SUBSET (Images \ running) \ {{}} : running' = running \cup page
          /\ UNCHANGED <<phase, outcome, unfed, closed, first, wpc>>
       \/ /\ ~expired
          /\ phase' = "resolve"
          /\ Begin({RepoOf[i] : i \in running})
          /\ UNCHANGED <<running, outcome>>
       \/ /\ Return(IF expired THEN "pods_timeout" ELSE "pods_error")
          /\ UNCHANGED <<running, unfed, closed, first, wpc>>
    /\ UNCHANGED <<expired, item, todo, got, failed, report>>

Expire ==
    /\ ~expired /\ phase # "done"
    /\ expired' = TRUE
    /\ UNCHANGED <<phase, running, pool, work, report, outcome>>

-----------------------------------------------------------------------------
\* The feeder hands out the next item, even after an error if a worker is
\* ready for it ("select" chooses any case that is ready).
Feed(w) ==
    /\ phase \in {"resolve", "find"} /\ ~closed /\ wpc[w] = "ready"
    /\ \E i \in unfed :
         /\ \A j \in unfed : i <= j
         /\ unfed' = unfed \ {i}
         /\ item' = [item EXCEPT ![w] = i]
         /\ todo' = [todo EXCEPT ![w] =
                IF phase = "resolve" THEN {x \in running : RepoOf[x] = i} ELSE {}]
    /\ got' = [got EXCEPT ![w] = {}]
    /\ failed' = [failed EXCEPT ![w] = 0]
    /\ wpc' = [wpc EXCEPT ![w] = IF phase = "resolve" THEN "image" ELSE "coverage"]
    /\ UNCHANGED <<phase, expired, running, closed, first, report, outcome>>

\* Mutant of Close: after an error the feeder returns without close(next).
CloseUnlessFailed ==
    /\ phase \in {"resolve", "find"} /\ ~closed
    /\ unfed = {} \/ first # None
    /\ closed' = (first = None)
    /\ UNCHANGED <<phase, expired, running, unfed, first, work, report, outcome>>

\* Nothing left to feed, or "done" is closed: close(next).
Close ==
    /\ phase \in {"resolve", "find"} /\ ~closed
    /\ unfed = {} \/ first # None
    /\ closed' = TRUE
    /\ UNCHANGED <<phase, expired, running, unfed, first, work, report, outcome>>

Leave(w) ==
    /\ closed /\ wpc[w] = "ready"
    /\ wpc' = [wpc EXCEPT ![w] = "out"]
    /\ UNCHANGED <<phase, expired, running, pool, item, todo, got, failed, report, outcome>>

\* fn returns an error: the first one is kept and closes "done"; the worker
\* takes the next item.
Fail(w, error) ==
    /\ first' = IF first = None THEN error ELSE first
    /\ wpc' = [wpc EXCEPT ![w] = "ready"]
    /\ UNCHANGED <<item, todo, got, failed>>

\* spend before a request, or budgetErr after it: the budget is gone.
OutOfBudget(w) ==
    /\ expired
    /\ wpc[w] \in {"image", "coverage", "findings"}
    /\ stopped' = TRUE
    /\ Fail(w, "budget")
    /\ UNCHANGED <<phase, expired, running, unfed, closed, resolved, unresolved, finished,
                   clear, assessed, counted, outcome>>

\* Inspector refuses, throttles or fails.
InspectorError(w) ==
    /\ ~expired
    /\ wpc[w] \in {"coverage", "findings"}
    /\ Fail(w, "aws")
    /\ UNCHANGED <<phase, expired, running, unfed, closed, report, outcome>>

\* wg.Wait returns: the next phase, or partialOrError.
Join ==
    /\ phase \in {"resolve", "find"} /\ closed
    /\ \A w \in Workers : wpc[w] = "out"
    /\ \/ /\ first = None /\ phase = "resolve"
          /\ phase' = "find"
          /\ Begin(Batches)
          /\ UNCHANGED outcome
       \/ /\ first = None /\ phase = "find"
          /\ Return("complete")
          /\ UNCHANGED <<unfed, closed, first, wpc>>
       \/ /\ first # None
          /\ Return(IF stopped THEN "partial" ELSE "error")
          /\ UNCHANGED <<unfed, closed, first, wpc>>
    /\ UNCHANGED <<expired, running, item, todo, got, failed, report>>

-----------------------------------------------------------------------------
\* BatchGetImage for up to EcrBatch images of a repository: some are there.  An
\* error that is not the budget's leaves them unresolved.
ResolveBatch(w) ==
    /\ ~expired /\ wpc[w] = "image" /\ todo[w] # {}
    /\ \E asked \in SUBSET todo[w] :
         /\ \/ Cardinality(asked) = EcrBatch
            \/ asked = todo[w] /\ Cardinality(asked) < EcrBatch
         /\ \E there \in SUBSET asked :
              /\ got' = [got EXCEPT ![w] = @ \cup there]
              /\ failed' = [failed EXCEPT ![w] = @ + Cardinality(asked \ there)]
         /\ todo' = [todo EXCEPT ![w] = @ \ asked]
         /\ wpc' = [wpc EXCEPT ![w] = IF asked = todo[w] THEN "merge" ELSE "image"]
    /\ UNCHANGED <<phase, expired, running, pool, item, report, outcome>>

\* The critical section at the end of resolveRepo.
MergeRepo(w) ==
    /\ wpc[w] = "merge"
    /\ resolved' = resolved \cup got[w]
    /\ unresolved' = unresolved + failed[w]
    /\ wpc' = [wpc EXCEPT ![w] = "ready"]
    /\ UNCHANGED <<phase, expired, running, pool, item, todo, got, failed, stopped, finished,
                   clear, assessed, counted, outcome>>

-----------------------------------------------------------------------------
\* Mutant of ListCoverage: images are assessed by their coverage.
ListCoverageAssess(w) ==
    /\ ~expired /\ wpc[w] = "coverage"
    /\ \E page \in SUBSET Batch(item[w]) :
         /\ got' = [got EXCEPT ![w] = page]
         /\ clear' = clear \cup page
         /\ assessed' = assessed \cup {i \in resolved : \E k \in page :
                            k \in {RepoOf[i]} \X PlatformsOf[i]}
    /\ wpc' = [wpc EXCEPT ![w] = "findings"]
    /\ todo' = [todo EXCEPT ![w] = FindingsOf(item[w])]
    /\ UNCHANGED <<phase, expired, running, pool, item, failed, stopped, resolved, unresolved,
                   finished, counted, outcome>>

\* A page of ListCoverage: the platform images that are not a gap; then, or after
\* more pages, the digests for ListFindings are collected.
ListCoverage(w) ==
    /\ ~expired /\ wpc[w] = "coverage"
    /\ \E page \in SUBSET (Batch(item[w]) \ got[w]) :
         /\ got' = [got EXCEPT ![w] = @ \cup page]
         /\ \/ wpc' = [wpc EXCEPT ![w] = "findings"]
               /\ todo' = [todo EXCEPT ![w] = FindingsOf(item[w])]
            \/ page # {} /\ UNCHANGED <<wpc, todo>>
    /\ UNCHANGED <<phase, expired, running, pool, item, failed, report, outcome>>

\* A page of ListFindings, and addFinding for each: counted if some image that
\* runs here has that platform.
ListFindings(w) ==
    /\ ~expired /\ wpc[w] = "findings"
    /\ \E page \in SUBSET todo[w] :
         /\ page # {} \/ todo[w] = {}
         /\ counted' = [f \in Findings |->
                IF f \in page /\ FoundOn[f] \in Keys THEN counted[f] + 1 ELSE counted[f]]
         /\ todo' = [todo EXCEPT ![w] = @ \ page]
         /\ wpc' = [wpc EXCEPT ![w] = IF page = todo[w] THEN "mark" ELSE "findings"]
    /\ UNCHANGED <<phase, expired, running, pool, item, got, failed, stopped, resolved,
                   unresolved, finished, clear, assessed, outcome>>

\* The critical section at the end of a batch: its statuses, and the images that
\* have a platform without a gap.
Mark(w) ==
    /\ wpc[w] = "mark"
    /\ finished' = finished \cup {item[w]}
    /\ clear' = clear \cup got[w]
    /\ assessed' = assessed \cup {i \in resolved : \E k \in got[w] :
                                      k \in {RepoOf[i]} \X PlatformsOf[i]}
    /\ wpc' = [wpc EXCEPT ![w] = "ready"]
    /\ UNCHANGED <<phase, expired, running, pool, item, todo, got, failed, stopped, resolved,
                   unresolved, counted, outcome>>

-----------------------------------------------------------------------------
WorkerStep(w) ==
    \/ Feed(w) \/ Leave(w) \/ OutOfBudget(w) \/ InspectorError(w)
    \/ ResolveBatch(w) \/ MergeRepo(w)
    \/ ListCoverage(w) \/ ListFindings(w) \/ Mark(w)

Done == phase = "done" /\ UNCHANGED vars

Next ==
    \/ ListPods \/ Expire \/ Close \/ Join
    \/ \E w \in Workers : WorkerStep(w)
    \/ Done

\* Requests are answered or fail (at the latest when the budget's context is done)
\* and goroutines run.
Spec ==
    /\ Init /\ [][Next]_vars
    /\ WF_vars(ListPods) /\ WF_vars(Close) /\ WF_vars(Join)
    /\ \A w \in Workers : WF_vars(WorkerStep(w))

-----------------------------------------------------------------------------
\* The findings on platform images of what runs here.
Relevant == {f \in Findings : FoundOn[f] \in Keys}

\* A complete result accounts for everything that runs: each image is resolved
\* or counted as unresolved, every batch was looked at, every finding counted.
CompleteAccountsForAll ==
    outcome = "complete" =>
        /\ unresolved + Cardinality(resolved) = Cardinality(running)
        /\ \A k \in Keys : \E b \in finished : k \in Batch(b)
        /\ \A f \in Relevant : counted[f] > 0

\* An image is called assessed only if one of its platform images has a status
\* that is not a gap and all findings on it were read, in a partial result too.
AssessedWereRead ==
    \A i \in assessed : \E k \in {RepoOf[i]} \X PlatformsOf[i] :
        /\ k \in clear
        /\ \A f \in Findings : FoundOn[f] = k => counted[f] > 0

\* A finding is counted at most once for each batch that asks for its digest,
\* however the pages, the workers and the errors fall.
CountedOncePerBatch ==
    phase \in {"find", "done"} =>
        \A f \in Findings : counted[f] <= Cardinality({b \in Batches : f \in FindingsOf(b)})

\* All that is found is in a complete result, and nothing in any twice for one batch.
FindingsAccounted == TypeOK /\ CompleteAccountsForAll /\ CountedOncePerBatch

\* The scan always ends: no error leaves the feeder waiting for workers, or the
\* workers waiting for the feeder.
ScanEnds == <>(phase = "done")
=============================================================================
