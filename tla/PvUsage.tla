------------------------------- MODULE PvUsage -------------------------------
(***************************************************************************)
(* pv_usage asks every node's kubelet for the volumes mounted there: one   *)
(* goroutine per node, of which a semaphore lets some ask at a time, a     *)
(* buffered channel for what they find, and a WaitGroup.  When all have    *)
(* left, the results are merged in the order in which they came: a claim   *)
(* mounted on several nodes is reported once, with its highest usage.      *)
(***************************************************************************)
EXTENDS Naturals, Sequences, FiniteSets

CONSTANTS
    Nodes,
    Claims,
    Concurrency,    \* nodeStatsConcurrency
    Percents,       \* usage in percent
    Thresholds      \* threshold_percent, 0 for none

\* nodeStatsConcurrency is a positive constant.
ASSUME VolumeAssumption ==
    /\ Percents \subseteq Nat /\ Thresholds \subseteq Nat
    /\ IsFiniteSet(Nodes) /\ Concurrency \in Nat \ {0}

VARIABLES
    mounted,    \* the claims mounted on each node, with their usage there
    threshold,  \* of this call
    at,         \* where the goroutine of each node is
    results,    \* the channel: nodes in the order of their answers, and if they failed
    main,       \* "wait" in wg.Wait, or "done"
    report      \* what is reported

volumeVars == <<mounted, threshold, at, results, main, report>>

High == 80

NoReport == [usage |-> <<>>, withMetrics |-> 0, high |-> 0, errors |-> {}]

\* Partial functions from claims to their usage.
Usage == UNION {[s -> Percents] : s \in SUBSET Claims}

VolumeTypeOK ==
    /\ mounted \in [Nodes -> Usage]
    /\ threshold \in Thresholds
    /\ at \in [Nodes -> {"start", "ask", "left"}]
    /\ results \in Seq(Nodes \X BOOLEAN)
    /\ main \in {"wait", "done"}
    /\ report.usage \in Usage

VolumeInit ==
    /\ mounted \in [Nodes -> Usage]
    /\ threshold \in Thresholds
    /\ at = [n \in Nodes |-> "start"]
    /\ results = <<>>
    /\ main = "wait"
    /\ report = NoReport

-----------------------------------------------------------------------------
Asking == {n \in Nodes : at[n] = "ask"}

\* The goroutine gets a place in the semaphore.
Acquire(n) ==
    /\ at[n] = "start"
    /\ Cardinality(Asking) < Concurrency
    /\ at' = [at EXCEPT ![n] = "ask"]
    /\ UNCHANGED <<mounted, threshold, results, main, report>>

\* Mutant of Capacity: as many places as goroutines that may ask at a time.
CapacityOfSemaphore == Concurrency

\* The channel has room for every node, so that nobody waits for a reader that
\* only comes when all have left.
Capacity == Cardinality(Nodes)

\* The kubelet answers, or does not within nodeStatsTimeout; the goroutine sends
\* that and gives its place back.
Send(n) ==
    /\ at[n] = "ask"
    /\ Len(results) < Capacity
    /\ \E failed \in BOOLEAN : results' = Append(results, <<n, failed>>)
    /\ at' = [at EXCEPT ![n] = "left"]
    /\ UNCHANGED <<mounted, threshold, main, report>>

\* Mutant of Merge: the last node to answer counts.
MergeLast(found, more) ==
    [k \in DOMAIN found \cup DOMAIN more |-> IF k \in DOMAIN more THEN more[k] ELSE found[k]]

\* The claims of one more node: those not met yet and those used more there.
Merge(found, more) ==
    [k \in DOMAIN found \cup DOMAIN more |->
        IF k \notin DOMAIN found \/ (k \in DOMAIN more /\ more[k] > found[k])
        THEN more[k] ELSE found[k]]

\* The first i results, without those of nodes that failed.
Merging[i \in 0..Len(results)] ==
    IF i = 0 THEN <<>>
    ELSE IF results[i][2] THEN Merging[i - 1]
    ELSE Merge(Merging[i - 1], mounted[results[i][1]])

Merged == Merging[Len(results)]

\* wg.Wait returns; merge, filter, count.
Report ==
    /\ main = "wait"
    /\ \A n \in Nodes : at[n] = "left"
    /\ LET listed == {k \in DOMAIN Merged : threshold = 0 \/ Merged[k] >= threshold}
       IN  report' = [usage |-> [k \in listed |-> Merged[k]],
                      withMetrics |-> Cardinality(DOMAIN Merged),
                      high |-> Cardinality({k \in listed : Merged[k] >= High}),
                      errors |-> {results[i][1] : i \in {j \in 1..Len(results) : results[j][2]}}]
    /\ main' = "done"
    /\ UNCHANGED <<mounted, threshold, at, results>>

\* The rest of the process goes on: Go would not notice that all of these wait.
Elsewhere == UNCHANGED volumeVars

VolumeNext == (\E n \in Nodes : Acquire(n) \/ Send(n)) \/ Report \/ Elsewhere

\* Kubelets answer or time out, and goroutines that can run do.
VolumeFairness == (\A n \in Nodes : WF_volumeVars(Acquire(n) \/ Send(n))) /\ WF_volumeVars(Report)
VolumeSpec == VolumeInit /\ [][VolumeNext]_volumeVars /\ VolumeFairness

-----------------------------------------------------------------------------
Answering == Nodes \ report.errors
Seen(k) == {mounted[n][k] : n \in {m \in Answering : k \in DOMAIN mounted[m]}}
HighestOf(k) == CHOOSE p \in Seen(k) : \A q \in Seen(k) : q <= p

\* In whatever order the nodes answer: a claim is reported with its highest usage
\* on the nodes that answered, none is left out but those below the threshold,
\* and as many are called high as are used at 80 % and listed.
UsageIsHighest ==
    main = "done" =>
        LET used == {k \in Claims : Seen(k) # {}}
        IN  /\ DOMAIN report.usage = {k \in used : threshold = 0 \/ HighestOf(k) >= threshold}
            /\ \A k \in DOMAIN report.usage : report.usage[k] = HighestOf(k)
            /\ report.withMetrics = Cardinality(used)
            /\ report.high = Cardinality({k \in DOMAIN report.usage : HighestOf(k) >= High})

\* Every call gets its report, although more nodes may be asked than the
\* semaphore has places and nobody reads the channel before all have left.
UsageEnds == <>(main = "done")

\* pv_usage: the answer is the same whatever the order in which the nodes answer.
UsageTold == VolumeTypeOK /\ UsageIsHighest
=============================================================================
