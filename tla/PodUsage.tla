-------------------------------- MODULE PodUsage --------------------------------
(***************************************************************************)
(* pod_resource_usage reads the metrics, then the pods, and joins them by  *)
(* name: usage from one moment, limits from a later one.  It keeps the     *)
(* pods above a threshold, ranks them and cuts the list off.               *)
(*                                                                         *)
(* A pod has one container; its limits change when the pod is recreated.   *)
(***************************************************************************)
EXTENDS Orders, Sequences

CONSTANTS
    UsagePods,
    Limits,         \* [cpu, memory] a pod's container may have, 0 for none
    Usages,         \* [cpu, memory] a pod may use
    Payloads,       \* [resource, threshold, byUsage, limit]; 0 is no threshold and no limit
    MaxUsageEdits   \* bound: changes of the cluster

ASSUME UsageAssumption ==
    /\ IsFiniteSet(UsagePods)
    /\ Limits \cup Usages \subseteq [cpu : Nat, memory : Nat]
    /\ Payloads \subseteq [resource : {"cpu", "memory", "all"}, threshold : Nat,
                           byUsage : BOOLEAN, limit : Nat]
    /\ MaxUsageEdits \in Nat

VARIABLES
    limits,     \* of the pods there are
    usage,      \* of the pods the metrics server knows
    usageEdits, \* number of changes so far
    usagePc,    \* "idle", "pods", or "answer"
    payload,
    metrics,    \* the usage read
    limitsRead,
    scraped     \* the order in which the metrics server lists

usageVars == <<limits, usage, usageEdits, usagePc, payload, metrics, limitsRead, scraped>>

Resources == {"cpu", "memory"}
High == 80
NoPods == [p \in {} |-> 0]
Maps(S) == UNION {[Q -> S] : Q \in SUBSET UsagePods}

UsageTypeOK ==
    /\ limits \in Maps(Limits)
    /\ usage \in Maps(Usages)
    /\ usageEdits \in 0..MaxUsageEdits
    /\ usagePc \in {"idle", "pods", "answer"}
    /\ payload \in Payloads
    /\ metrics \in Maps(Usages)
    /\ limitsRead \in Maps(Limits)
    /\ scraped \in Ranges(DOMAIN metrics)

UsageInit ==
    /\ limits \in [UsagePods -> Limits]
    /\ usage \in [UsagePods -> Usages]
    /\ usageEdits = 0
    /\ usagePc = "idle"
    /\ payload \in Payloads
    /\ metrics = NoPods
    /\ limitsRead = NoPods
    /\ scraped = <<>>

-----------------------------------------------------------------------------
\* Metrics are not best effort here: without them the call ends.
ReadMetrics ==
    /\ usagePc = "idle"
    /\ metrics' = usage
    /\ scraped' \in Ranges(DOMAIN usage)
    /\ usagePc' = "pods"
    /\ UNCHANGED <<limits, usage, usageEdits, payload, limitsRead>>

ReadLimits ==
    /\ usagePc = "pods"
    /\ limitsRead' = limits
    /\ usagePc' = "answer"
    /\ UNCHANGED <<limits, usage, usageEdits, payload, metrics, scraped>>

UsageEnd ==
    /\ usagePc' = "idle"
    /\ metrics' = NoPods
    /\ limitsRead' = NoPods
    /\ scraped' = <<>>
    /\ UNCHANGED <<limits, usage, usageEdits, payload>>

ReadLimitsFails == usagePc = "pods" /\ UsageEnd
AnswerUsage == usagePc = "answer" /\ UsageEnd

-----------------------------------------------------------------------------
\* Of a pod without limits, or one that is not listed, it is 0.
Percent(p, r) ==
    IF p \in DOMAIN limitsRead /\ limitsRead[p][r] > 0
    THEN (metrics[p][r] * 100) \div limitsRead[p][r]
    ELSE 0

Highest(p) == IF Percent(p, "cpu") > Percent(p, "memory") THEN Percent(p, "cpu")
                                                           ELSE Percent(p, "memory")

\* threshold_percent
KeptPod(p) ==
    IF payload.resource \in Resources THEN Percent(p, payload.resource) >= payload.threshold
                                      ELSE Highest(p) >= payload.threshold

Scored == {p \in DOMAIN metrics : KeptPod(p)}

\* What rankPods sorts by.
UsageKey(p) ==
    IF payload.byUsage
    THEN metrics[p][IF payload.resource = "memory" THEN "memory" ELSE "cpu"]
    ELSE IF payload.resource \in Resources THEN Percent(p, payload.resource) ELSE Highest(p)

\* Where in the answer of the metrics server a pod comes.
Scraped(p) == CHOOSE i \in DOMAIN scraped : scraped[i] = p

\* rankPods; up to 12 elements sort.Slice leaves equal ones in place.
ByKey ==
    {d \in Scored \X Scored :
       \/ UsageKey(d[1]) > UsageKey(d[2])
       \/ UsageKey(d[1]) = UsageKey(d[2]) /\ Scraped(d[1]) < Scraped(d[2])}

Ranked == InOrder(Scored, ByKey)

CutOff == payload.limit > 0 /\ Len(Ranked) > payload.limit

ShownPods == IF CutOff THEN SubSeq(Ranked, 1, payload.limit) ELSE Ranked

HighUsage == Cardinality({p \in Scored : Highest(p) >= High})

-----------------------------------------------------------------------------
\* A pod is recreated with other limits under its name, or goes.
Recreate(p) ==
    /\ usagePc # "answer"
    /\ usageEdits < MaxUsageEdits
    /\ usageEdits' = usageEdits + 1
    /\ \/ \E l \in Limits :
            limits' = [q \in DOMAIN limits \cup {p} |-> IF q = p THEN l ELSE limits[q]]
       \/ limits' = [q \in DOMAIN limits \ {p} |-> limits[q]]
    /\ UNCHANGED <<usage, usagePc, payload, metrics, limitsRead, scraped>>

\* The metrics server scrapes the pods there are.
Scrape ==
    /\ usagePc # "answer"
    /\ \E u \in Usages :
           usage' = [p \in DOMAIN limits |-> IF p \in DOMAIN usage THEN usage[p] ELSE u]
    /\ UNCHANGED <<limits, usageEdits, usagePc, payload, metrics, limitsRead, scraped>>

UsageNext ==
    \/ ReadMetrics \/ ReadLimits \/ ReadLimitsFails \/ AnswerUsage \/ Scrape
    \/ \E p \in UsagePods : Recreate(p)

UsageSpec == UsageInit /\ [][UsageNext]_usageVars

-----------------------------------------------------------------------------
\* In whatever order the metrics come: the pods shown are those with the highest
\* keys among the ones above the threshold, and none of these that is used at 80 % is
\* left uncounted because the list was cut off.
RankHonest ==
    usagePc = "answer" =>
        LET all == {p \in DOMAIN metrics : KeptPod(p)}
            shown == {ShownPods[i] : i \in DOMAIN ShownPods}
        IN  /\ shown \subseteq all
            /\ \A p \in shown, q \in all \ shown : UsageKey(q) <= UsageKey(p)
            /\ HighUsage = Cardinality({p \in all : \E r \in Resources : Percent(p, r) >= High})
            /\ shown # all => Len(ShownPods) = payload.limit
=============================================================================
