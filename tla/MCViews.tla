------------------------------- MODULE MCViews -------------------------------
(* Tasks that only read a cluster which goes on changing: what list_workloads, *)
(* list_pods, list_routes, cluster_info, resource_pressure, pod_resource_usage *)
(* and cluster_health make of lists taken one after the other, and what        *)
(* get_resource makes of what list_resources has shown.  They share nothing: a *)
(* run is of one of them, named by part, and leaves the others idle.           *)
EXTENDS ResourceAccess, Listings, RouteList, Accounts, HealthWatch

VARIABLE part

\* Two Deployments in different namespaces, of which the order by namespace is not
\* the order by name, a DaemonSet, and a CronJob, which has no pods of its own;
\* budgets of one name in two namespaces.
Workload(k, n, m) == [kind |-> k, ns |-> n, name |-> m]
ScaledOne == Workload("Deployment", 1, 2)
SomeWorkloads == {ScaledOne, Workload("Deployment", 2, 1), Workload("DaemonSet", 1, 1),
                  Workload("CronJob", 1, 1)}
SomeTemplates == {{1}, {1, 2}}
SomeBudgets == {[ns |-> 1, name |-> 1, selects |-> 1], [ns |-> 2, name |-> 1, selects |-> 2]}
SomeAsks == {[kind |-> "all", hpas |-> TRUE], [kind |-> "CronJob", hpas |-> FALSE]}

\* A gateway's name without a namespace, and in another than the routes'.
SomeRoutes == {[kind |-> 1, ns |-> 1, name |-> 1], [kind |-> 2, ns |-> 1, name |-> 1]}
SomeParents == {[name |-> 1, ns |-> 0], [name |-> 1, ns |-> 2]}

SomeOwners == {[kind |-> "Deployment", name |-> 1], [kind |-> "Rollout", name |-> 1]}

SomePods == {[id |-> 1, ns |-> "a"], [id |-> 2, ns |-> "b"]}

\* All pods by their share; the memory-heavy; the CPU-heavy, one; by usage, one.
Query(r, t, u, n) == [resource |-> r, threshold |-> t, byUsage |-> u, limit |-> n]
SomePayloads == {Query("all", 0, FALSE, 1), Query("memory", 50, FALSE, 0),
                 Query("cpu", 50, FALSE, 1), Query("memory", 0, TRUE, 1)}
SomeLimits == {[cpu |-> 0, memory |-> 4], [cpu |-> 2, memory |-> 4]}
SomeUsages == {[cpu |-> 1, memory |-> 4], [cpu |-> 2, memory |-> 1]}

\* The state a part is left in when it is not looked at: idle, in a cluster of which
\* nothing is known.
ListAside ==
    /\ alive = {} /\ template = [w \in Workloads |-> {1}] /\ budgets = {} /\ listEdits = 0
    /\ listPc = "idle" /\ ask = EveryKind /\ left = <<>> /\ entries = <<>>
    /\ podLabels = <<>> /\ unmatched = {} /\ touched = {} /\ whole = TRUE /\ last = NoAnswer
RouteAside ==
    /\ installed = {} /\ routes = {} /\ parents = [r \in Routes |-> {}]
    /\ parentStatus = [r \in Routes |-> <<>>] /\ routeEdits = 0
    /\ routePc = "idle" /\ routeLeft = {} /\ asked = {} /\ routesFound = <<>> /\ api = FALSE
    /\ routesTouched = {} /\ accepted = [r \in Routes |-> {}]
OwnerAside ==
    /\ pods = {} /\ sets = NoMap /\ setEdits = 0 /\ ownerPc = "idle"
    /\ task = "list_pods" /\ scope = PodNamespaces /\ listed = {} /\ owners = NoMap
    /\ measured = {} /\ setsTouched = {}
AccountAside ==
    /\ room = NoRooms /\ requests = [p \in AccountPods |-> 0]
    /\ bound = [p \in AccountPods |-> "none"] /\ podPhase = [p \in AccountPods |-> "absent"]
    /\ accountPc = "idle" /\ roomRead = NoRooms /\ order = <<>> /\ podsRead = NoPodsRead
    /\ raised = {} /\ renewed = {}
UsageAside ==
    /\ limits = NoPods /\ usage = NoPods /\ usageEdits = 0 /\ usagePc = "idle"
    /\ payload = Query("all", 0, FALSE, 1) /\ metrics = NoPods
    /\ limitsRead = NoPods /\ scraped = <<>>
AccessAside ==
    /\ crds = {"Secret"} /\ objects = {} /\ mapper = {} /\ crdEdits = 0
    /\ request = NoCall /\ answer = "none" /\ cause = "none" /\ refs = {}
HealthAside ==
    /\ init = "done" /\ main = "run" /\ phase = "Running" /\ age = 0 /\ restarts = 0
    /\ since = Past /\ ended = Past /\ deleting = FALSE /\ ready = 1
    /\ nodeUp = TRUE /\ nodeAge = 0 /\ disrupted = FALSE
    /\ pc = "pods" /\ found = {} /\ verdict = [healthy |-> TRUE, names |-> {}] /\ lasting = {}

ViewsInit ==
    \/ part = "workloads" /\ ListInit
         /\ RouteAside /\ OwnerAside /\ AccountAside /\ UsageAside /\ AccessAside /\ HealthAside
    \/ part = "routes" /\ RouteInit
         /\ ListAside /\ OwnerAside /\ AccountAside /\ UsageAside /\ AccessAside /\ HealthAside
    \/ part = "owners" /\ OwnerInit
         /\ ListAside /\ RouteAside /\ AccountAside /\ UsageAside /\ AccessAside /\ HealthAside
    \/ part = "accounts" /\ AccountInit
         /\ ListAside /\ RouteAside /\ OwnerAside /\ UsageAside /\ AccessAside /\ HealthAside
    \/ part = "usage" /\ UsageInit
         /\ ListAside /\ RouteAside /\ OwnerAside /\ AccountAside /\ AccessAside /\ HealthAside
    \/ part = "access" /\ AccessInit
         /\ ListAside /\ RouteAside /\ OwnerAside /\ AccountAside /\ UsageAside /\ HealthAside
    \/ part = "health" /\ WatchInit
         /\ ListAside /\ RouteAside /\ OwnerAside /\ AccountAside /\ UsageAside /\ AccessAside

ViewsNext ==
    /\ UNCHANGED part
    /\ \/ part = "workloads" /\ ListNext
            /\ UNCHANGED <<routeVars, ownerVars, accountVars, usageVars, accessVars, watchVars>>
       \/ part = "routes" /\ RouteNext
            /\ UNCHANGED <<listVars, ownerVars, accountVars, usageVars, accessVars, watchVars>>
       \/ part = "owners" /\ OwnerNext
            /\ UNCHANGED <<listVars, routeVars, accountVars, usageVars, accessVars, watchVars>>
       \/ part = "accounts" /\ AccountNext
            /\ UNCHANGED <<listVars, routeVars, ownerVars, usageVars, accessVars, watchVars>>
       \/ part = "usage" /\ UsageNext
            /\ UNCHANGED <<listVars, routeVars, ownerVars, accountVars, accessVars, watchVars>>
       \/ part = "access" /\ AccessNext
            /\ UNCHANGED <<listVars, routeVars, ownerVars, accountVars, usageVars, watchVars>>
       \/ part = "health" /\ WatchNext
            /\ UNCHANGED <<listVars, routeVars, ownerVars, accountVars, usageVars, accessVars>>

ViewsSpec ==
    ViewsInit /\ [][ViewsNext]_<<part, listVars, routeVars, ownerVars, accountVars, usageVars,
                                accessVars, watchVars>>
=============================================================================
