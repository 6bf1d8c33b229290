------------------------------- MODULE RouteList -------------------------------
(***************************************************************************)
(* list_routes lists the Gateway API's kinds of routes one after the       *)
(* other, in the order in which a Go map is visited, while the API is      *)
(* installed kind by kind and routes are edited; gateways answer a route   *)
(* in its status, each for itself and some time after the edit.            *)
(*                                                                         *)
(* Kinds, namespaces and names are numbers, in their alphabetical order.   *)
(***************************************************************************)
EXTENDS Orders, Sequences

CONSTANTS
    Routes,         \* [kind, ns, name] of the routes there may be; kinds are numbers
    ParentRefs,     \* parent references [name, ns]; ns = 0 is left out
    MaxParents,     \* bound: references of a route
    MaxRouteEdits   \* bound: changes of the cluster

ASSUME RouteAssumption ==
    /\ Routes \subseteq [kind : Nat, ns : Nat, name : Nat] /\ IsFiniteSet(Routes)
    /\ ParentRefs \subseteq [name : Nat, ns : Nat]
    /\ MaxRouteEdits \in Nat

RouteKinds == {r.kind : r \in Routes}

VARIABLES
    installed,      \* the kinds whose resource definition is installed
    routes,         \* the routes there are
    parents,        \* spec.parentRefs of each
    parentStatus,   \* status.parents of each: [ref, accepted] in some order
    routeEdits,     \* number of changes so far
    routePc,        \* "idle", "list", or "answer"
    routeLeft,      \* kinds still to be listed
    asked,          \* the kinds asked for: one or all
    routesFound,    \* the routes listed, with what was read of them
    api,            \* GatewayAPIInstalled
    routesTouched,  \* history: routes edited since the call began, or of a kind that was
    accepted        \* history: the gateways [name, ns] that have ever accepted each

gateways == <<installed, routes, parents, parentStatus, routeEdits, accepted>>
routeCall == <<routePc, routeLeft, asked, routesFound, api>>
routeVars == <<gateways, routeCall, routesTouched>>

RouteVerdicts == {"True", "False", "Unknown"}
ParentEntry == [ref : ParentRefs, accepted : RouteVerdicts]
RouteInfo == [route : Routes, parents : SUBSET ParentRefs, status : Seq(ParentEntry)]

RouteTypeOK ==
    /\ installed \subseteq RouteKinds
    /\ routes \subseteq Routes
    /\ parents \in [Routes -> SUBSET ParentRefs]
    /\ parentStatus \in [Routes -> Seq(ParentEntry)]
    /\ routeEdits \in 0..MaxRouteEdits
    /\ routePc \in {"idle", "list", "answer"}
    /\ routeLeft \subseteq asked
    /\ asked \subseteq RouteKinds
    /\ routesFound \in Seq(RouteInfo)
    /\ api \in BOOLEAN
    /\ routesTouched \subseteq Routes
    /\ accepted \in [Routes -> SUBSET [name : Nat, ns : Nat]]

RouteInit ==
    /\ installed \in SUBSET RouteKinds
    /\ routes = Routes
    /\ \E R \in SUBSET ParentRefs :
           /\ Cardinality(R) \in 1..MaxParents
           /\ parents = [r \in Routes |-> R]
    /\ parentStatus = [r \in Routes |-> <<>>]
    /\ routeEdits = 0
    /\ routePc = "idle"
    /\ routeLeft = {} /\ asked = {}
    /\ routesFound = <<>>
    /\ api = FALSE
    /\ routesTouched = {}
    /\ accepted = [r \in Routes |-> {}]

-----------------------------------------------------------------------------
AskRoutes ==
    /\ routePc = "idle"
    /\ asked' \in {{k} : k \in RouteKinds} \cup {RouteKinds}
    /\ routeLeft' = asked'
    /\ routePc' = "list"
    /\ UNCHANGED <<gateways, routesFound, api, routesTouched>>

\* Mutant of LeftAfter: a kind that is not installed ends the listing.
LeftAfterMissing(k) == IF k \in installed THEN routeLeft \ {k} ELSE {}

LeftAfter(k) == routeLeft \ {k}

\* buildRouteInfo
RouteRead(r) == [route |-> r, parents |-> parents[r], status |-> parentStatus[r]]

\* One kind is listed; if it is not installed it is skipped.
ListRoutes(k) ==
    /\ routePc = "list"
    /\ k \in routeLeft
    /\ IF k \in installed
       THEN LET s == Stored({r \in routes : r.kind = k})
            IN  /\ routesFound' = routesFound \o [i \in DOMAIN s |-> RouteRead(s[i])]
                /\ api' = TRUE
       ELSE UNCHANGED <<routesFound, api>>
    /\ routeLeft' = LeftAfter(k)
    /\ routePc' = IF routeLeft' = {} THEN "answer" ELSE "list"
    /\ UNCHANGED <<gateways, asked, routesTouched>>

RoutesEnd ==
    /\ routePc' = "idle"
    /\ routeLeft' = {} /\ asked' = {}
    /\ routesFound' = <<>>
    /\ api' = FALSE
    /\ routesTouched' = {}
    /\ UNCHANGED gateways

ListRoutesFails == routePc = "list" /\ RoutesEnd
AnswerRoutes == routePc = "answer" /\ RoutesEnd

\* By kind, namespace and name.
RouteBefore(v, w) ==
    \/ v.kind < w.kind
    \/ v.kind = w.kind /\ v.ns < w.ns
    \/ v.kind = w.kind /\ v.ns = w.ns /\ v.name < w.name
SortedRoutes ==
    InOrder(DOMAIN routesFound,
            {p \in (DOMAIN routesFound) \X (DOMAIN routesFound) :
               RouteBefore(routesFound[p[1]].route, routesFound[p[2]].route)})
ShownRoutes == [i \in DOMAIN routesFound |-> routesFound[SortedRoutes[i]]]

\* A reference without a namespace is found in a status for any.
SameParent(ref, ofStatus) == ofStatus.name = ref.name /\ ref.ns \in {0, ofStatus.ns}

isParentAttached(e, ref) ==
    \E i \in DOMAIN e.status : SameParent(ref, e.status[i].ref) /\ e.status[i].accepted = "True"

\* extractConditions: of the parents' verdicts the first, unless that is False and
\* there is a True one.
Condition(s) ==
    IF s = <<>> THEN "none"
    ELSE IF s[1].accepted = "False" /\ \E i \in DOMAIN s : s[i].accepted = "True" THEN "True"
    ELSE s[1].accepted

-----------------------------------------------------------------------------
\* Others change the cluster.
RouteEdit(R) ==
    /\ routeEdits < MaxRouteEdits
    /\ routeEdits' = routeEdits + 1
    /\ routesTouched' = IF routePc = "idle" THEN {} ELSE routesTouched \cup R
    /\ UNCHANGED routeCall

KindComesOrGoes(k) ==
    /\ installed' = IF k \in installed THEN installed \ {k} ELSE installed \cup {k}
    /\ RouteEdit({r \in Routes : r.kind = k})
    /\ UNCHANGED <<routes, parents, parentStatus, accepted>>

RouteComesOrGoes(r) ==
    /\ r.kind \in installed
    /\ routes' = IF r \in routes THEN routes \ {r} ELSE routes \cup {r}
    /\ parentStatus' = [parentStatus EXCEPT ![r] = <<>>]
    /\ accepted' = [accepted EXCEPT ![r] = {}]
    /\ RouteEdit({r})
    /\ UNCHANGED <<installed, parents>>

EditParents(r) ==
    /\ r \in routes
    /\ \E R \in SUBSET ParentRefs :
           /\ R # parents[r] /\ Cardinality(R) \in 1..MaxParents
           /\ parents' = [parents EXCEPT ![r] = R]
    /\ RouteEdit({r})
    /\ UNCHANGED <<installed, routes, parentStatus, accepted>>

\* What other gateways say of a route, in its order.
SaidByOthers(r, ref) ==
    LET others == Ascending({i \in DOMAIN parentStatus[r] : parentStatus[r][i].ref # ref})
    IN  [i \in DOMAIN others |-> parentStatus[r][others[i]]]

\* The gateway that a route means by a reference.
Gateway(r, ref) == [name |-> ref.name, ns |-> IF ref.ns = 0 THEN r.ns ELSE ref.ns]

\* A gateway that a route has named answers for it: with the reference as it is
\* written in the route.  It takes back what it said when it is named no more.
ReconcileRoute(r, ref) ==
    /\ r \in routes
    /\ IF ref \in parents[r]
       THEN \E v \in RouteVerdicts :
              /\ parentStatus' = [parentStatus EXCEPT ![r] =
                    Append(SaidByOthers(r, ref), [ref |-> ref, accepted |-> v])]
              /\ accepted' = [accepted EXCEPT ![r] =
                    IF v = "True" THEN @ \cup {Gateway(r, ref)} ELSE @]
       ELSE /\ parentStatus' = [parentStatus EXCEPT ![r] = SaidByOthers(r, ref)]
            /\ UNCHANGED accepted
    /\ RouteEdit({r})
    /\ UNCHANGED <<installed, routes, parents>>

RouteNext ==
    \/ AskRoutes \/ ListRoutesFails \/ AnswerRoutes
    \/ \E k \in RouteKinds : ListRoutes(k) \/ KindComesOrGoes(k)
    \/ \E r \in Routes : \/ RouteComesOrGoes(r) \/ EditParents(r)
                         \/ \E ref \in ParentRefs : ReconcileRoute(r, ref)

RouteSpec == RouteInit /\ [][RouteNext]_routeVars

-----------------------------------------------------------------------------
\* In whatever order the kinds are visited and whichever of them are missing: the
\* routes are shown in one order, none of them twice, and every route that was not
\* changed during the call, of a kind installed all along, is among them.  That
\* the API is not installed is said only if no such kind was.
RoutesListed ==
    routePc = "answer" =>
        /\ \A i, j \in DOMAIN routesFound : i < j =>
               LET v == ShownRoutes[i].route
                   w == ShownRoutes[j].route
               IN  <<v.kind, v.ns, v.name>> # <<w.kind, w.ns, w.name>> /\ v.kind <= w.kind
        /\ \A r \in routes \ routesTouched :
               r.kind \in asked \cap installed =>
                   api /\ \E i \in DOMAIN routesFound : routesFound[i].route = r

\* A route that names a gateway with its namespace is shown as attached to it only
\* if that gateway has accepted it, and its condition is shown as False only if no
\* gateway it has heard from says True.
AttachmentHonest ==
    routePc = "answer" => \A i \in DOMAIN routesFound :
        LET e == routesFound[i]
        IN  /\ \A ref \in e.parents : e.route \notin routesTouched /\ ref.ns # 0
                   /\ isParentAttached(e, ref) => ref \in accepted[e.route]
            /\ Condition(e.status) = "False" =>
                   \A j \in DOMAIN e.status : e.status[j].accepted # "True"

\* list_routes says of every route what is so, and leaves none out.
RoutesHonest == RouteTypeOK /\ RoutesListed /\ AttachmentHonest
=============================================================================
