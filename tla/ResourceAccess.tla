---------------------------- MODULE ResourceAccess ----------------------------
(* get_resource and list_resources: a denylist they share, the REST mapper that *)
(* is filled once when the process starts, one request, and the error codes a   *)
(* caller acts on.  Kinds are installed and removed and objects come and go     *)
(* between the calls.  A kind stands for its group, version and kind; what is   *)
(* shown of an object is left out but for what is needed to ask for it again.   *)
EXTENDS Integers, FiniteSets

CONSTANTS
    Kinds, Namespaced,      \* all kinds, those whose objects have a namespace
    Namespaces, Names,
    Extra,                  \* RESOURCE_ACCESS_DENY: kinds denied besides Secret
    DefaultLimit, MaxLimit,
    MaxCrdEdits             \* changes of the cluster and restarts, for TLC

\* The namespace of an object that has none, or of a call that gives none.
Cluster == ""
ASSUME AccessAssumption ==
    Cluster \notin Namespaces /\ Namespaced \subseteq Kinds /\ MaxCrdEdits \in Nat

VARIABLES
    crds,       \* kinds the API server knows
    objects,    \* of those kinds
    mapper,     \* kinds the process's RESTMapper knows
    crdEdits,
    request,    \* the call answered last, until the next or a change of the cluster
    answer,     \* the code of its answer
    cause,      \* history: the error that it was made of, if there was one
    refs        \* what the last successful list of this process has shown

accessVars == <<crds, objects, mapper, crdEdits, request, answer, cause, refs>>

Objects == [kind : Namespaced, ns : Namespaces, name : Names]
           \cup [kind : Kinds \ Namespaced, ns : {Cluster}, name : Names]

\* exact: the kind is spelled as the API server spells it, and not, say, in lower
\* case.  limit: not used by a get; name: not used by a list.
Call(t, k, e, n, m, o, l) ==
    [task |-> t, kind |-> k, exact |-> e, ns |-> n, name |-> m, output |-> o, limit |-> l]
GetCalls == {Call("get", k, e, n, m, o, 0) : k \in Kinds, e \in BOOLEAN, m \in Names,
            n \in Namespaces \cup {Cluster}, o \in {"summary", "yaml"}}
ListCalls == {Call("list", k, e, n, 0, "summary", l) : k \in Kinds, e \in BOOLEAN,
            n \in Namespaces \cup {Cluster}, l \in 0..(MaxLimit + 1)}
NoCall == Call("none", "Secret", TRUE, Cluster, 0, "summary", 0)

-----------------------------------------------------------------------------
\* The status code of an error of the API server; one of the transport has none.
\* Bad requests stand for what else is refused: a verb the kind does not have (405),
\* a conflict, a form that cannot be given.
Status == [notFound |-> 404, forbidden |-> 403, timeout |-> 504, throttled |-> 429,
           internal |-> 500, badRequest |-> 400, unauthorized |-> 401]

\* What any request may be answered, whatever it is for.
AnyTime == {"forbidden", "timeout", "throttled", "internal", "transport", "badRequest",
            "unauthorized"}

IsServerFault(e) == e \in DOMAIN Status => Status[e] \notin (400..499 \ {429})

\* The errors with a code of their own; noMatch is the mapper's.
NamedCode == [notFound |-> "NOT_FOUND", forbidden |-> "FORBIDDEN", timeout |-> "TIMEOUT",
          noMatch |-> "API_NOT_FOUND"]
MapAPIError(e) ==
    IF e \in DOMAIN NamedCode THEN NamedCode[e]
    ELSE IF IsServerFault(e) THEN "SERVER_ERROR" ELSE "INVALID_REQUEST"

\* A list has no name that might not be found.
mapListError(e) == IF e = "notFound" THEN "INVALID_REQUEST" ELSE MapAPIError(e)

\* Case does not matter, so that exact does not.
IsDenied(c) == c.kind \in Extra \cup {"Secret"}

RESTMapping(c) == c.exact /\ c.kind \in mapper

\* Mutant of Refusal: a list is not held against the denylist.
RefusalOfGets(c) ==
    IF c.task = "get" /\ IsDenied(c) THEN "BLOCKED"
    ELSE IF ~RESTMapping(c) THEN MapAPIError("noMatch")
    ELSE IF c.task = "get" /\ c.kind \in Namespaced /\ c.ns = Cluster
         THEN "NAMESPACE_REQUIRED" ELSE "none"

\* What a call is told without any request.
Refusal(c) ==
    IF IsDenied(c) THEN "BLOCKED"
    ELSE IF ~RESTMapping(c) THEN MapAPIError("noMatch")
    ELSE IF c.task = "get" /\ c.kind \in Namespaced /\ c.ns = Cluster
         THEN "NAMESPACE_REQUIRED" ELSE "none"

Refused(c) ==
    /\ Refusal(c) # "none"
    /\ answer' = Refusal(c) /\ cause' = "none"
    /\ UNCHANGED refs

\* The object a get is of: a namespace is ignored if the kind has none.
Target(c) == [kind |-> c.kind, ns |-> IF c.kind \in Namespaced THEN c.ns ELSE Cluster,
              name |-> c.name]

\* The output is looked at last.
GetObject(c) ==
    /\ Refusal(c) = "none"
    /\ \/ \E e \in AnyTime : answer' = MapAPIError(e) /\ cause' = e
       \/ Target(c) \notin objects /\ answer' = MapAPIError("notFound") /\ cause' = "notFound"
       \/ /\ Target(c) \in objects /\ cause' = "none"
          /\ answer' = IF c.output = "summary" THEN "FOUND" ELSE "INVALID_REQUEST"
    /\ UNCHANGED refs

Limit(c) == IF c.limit <= 0 THEN DefaultLimit
            ELSE IF c.limit > MaxLimit THEN MaxLimit ELSE c.limit

Selected(c) == {o \in objects : o.kind = c.kind
                    /\ (c.kind \in Namespaced /\ c.ns # Cluster => o.ns = c.ns)}

\* The API server's page: as many as the limit admits, in some order of its own.
Pages(c) == {p \in SUBSET Selected(c) :
                \/ Cardinality(p) = Limit(c)
                \/ p = Selected(c) /\ Cardinality(p) < Limit(c)}

\* A reference has the name and the namespace; the kind is the list's.
extractRef(o) == [kind |-> o.kind, ns |-> o.ns, name |-> o.name]

ListObjects(c) ==
    /\ Refusal(c) = "none"
    /\ \/ \E e \in AnyTime : answer' = mapListError(e) /\ cause' = e /\ UNCHANGED refs
       \/ /\ c.kind \notin crds
          /\ answer' = mapListError("notFound") /\ cause' = "notFound" /\ UNCHANGED refs
       \/ /\ c.kind \in crds /\ cause' = "none"
          /\ \E p \in Pages(c) : refs' = {extractRef(o) : o \in p}
          /\ answer' = "FOUND"

Execute ==
    /\ request = NoCall
    /\ \/ \E c \in GetCalls : request' = c /\ (Refused(c) \/ GetObject(c))
       \/ \E c \in ListCalls : request' = c /\ (Refused(c) \/ ListObjects(c))
    /\ UNCHANGED <<crds, objects, mapper, crdEdits>>

Received ==
    /\ request # NoCall /\ request' = NoCall /\ answer' = "none" /\ cause' = "none"
    /\ UNCHANGED <<crds, objects, mapper, crdEdits, refs>>

-----------------------------------------------------------------------------
AccessEdit ==
    /\ request = NoCall
    /\ crdEdits < MaxCrdEdits /\ crdEdits' = crdEdits + 1
    /\ UNCHANGED <<request, answer, cause>>

\* A definition is installed, or removed with its objects; Secret stays.
InstallOrRemove(k) ==
    /\ AccessEdit
    /\ \/ k \notin crds /\ crds' = crds \cup {k} /\ UNCHANGED objects
       \/ k # "Secret" /\ k \in crds
            /\ crds' = crds \ {k} /\ objects' = {o \in objects : o.kind # k}
    /\ UNCHANGED <<mapper, refs>>

CreateOrDelete(o) ==
    /\ AccessEdit /\ o.kind \in crds
    /\ objects' = IF o \in objects THEN objects \ {o} ELSE objects \cup {o}
    /\ UNCHANGED <<crds, mapper, refs>>

\* Discovery runs once; what it meets of groups whose server does not answer is
\* left out without an error.
NewClient ==
    /\ AccessEdit
    /\ mapper' \in SUBSET crds
    /\ refs' = {} /\ UNCHANGED <<crds, objects>>

AccessInit ==
    /\ crds \in SUBSET Kinds /\ "Secret" \in crds
    /\ mapper \in SUBSET crds
    /\ objects = {o \in Objects : o.kind \in crds}
    /\ crdEdits = 0 /\ answer = "none" /\ cause = "none" /\ refs = {}
    /\ request = NoCall

AccessNext ==
    \/ Execute \/ Received
    \/ \E k \in Kinds : InstallOrRemove(k)
    \/ \E o \in Objects : CreateOrDelete(o)
    \/ NewClient

AccessSpec == AccessInit /\ [][AccessNext]_accessVars

-----------------------------------------------------------------------------
Codes == {"none", "FOUND", "BLOCKED", "NAMESPACE_REQUIRED", "SERVER_ERROR", "INVALID_REQUEST"}
         \cup {NamedCode[e] : e \in DOMAIN NamedCode}

\* The variables have their types.
AccessTypeOK ==
    /\ crds \subseteq Kinds /\ mapper \subseteq Kinds
    /\ objects \subseteq {o \in Objects : o.kind \in crds}
    /\ crdEdits \in 0..MaxCrdEdits
    /\ request \in GetCalls \cup ListCalls \cup {NoCall} /\ answer \in Codes
    /\ cause \in AnyTime \cup {"none", "notFound"}
    /\ refs \subseteq Objects

\* What a caller may be told of a call with nothing wrong in it: that it is refused
\* only if the API server itself has refused it, with a 4xx that is not a 429.  That is
\* also so of a 401, which is about the process's own credentials.
Blameless ==
    {"FOUND", "FORBIDDEN", "TIMEOUT", "SERVER_ERROR"}
    \cup (IF cause \in {"badRequest", "unauthorized"} THEN {"INVALID_REQUEST"} ELSE {})

\* What list_resources shows can be passed straight to get_resource, in the same
\* process: it is not blocked, known, has the namespace it needs, and is not said to
\* be missing while it is there, or wrong unless the API server says so.  The two tasks
\* share the denylist and the mapper (main.go), so that nothing is listed that cannot
\* be got.
ListedIsFound ==
    \A r \in refs :
        request = Call("get", r.kind, TRUE, r.ns, r.name, "summary", 0)
        => answer \in Blameless \cup (IF r \in objects THEN {} ELSE {"NOT_FOUND"})

\* A call for what is there, and which the process knows and may show, is told that
\* the request is at fault only if the API server refused it as such: a throttled,
\* broken or unreachable one is to be asked again (IsServerFault and the tests of
\* errors.go).
FaultsNotBlamed ==
    request # NoCall /\ request.exact /\ ~IsDenied(request) /\ request.kind \in mapper \cap crds
    /\ (request.task = "get" =>
            request.output = "summary" /\ Target(request) \in objects)
    => answer \in Blameless

\* list_resources and get_resource: what is listed can be got, in the same process,
\* and a request is called wrong only if it is, or if the API server refused it with a
\* 4xx other than a 429.
AccessHonest == AccessTypeOK /\ ListedIsFound /\ FaultsNotBlamed
=============================================================================
