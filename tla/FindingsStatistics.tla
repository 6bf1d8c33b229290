-------------------------- MODULE FindingsStatistics --------------------------
(***************************************************************************)
(* securityhub_get_findings_statistics counts findings per value of an     *)
(* attribute.  For an attribute with few values (here the workflow status) *)
(* it asks once per value and counts the first page; for the others it     *)
(* pages through all findings within a budget, and a call that runs out of *)
(* it returns what it counted and the token to continue with.              *)
(*                                                                         *)
(* Findings are numbered in the order in which the service pages through   *)
(* them; some are of other regions, which the hub aggregates.  While a     *)
(* call asks for one status after the other, people work on the findings.  *)
(***************************************************************************)
EXTENDS Naturals, Sequences, FiniteSets

CONSTANTS
    NumFindings,
    Types,          \* values of the open-ended attribute
    Statuses,       \* workflowStatusBuckets, in a sequence
    PageSize,       \* pageSize
    MaxCalls,       \* bound: calls of a chain
    MaxChanges      \* bound: findings whose status is changed

Findings == 1..NumFindings
Buckets == {Statuses[i] : i \in 1..Len(Statuses)}
Values == Types \cup Buckets

ASSUME StatisticsAssumption ==
    /\ NumFindings \in Nat /\ PageSize \in Nat \ {0}
    /\ Statuses \in Seq(Buckets) \ {<<>>}
    /\ MaxCalls \in Nat \ {0} /\ MaxChanges \in Nat

VARIABLES
    foreign,    \* findings of other regions
    type,       \* the type of each finding
    status,     \* its workflow status
    changed,    \* findings whose status has changed
    mode,       \* group_by: "status" or "type"
    token,      \* how far the service has paged
    given,      \* the token this call was given
    asking,     \* the next status to ask for
    calls,      \* calls of the chain so far
    statsPc,
    counted,    \* the findings this call has counted, by value
    capped,     \* values the count of which is capped
    total       \* what the caller has added up over the chain, by value

world == <<foreign, type, mode>>
statsVars == <<world, status, changed, token, given, asking, calls, statsPc, counted,
               capped, total>>

Nothing == [v \in Values |-> {}]

StatsTypeOK ==
    /\ foreign \subseteq Findings
    /\ type \in [Findings -> Types]
    /\ status \in [Findings -> Buckets]
    /\ changed \subseteq Findings
    /\ mode \in {"status", "type"}
    /\ {token, given} \subseteq 0..NumFindings
    /\ asking \in 1..Len(Statuses) + 1
    /\ calls \in 1..MaxCalls
    /\ statsPc \in {"ask", "partial", "complete", "error"}
    /\ counted \in [Values -> SUBSET Findings]
    /\ capped \subseteq Values
    /\ total \in [Values -> Nat]

\* A type matters only to a scan, a status only to the buckets.
StatsInit ==
    /\ foreign \in SUBSET Findings
    /\ \/ /\ mode = "type"
          /\ type \in [Findings -> Types]
          /\ status = [f \in Findings |-> Statuses[1]]
       \/ /\ mode = "status"
          /\ \E t \in Types : type = [f \in Findings |-> t]
          /\ status \in [Findings -> Buckets]
    /\ changed = {}
    /\ token = 0 /\ given = 0
    /\ asking = 1
    /\ calls = 1
    /\ statsPc = "ask"
    /\ counted = Nothing
    /\ capped = {}
    /\ total = [v \in Values |-> 0]

-----------------------------------------------------------------------------
\* WithResolvedRegion and BuildFilters: the hub would answer for all regions.
HasRegion(f) == f \notin foreign

\* The filter of a bucket: its value, in the place of whatever statuses the
\* caller's own filter names.
InBucket(f) == HasRegion(f) /\ status[f] = Statuses[asking]

\* Where a finding comes in a list of those that match; the page of it at a token;
\* whether more follow.
Rank(f, S) == Cardinality({g \in S : g <= f})
Page(S, from) == {f \in S : Rank(f, S) \in from + 1..from + PageSize}
More(S, from) == from + PageSize < Cardinality(S)

\* The caller gets an answer with the counts and adds it up.
Answer(p, counts) ==
    /\ statsPc' = p
    /\ total' = [v \in Values |-> total[v] + Cardinality(counts[v])]

\* A count is capped when the answer has a token; one of nothing is left out.
Capped(found) == More(found, 0)

\* One request for each status, its first page only.
CountBucket ==
    /\ mode = "status"
    /\ statsPc = "ask"
    /\ LET found == {f \in Findings : InBucket(f)}
           v == Statuses[asking]
           counts == [counted EXCEPT ![v] = Page(found, 0)]
       IN  /\ counted' = counts
           /\ capped' = IF Capped(found) THEN capped \cup {v} ELSE capped
           /\ IF asking = Len(Statuses) THEN Answer("complete", counts)
              ELSE UNCHANGED <<statsPc, total>>
    /\ asking' = asking + 1
    /\ UNCHANGED <<world, status, changed, token, given, calls>>

\* One page of a scan.
Scanned == {f \in Findings : HasRegion(f)}
CountPage ==
    /\ mode = "type"
    /\ statsPc = "ask"
    /\ LET page == Page(Scanned, token)
           counts == [v \in Values |-> counted[v] \cup
                         {f \in page : v \in Types /\ type[f] = v}]
       IN  /\ counted' = counts
           /\ IF More(Scanned, token)
              THEN token' = token + PageSize /\ UNCHANGED <<statsPc, total>>
              ELSE Answer("complete", counts) /\ UNCHANGED token
    /\ UNCHANGED <<world, status, changed, given, asking, calls, capped>>

\* Mutant of NextToken: the page under way is taken for read.
NextTokenAfter == IF More(Scanned, token) THEN token + PageSize ELSE token

\* The token of a partial answer: of the page that was not fetched.
NextToken == token

\* The budget runs out before a page or during one.
Truncate ==
    /\ mode = "type"
    /\ statsPc = "ask"
    /\ token' = NextToken
    /\ Answer("partial", counted)
    /\ UNCHANGED <<world, status, changed, given, asking, calls, counted, capped>>

\* A request fails or the caller's own context ends: an error, and no counts.
Fail ==
    /\ statsPc = "ask"
    /\ statsPc' = "error"
    /\ UNCHANGED <<world, status, changed, token, given, asking, calls, counted, capped,
                   total>>

\* The caller calls again: with the token of a partial answer, after an error
\* with the one it gave before.
CallAgain ==
    /\ statsPc \in {"partial", "error"}
    /\ calls < MaxCalls
    /\ calls' = calls + 1
    /\ token' = IF statsPc = "partial" THEN token ELSE given
    /\ given' = token'
    /\ asking' = 1
    /\ statsPc' = "ask"
    /\ counted' = Nothing
    /\ capped' = {}
    /\ UNCHANGED <<world, status, changed, total>>

\* Somebody changes the status of a finding.
ChangeStatus ==
    /\ mode = "status"
    /\ statsPc = "ask"
    /\ Cardinality(changed) < MaxChanges
    /\ \E f \in Findings \ changed, s \in Buckets :
           /\ s # status[f]
           /\ status' = [status EXCEPT ![f] = s]
           /\ changed' = changed \cup {f}
    /\ UNCHANGED <<world, token, given, asking, calls, statsPc, counted, capped, total>>

StatsEnded == statsPc # "ask" /\ UNCHANGED statsVars

StatsNext == CountBucket \/ CountPage \/ Truncate \/ Fail \/ CallAgain \/ ChangeStatus \/ StatsEnded
StatsSpec == StatsInit /\ [][StatsNext]_statsVars

-----------------------------------------------------------------------------
\* "sum Total/merge Counts by key across every call": over any chain of calls,
\* cut by budgets and errors anywhere, the sums are those of the findings up to
\* the token, and in the end of all, each counted once.
ChainExact ==
    mode = "type" /\ statsPc \in {"partial", "complete"} =>
        LET here == Findings \ foreign
            upto == IF statsPc = "complete" THEN Cardinality(here) ELSE token
        IN  \A v \in Types :
                total[v] = Cardinality({f \in here : type[f] = v /\ Rank(f, here) <= upto})

\* A finding of this region that nobody works on meanwhile is counted for its
\* status and no other, or that count is marked as capped; one of another region
\* is not counted.
BucketsHonest ==
    mode = "status" /\ statsPc = "complete" =>
        \A f \in Findings \ changed :
            LET counting == {v \in Buckets : f \in counted[v]}
            IN  IF f \in foreign THEN counting = {}
                ELSE counting = {status[f]} \/ (counting = {} /\ status[f] \in capped)

\* securityhub_get_findings_statistics: over any chain of calls, the sums of what
\* they count are those of the findings up to the token, each counted once; and a
\* finding nobody works on meanwhile is counted for its own status only, or that
\* count is marked as capped.
CountsExact == StatsTypeOK /\ ChainExact /\ BucketsHonest
=============================================================================
