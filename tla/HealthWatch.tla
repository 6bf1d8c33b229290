------------------------------ MODULE HealthWatch ------------------------------
(***************************************************************************)
(* cluster_health with a history variable: what has been so since the call *)
(* began.  A report is made of lists of different moments, but what was so *)
(* all the time was so at each of them.                                    *)
(***************************************************************************)
EXTENDS ClusterHealth

VARIABLE lasting

watchVars == <<vars, lasting>>

\* What is wrong, by the list that shows it.
Wrong(read) ==
    \/ read = "pods" /\ PodStuck
    \/ read = "workloads" /\ ready = 0
    \/ read = "nodes" /\ NodeLost

Holding == {read \in Reads : Wrong(read)} \cup (IF Well THEN {"well"} ELSE {})

WatchInit == Init /\ lasting = Holding

WatchNext ==
    /\ Next
    /\ lasting' = (IF pc' = "pods" THEN Holding' ELSE lasting \cap Holding')

WatchSpec == WatchInit /\ [][WatchNext]_watchVars

WatchTypeOK == TypeOK /\ lasting \subseteq Reads \cup {"well"}

-----------------------------------------------------------------------------
\* What was wrong from the first list to the last is in the report, and a cluster
\* that was well all the time is called healthy, also one that was in trouble and has
\* recovered.
WholeCallIsTold ==
    [][pc = "events" /\ Read =>
           /\ lasting \cap Reads \subseteq verdict'.names
           /\ verdict'.healthy <=> verdict'.names = {}
           /\ "well" \in lasting => verdict'.healthy]_watchVars

\* cluster_health: a pod that list_pods shows to wait for a failure is flagged at that
\* moment however young it is, and a report is right about what did not change while
\* its lists were read.
ReportsHonest == [](WatchTypeOK /\ FailuresFlagged) /\ WholeCallIsTold
=============================================================================
