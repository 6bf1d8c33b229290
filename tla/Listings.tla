------------------------------- MODULE Listings -------------------------------
(* The two listings that join what they have read: list_workloads, and         *)
(* list_pods with the owners of pods, which cluster_health uses too.           *)
EXTENDS WorkloadList, PodOwners

\* list_workloads: a budget that has stayed as it is is shown with a workload that
\* has too exactly if it selects that workload's pods, and is said to belong to
\* nothing exactly if it selects no workload that was there all along; two calls
\* between which nothing changed get the same answer.  list_pods, and cluster_health
\* in one namespace: a pod is shown with its final controller.
ListingsJoined ==
    /\ ListTypeOK /\ BudgetsExact /\ UnmatchedSelectNothing /\ PollsAgree
    /\ OwnerTypeOK /\ OwnersFinal
=============================================================================
