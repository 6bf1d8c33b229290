------------------------------- MODULE Accounts -------------------------------
(* The three tasks that add up what pods ask for and use: cluster_info and     *)
(* resource_pressure, and pod_resource_usage.                                  *)
EXTENDS NodeAccounts, PodUsage

\* If cluster_info shows a node as more than full, a pod on it was resized in place or
\* the node came or went between the reads; cluster_info agrees with resource_pressure
\* on nodes with no bound pod pending; the namespaces and pods that resource_pressure
\* and pod_resource_usage show are the highest, whatever the order of a map; and of the
\* pods above the threshold all that are used at 80 % are counted, although the list
\* is cut off.
AccountsHonest ==
    /\ AccountTypeOK /\ OverfullExplained /\ TasksAgree /\ TopNamespacesShown
    /\ UsageTypeOK /\ RankHonest
=============================================================================
