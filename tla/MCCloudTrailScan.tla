--------------------------- MODULE MCCloudTrailScan ---------------------------
(* Histories of two pages, and who spells the region how, for TLC.         *)
EXTENDS CloudTrailScan, TLC

CONSTANTS c1, c2

H(e1, e2, m1, m2) ==
    [events |-> (0 :> 0 @@ 1 :> e1 @@ 2 :> e2),
     matches |-> (0 :> 0 @@ 1 :> m1 @@ 2 :> m2)]

\* Two matches on the first page and more to scan; an empty first page.
Mixed == {H(2, 3, 2, 2), H(0, 2, 0, 1)}
Single == {H(2, 3, 2, 2)}

OneCall == c1 :> "us-east-1"
SameKey == c1 :> "us-east-1" @@ c2 :> "us-east-1"
=============================================================================
