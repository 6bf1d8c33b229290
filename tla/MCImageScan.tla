----------------------------- MODULE MCImageScan -----------------------------
(* Images, platforms and findings for TLC. *)
EXTENDS ImageScan, TLC

CONSTANTS i1, i2, i3, f1, f2, f3

\* i1 and i2 share digest 2 from different repositories; i2 has a third one too.
MCRepoOf == i1 :> 1 @@ i2 :> 2 @@ i3 :> 2
MCPlatformsOf == i1 :> {1, 2} @@ i2 :> {2} @@ i3 :> {3}

\* The last finding is on a platform image of another repository.
MCFoundOn == f1 :> <<1, 2>> @@ f2 :> <<2, 2>> @@ f3 :> <<1, 3>>

Alike == Permutations(Workers)
=============================================================================
