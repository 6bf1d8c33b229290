----------------------------- MODULE MCSatellite -----------------------------
(* Satellite for TLC: interchangeable requests. *)
EXTENDS Satellite, TLC

AllGroups == Groups

Reqs == Permutations(Requests)
=============================================================================
