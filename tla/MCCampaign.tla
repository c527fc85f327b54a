----------------------------- MODULE MCCampaign -----------------------------
(* Two runs on one collection; either may be the retry of the other. *)
EXTENDS Campaign, TLC

CONSTANTS m1, m2
TwoMissions == {m1, m2}
OneOfTwo == <<m1>>
Symmetry == Permutations(Runs) \cup Permutations(Outputs)
=============================================================================
