---------------------------- MODULE MCBatchCache ----------------------------
(* Three contents of the workspace, of which git status lists the same names;  *)
(* two of them, or all, give the pack the same runs.                         *)
EXTENDS BatchCache, TLC

CONSTANTS p1, p2, r1, r2

DigestOf == [c \in {1, 2, 3} |-> IF c = 3 THEN "b" ELSE "a"]
SameDigest == [c \in {1, 2, 3} |-> "a"]
TouchedIn == [c \in {1, 2, 3} |-> "s"]
Symmetry == Permutations(Procs) \cup Permutations(Runs)
=============================================================================
