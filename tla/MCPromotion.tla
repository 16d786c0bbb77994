----------------------------- MODULE MCPromotion -----------------------------
(* Promotion with a few processes and jobs for one candidate pointer.       *)
EXTENDS Promotion, TLC
CONSTANTS p1, p2, j1, j2, j3, s1, s2, s3
Symmetry == Permutations(Process) \cup Permutations(Job) \cup Permutations(Snapshot)
=============================================================================
