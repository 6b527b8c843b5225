----------------------------- MODULE MCJobQueue -----------------------------
(* Instances of JobQueue for TLC. *)
EXTENDS JobQueue, TLC

CONSTANTS j1, j2, j3, e1, e2, o1

JobSymmetry == Permutations(Jobs)
=============================================================================
