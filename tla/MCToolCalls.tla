---------------------------- MODULE MCToolCalls ----------------------------
(* Instances of ToolCalls for TLC. *)
EXTENDS ToolCalls, TLC

CONSTANTS c1, c2, s1, s2, q1, q2

(* A change of the index gives every query a second result. *)
OneMore == [q \in Queries |-> [v \in 0..MaxVersion |-> v + 1]]

Symmetry == Permutations(Calls) \cup Permutations(Subjects) \cup Permutations(Queries)
=============================================================================
