--------------------------- MODULE MCJobExecution ---------------------------
(* Instances of JobExecution for TLC. *)
EXTENDS JobExecution, TLC

CONSTANTS j1, j2, w1, w2

(* A job of one or two files, and a drained one of a single file. *)
OneOrTwoFiles == (j1 :> {1, 2} @@ j2 :> {1})
=============================================================================
