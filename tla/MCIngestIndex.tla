--------------------------- MODULE MCIngestIndex ---------------------------
(* Instances of IngestIndex for TLC. *)
EXTENDS IngestIndex, TLC

CONSTANTS p1, p2, t1, t2, i1, i2, m1

TextSymmetry == Permutations(Texts)
IngesterSymmetry == Permutations(Ingesters)
Symmetry == TextSymmetry \cup IngesterSymmetry
=============================================================================
