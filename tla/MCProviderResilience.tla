------------------------ MODULE MCProviderResilience ------------------------
(* Instances of ProviderResilience for TLC. *)
EXTENDS ProviderResilience, TLC

CONSTANTS a, b, r1, r2

(* A chain of two providers, and the one provider that takes batches. *)
OneProvider == {<<a>>}
OneOrTwo == {<<a>>, <<a, b>>}
=============================================================================
