------------------------- MODULE MCProviderFailover -------------------------
(* Two keys and two concurrent calls of one ResilientProvider. *)
EXTENDS ProviderFailover, TLC

Symmetry == Permutations(Call)
=============================================================================
