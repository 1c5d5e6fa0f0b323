--------------------------- MODULE MCRunRegistry ----------------------------
(* Small instances of RunRegistry and the mutants of its operations. *)
EXTENDS RunRegistry, TLC

Symmetry == Permutations(Chat) \cup Permutations(Session)
=============================================================================
