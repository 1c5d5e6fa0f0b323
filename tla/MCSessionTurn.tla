--------------------------- MODULE MCSessionTurn ----------------------------
(* SessionTurn on small instances; the turns are interchangeable. *)
EXTENDS SessionTurn, TLC

TurnSymmetry == Permutations(Turn)
=============================================================================
