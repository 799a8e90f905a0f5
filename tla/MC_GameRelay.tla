---------------------------- MODULE MC_GameRelay ----------------------------
(* The players of a game are interchangeable.                              *)
EXTENDS GameRelay

Symmetry == Permutations(Players)
=============================================================================
