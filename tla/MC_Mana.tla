------------------------------ MODULE MC_Mana ------------------------------
(***************************************************************************)
(* Boards of three sources for Mana: basics, a dual land, a pain land, a   *)
(* two-mana artifact, a sacrificed three-mana one, a mana creature and a   *)
(* land that can be animated.                                              *)
(***************************************************************************)
EXTENDS Mana

Printed(colors, any, amount, side, land, creature) ==
  [colors |-> colors, any |-> any, amount |-> amount, side |-> side,
   land |-> land, creature |-> creature]

Plains == Printed({"W"}, FALSE, 1, 0, TRUE, FALSE)
Forest == Printed({"G"}, FALSE, 1, 0, TRUE, FALSE)
Dual == Printed({"W", "G"}, FALSE, 1, 0, TRUE, FALSE)
City == Printed({}, TRUE, 1, 20, TRUE, FALSE)
Ring == Printed({}, FALSE, 2, 0, FALSE, FALSE)
Lotus == Printed({}, TRUE, 3, 1000, FALSE, FALSE)
Bird == Printed({}, TRUE, 1, 0, FALSE, TRUE)
Factory == Printed({}, FALSE, 1, 5, TRUE, FALSE)

MCCards == 1..3
MCDecks ==
  {<<Forest, Plains, Ring>>, <<Dual, Forest, Factory>>,
   <<City, Ring, Bird>>, <<Lotus, Dual, Plains>>}

Cost(w, v, c, generic) == [W |-> w, G |-> v, C |-> c, generic |-> generic]
MCCosts == {Cost(1, 0, 0, 0), Cost(0, 0, 1, 1), Cost(1, 1, 0, 1)}
=============================================================================
