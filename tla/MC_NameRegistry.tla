--------------------------- MODULE MC_NameRegistry ---------------------------
(* Three connections, two spellings of one name, another name, a blank one.  *)
EXTENDS NameRegistry

CONSTANTS Alice, alice, Bob, bob, blank

MCNames == {Alice, alice, Bob, blank}
MCKeys == {alice, bob, blank}
MCLower == [n \in MCNames |-> CASE n = Alice -> alice
                                [] n = alice -> alice
                                [] n = Bob -> bob
                                [] n = blank -> blank]
MCWellFormed == MCNames \ {blank}
=============================================================================
