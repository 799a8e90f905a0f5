----------------------------- MODULE MC_Combat ------------------------------
(* Small combats: two attackers and two blockers, each of one of two kinds.  *)
EXTENDS Combat

Kind(p, t, ks) == [power |-> p, toughness |-> t, keywords |-> ks]

MCOurKinds == {Kind(3, 2, {"DoubleStrike", "Lifelink", "Vigilance"}),
               Kind(3, 1, {"Trample", "MustAttack", "Menace", "Flying", "Trigger"})}
MCTheirKinds == {Kind(1, 3, {"Deathtouch", "Indestructible"}),
                 Kind(2, 2, {"Flying", "FirstStrike"})}
=============================================================================
