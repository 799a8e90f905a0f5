------------------------------ MODULE Replica ------------------------------
(***************************************************************************)
(* What a networked game promises of its two copies: the golden game of    *)
(* the server and the shadow of one client play the same script of deeds,  *)
(* and a choice enters each copy only once it was made.  The client makes  *)
(* its own choices, when its shadow stands at them and the golden game is  *)
(* asking; all others are made in the golden game.  Between choices both   *)
(* copies run on their own, and either may be ahead.                       *)
(***************************************************************************)
EXTENDS Integers

CONSTANTS Length,  \* number of deeds in a game
          Ours,    \* deeds that are a choice of the client
          Theirs   \* deeds that are a choice of its opponent

VARIABLES script,  \* what happens at each position
          golden,  \* the position of the server's game
          mirror,  \* the position of the client's game
          made     \* the positions of the client's choices so far

vars == <<script, golden, mirror, made>>

Init == golden = 0 /\ mirror = 0 /\ made = {}

\* The golden game runs on, but never past a choice the client did not make.
GoldenPlays ==
    /\ golden' \in golden + 1..Length
    /\ \A k \in golden..golden' - 1 : script[k] \in Ours => k \in made
    /\ UNCHANGED <<script, mirror, made>>

\* The client's game performs one deed, an opponent's choice after the golden game.
MirrorPlays ==
    /\ mirror < Length
    /\ mirror' = mirror + 1
    /\ script[mirror] \in Theirs => mirror < golden
    /\ script[mirror] \in Ours => mirror \in made'
    /\ \/ made' = made
       \/ /\ script[mirror] \in Ours /\ golden = mirror
          /\ made' = made \union {mirror}
    /\ UNCHANGED <<script, golden>>

\* The client makes a choice and performs it later.
Make ==
    /\ mirror < Length /\ script[mirror] \in Ours /\ golden = mirror
    /\ made' = made \union {mirror}
    /\ UNCHANGED <<script, golden, mirror>>

Next == GoldenPlays \/ MirrorPlays \/ Make

Spec == Init /\ [][Next]_vars
=============================================================================
