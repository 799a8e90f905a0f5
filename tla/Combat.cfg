SPECIFICATION Spec
CONSTANTS
  Ours = {1, 2}
  Theirs = {3, 4}
  OurKinds <- MCOurKinds
  TheirKinds <- MCTheirKinds
  StartLife = 4
  MaxEffects = 2
  MaxCombats = 2
INVARIANTS
  MapsAgree
PROPERTIES
  FullPowerDealt
  BlockedStaysBlocked
  RegeneratedIsOut
\* The last combat phase ends the turn, and so does the end of the game.
CHECK_DEADLOCK FALSE
