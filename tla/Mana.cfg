SPECIFICATION Spec
CONSTANTS
  Cards <- MCCards
  Decks <- MCDecks
  Costs <- MCCosts
  MaxOps = 4
  EarthbentDies = FALSE
INVARIANT CacheAgrees
INVARIANT OfferedCastsComplete
INVARIANT VerdictsAreRight
CHECK_DEADLOCK FALSE
