SPECIFICATION Spec
CONSTANTS
  Cards <- MCCards
  Decks <- MCDecks
  Costs <- MCCosts
  MaxOps = 3
  EarthbentDies = TRUE
INVARIANT CacheAgrees
CHECK_DEADLOCK FALSE
