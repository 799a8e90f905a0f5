SPECIFICATION Spec
CONSTANTS
    Cards = {1, 2}
    Tokens = {3}
    Equipment = {1}
    EntersTapped = {1}
    TapsEntering = {1}
    PaysLife = {2}
    InHand = {2}
    MaxOps = 3
    MaxTurn = 2
    StartLife = 2
INVARIANTS UndoIsExact RewindIsExact
CHECK_DEADLOCK FALSE
