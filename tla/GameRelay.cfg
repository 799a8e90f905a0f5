SPECIFICATION Spec
CONSTANTS
    Players = {p1, p2}
    Nobody = Nobody
    None = None
    Deeds = {"reveal", "reorder", "dig"}
    Searching = {TRUE, FALSE}
    Replies = {"valid", "find"}
    MaxLog = 4
    MaxStrays = 0
    MaxLeavers = 0
INVARIANTS
    FactsBeforeQuestion OneQuestionAtATime
SYMMETRY Symmetry
