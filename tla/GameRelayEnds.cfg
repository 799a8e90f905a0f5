SPECIFICATION FairSpec
CONSTANTS
    Players = {p1, p2}
    Nobody = Nobody
    None = None
    Deeds = {"reorder", "move"}
    Searching = {FALSE}
    Replies = {"valid", "outOfRange", "diverged"}
    MaxLog = 2
    MaxStrays = 1
    MaxLeavers = 2
INVARIANTS
    AnswersFitQuestions EndReachesClients
PROPERTIES
    EveryTaskEnds
