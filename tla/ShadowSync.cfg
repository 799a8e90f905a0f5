\* A native client, all deeds but digs, a connection that may break.
SPECIFICATION FairSpec
CONSTANTS
    MaxLog = 4
    Deeds = {"draw", "cast", "shuffle", "ours", "search", "theirs", "find", "miss"}
    MayBreak = TRUE
INVARIANTS FollowsInOrder NoDeltaIsLost
PROPERTIES QuestionsAreAnswered ImplementsReplica
CHECK_DEADLOCK FALSE
