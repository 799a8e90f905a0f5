CONSTANTS
    First = {1, 2, 3, 5}
    Second = {4, 6}
    Lands = {1}
    Cyclers = {1, 2}
    Bolts = {2}
    Counters = {4}
    Drains = {4}
    Regrowths = {}
    Walks = {5}
    Assaults = {3}
    Loots = {6}
    Creatures = {1, 2}
    FirstStrikers = {2}
    Sanctuaries = {2}
    Pained = {1}
    StartLife = 2
    LibrarySize = 2
    MaxHand = 3
    MaxTurns = 2
    MaxActions = 4
SPECIFICATION Spec
INVARIANTS CombatsMatchGrants
PROPERTIES StepsEndQuiet AnsweredBeforeResolving GameEnds
CHECK_DEADLOCK FALSE
