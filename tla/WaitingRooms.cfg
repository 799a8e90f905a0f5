SPECIFICATION FairSpec
CONSTANTS
    Clients = {a, b, c}
    Keys = {lobbygame}
    DefaultKey = lobbygame
    NoClient = NoClient
    MaxGames = 2
INVARIANTS
    TypeOK ListingsDistinct NeverListedAndActive
    AnnouncedHostKeepsNoGhost GoIsWithdrawn
PROPERTIES
    HandOverMakesAGame GoStartsTheGame
CHECK_DEADLOCK FALSE
