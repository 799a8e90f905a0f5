SPECIFICATION FairSpec
CONSTANTS
    Alice = Alice
    alice = alice
    Bob = Bob
    bob = bob
    blank = blank
    Connections = {c1, c2, c3}
    NoConn = NoConn
    NoName = NoName
    Names <- MCNames
    Keys <- MCKeys
    Lower <- MCLower
    WellFormed <- MCWellFormed
INVARIANTS TypeOK CurrentNameHeld
PROPERTIES OnlyOwnerReleases LastNameComesBack
CHECK_DEADLOCK FALSE
