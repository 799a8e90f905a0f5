\* The program's use: one game thread takes, the reader puts and signals exit.
SPECIFICATION FairSpec
CONSTANTS
    Consumers = {game}
    MaxPuts = 4
INVARIANTS TypeOK
PROPERTIES BlockedConsumerIsServed ImplementsExitableQueue
CHECK_DEADLOCK FALSE
