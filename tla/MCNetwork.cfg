CONSTANTS
    t1 = t1
    t2 = t2
    Nobody = nobody
    Thread <- MCThread
    MaxCommands = 3
    BodySize = 1
    Moves = {0, 2}
    MayFail = TRUE
SPECIFICATION FairSpec
INVARIANTS TypeOK WaitedForIsKept
PROPERTIES ImplementsMailbox EveryRequestEnds
CHECK_DEADLOCK FALSE
