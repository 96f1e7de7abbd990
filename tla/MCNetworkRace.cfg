CONSTANTS
    t1 = t1
    t2 = t2
    Nobody = nobody
    Thread <- MCThread
    MaxCommands = 2
    BodySize = 1
    Moves = {}
    MayFail = FALSE
SPECIFICATION Spec
INVARIANT MembersAreThreadsafe
CHECK_DEADLOCK FALSE
