CONSTANTS
    r1 = r1
    r2 = r2
    Robots <- MCRobots
    MoveModes <- MCMoveModes
    MaxCommands = 3
    MaxStates = 1
    Faults <- NoFaults
SPECIFICATION FairSpec
INVARIANTS MotionHoldsLock ReadyForNextMotion TerminatesOnlyAfterEnd
PROPERTIES OneOperationAtATime ImplementsMotionContract CallsEnd
CHECK_DEADLOCK FALSE
