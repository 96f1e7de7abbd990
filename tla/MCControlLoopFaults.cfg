CONSTANTS
    MoveModes <- MCMoveModes
    MaxCommands = 3
    MaxStates = 1
    Faults <- AllFaults
    StopsWhenStarting = FALSE
SPECIFICATION FairSpec
INVARIANTS TypeOK ReturnsOnSuccess ThrowsOnFailure
PROPERTY EndsWithMotion
CHECK_DEADLOCK FALSE
