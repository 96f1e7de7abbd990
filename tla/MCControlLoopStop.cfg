CONSTANTS
    MoveModes <- MCExternal
    MaxCommands = 3
    MaxStates = 1
    Faults <- NoFaults
    StopsWhenStarting = TRUE
SPECIFICATION FairSpec
PROPERTY StopPreempts
CHECK_DEADLOCK FALSE
