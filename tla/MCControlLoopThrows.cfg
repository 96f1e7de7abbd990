CONSTANTS
    MoveModes <- MCExternal
    MaxCommands = 3
    MaxStates = 1
    Faults <- NoFaults
    StopsWhenStarting = FALSE
SPECIFICATION Spec
INVARIANT ThrowsAsDocumented
CHECK_DEADLOCK FALSE
