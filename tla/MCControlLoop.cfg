CONSTANTS
    MoveModes <- MCExternal
    MaxCommands = 4
    MaxStates = 2
    Faults <- NoFaults
    StopsWhenStarting = FALSE
SPECIFICATION Spec
INVARIANTS RepliesAreExpected FinalNotLost
PROPERTIES ImplementsMotionContract CommandsFollowState UsesMailbox
CHECK_DEADLOCK FALSE
