CONSTANTS
    MaxStates = 4
    MaxWaiting = 3
SPECIFICATION Spec
INVARIANTS TypeOK AcceptsNewest LostPacketsDoNotWrap
PROPERTY ImplementsLatestState
CHECK_DEADLOCK FALSE
