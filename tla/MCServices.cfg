CONSTANTS
    t1 = t1
    t2 = t2
    Nobody = nobody
    Thread <- MCThread
    Used <- MCUsed
    MaxCalls <- MCMaxCalls
    MaxStates = 2
    Loads <- MCLoads
    NoLoad <- MCNoLoad
    MayFail = TRUE
SPECIFICATION FairSpec
INVARIANTS TypeOK OutcomeIsTheDevices StatusesUnderstood ReadsFresh NothingLeftBehind ModelSeesWholeLoad FramesCompose
PROPERTIES UsesMailbox StopEndsCommand
CHECK_DEADLOCK FALSE
