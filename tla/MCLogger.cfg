CONSTANTS
    c1 = c1
    c2 = c2
    Unset = unset
    Command <- MCCommand
    Error <- MCError
    log_size_ = 3
SPECIFICATION Spec
INVARIANT FilledFromZero
PROPERTY ImplementsBoundedLog
