CONSTANTS
    MayRestart = TRUE
    MayDie = FALSE
    KillOnClose = TRUE
    MaxRuns = 2
    MaxLog = 3
SPECIFICATION Spec
INVARIANT CompleteAtEnd
CHECK_DEADLOCK FALSE
