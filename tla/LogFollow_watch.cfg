CONSTANTS
    MayRestart = TRUE
    MayDie = TRUE
    KillOnClose = FALSE
    MaxRuns = 2
    MaxLog = 2
SPECIFICATION FairSpec
INVARIANTS LogFollowTypeOK EachPlaceOnce ShownIsTheLog CompleteUnlessDisturbed
PROPERTY FollowerLeaves
CHECK_DEADLOCK FALSE
