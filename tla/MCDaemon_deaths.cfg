\* Kills and restarts of the runs of one job, two requests in flight; the daemon dies anywhere
\* and any save can fail.
CONSTANTS
    GpuTotals = {1}
    GpuRequests = {1}
    Priorities = {0}
    CpuLimits <- MCNoCpuLimit
    NoLimit = NoLimit
    SaveMayFail = TRUE
    MaxJobs = 1
    Handlers = {h1, h2}
    Requests = {"Add", "Kill", "Restart", "Clear"}
    KillOnClose = TRUE
    MayDie = TRUE
    MaxTasks = 2
SPECIFICATION FairSpec
INVARIANT AcceptedSurvives
PROPERTY StopsTakeEffect
CHECK_DEADLOCK FALSE
