\* A kill that arrives while the run is being set up.
CONSTANTS
    GpuTotals = {1}
    GpuRequests = {1}
    Priorities = {0}
    CpuLimits <- MCNoCpuLimit
    NoLimit = NoLimit
    SaveMayFail = FALSE
    MaxJobs = 2
    Handlers = {h1}
    Requests = {"Add", "Kill"}
    KillOnClose = TRUE
    MayDie = FALSE
    MaxTasks = 2
SPECIFICATION DaemonSpec
INVARIANT AskedRunsAreSignalled
CHECK_DEADLOCK FALSE
