\* A restart whose signal is sent after the run it was meant for.
CONSTANTS
    GpuTotals = {1}
    GpuRequests = {1}
    Priorities = {0}
    CpuLimits <- MCNoCpuLimit
    NoLimit = NoLimit
    SaveMayFail = FALSE
    MaxJobs = 2
    Handlers = {h1}
    Requests = {"Add", "Restart"}
    KillOnClose = TRUE
    MayDie = FALSE
    MaxTasks = 2
SPECIFICATION DaemonSpec
INVARIANT OnlyAskedRunsAreSignalled
CHECK_DEADLOCK FALSE
