\* A kill of everything that follows a restart.
CONSTANTS
    GpuTotals = {1}
    GpuRequests = {1}
    Priorities = {0}
    CpuLimits <- MCNoCpuLimit
    NoLimit = NoLimit
    SaveMayFail = FALSE
    MaxJobs = 2
    Handlers = {h1}
    Requests = {"Add", "Restart", "KillAll"}
    KillOnClose = TRUE
    MayDie = FALSE
    MaxTasks = 2
SPECIFICATION DaemonSpec
PROPERTY KillIsFinal
CHECK_DEADLOCK FALSE
