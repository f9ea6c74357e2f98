\* Liveness of the queue and of persistence.
CONSTANTS
    GpuTotals = {0}
    GpuRequests = {0}
    Priorities = {0}
    CpuLimits <- MCCpuLimits
    NoLimit = NoLimit
    SaveMayFail = FALSE
    MaxJobs = 2
    Handlers = {h1}
    Requests = {"Add", "Rerun", "SetCpuLimit", "SetPriority", "SetLabel", "PauseJob", "ResumeJob", "Kill", "PauseAllQueued", "ResumeAllPaused"}
    KillOnClose = TRUE
    MayDie = FALSE
    MaxTasks = 2
SPECIFICATION FairSpec
PROPERTIES QueueMoves ChangesReachDisk
CHECK_DEADLOCK FALSE
