\* Kills and restarts of two jobs that want the same GPU, two requests in flight; the daemon
\* dies anywhere, saves succeed, its jobs may survive it.
CONSTANTS
    GpuTotals = {1}
    GpuRequests = {1}
    Priorities = {0}
    CpuLimits <- MCNoCpuLimit
    NoLimit = NoLimit
    SaveMayFail = FALSE
    MaxJobs = 2
    Handlers = {h1, h2}
    Requests = {"Add", "Kill", "KillAll", "Restart", "Remove"}
    KillOnClose = FALSE
    MayDie = TRUE
    MaxTasks = 2
SPECIFICATION DaemonSpec
INVARIANTS IntentOnlyWhileRunning RunPerRunningJob Killable ArmedAsksSignal DaemonTypeOK SignalsHaveRequests NoSilentRerun NoneStranded NothingLeftUnsaved
PROPERTIES RestartRequeues Spec
SYMMETRY HandlerSymmetry
CHECK_DEADLOCK FALSE
