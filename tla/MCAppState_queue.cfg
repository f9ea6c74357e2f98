\* Three jobs, every save succeeding, two GPUs.
CONSTANTS
    GpuTotals = {2}
    GpuRequests = {0, 1, 2}
    Priorities <- MCPriorities
    CpuLimits <- MCCpuLimits
    NoLimit = NoLimit
    MaxJobs = 3
SPECIFICATION SavedSpec
INVARIANTS TypeOK GpusExclusive GpusAsRequested IntentOnlyWhileRunning StampsMatchState
PROPERTIES StartsHighestPriority CpuLimitHolds ListingForetellsStarts EachJobLivesOnce
CHECK_DEADLOCK FALSE
