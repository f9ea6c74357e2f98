\* Clients run commands of several requests, and daemons come and go.
CONSTANTS
    Clients = {c1, c2}
    CommandsOf <- MCCommands
    HomeOf <- MCOneHome
    UserOf <- MCOneUser
    Namespaced = TRUE
    MayCrash = TRUE
    LoadMayFail = TRUE
    LongQueue = TRUE
    LongRequests = {"Add"}
    MaxDaemons = 2
SPECIFICATION FairClientSpec
INVARIANTS ClientTypeOK OneDaemonPerQueue ExecutedInOrder NoIdTwice TruthfulExit
PROPERTIES FailuresHaveCauses CommandsEnd
CHECK_DEADLOCK FALSE
