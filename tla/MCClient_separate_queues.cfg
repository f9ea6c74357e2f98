\* Two clients of one user with data directories of their own.
CONSTANTS
    Clients = {c1, c2}
    CommandsOf <- MCOneCommand
    HomeOf <- MCTwoHomes
    UserOf <- MCOneUser
    Namespaced = TRUE
    MayCrash = FALSE
    LoadMayFail = FALSE
    LongQueue = FALSE
    LongRequests = {}
    MaxDaemons = 2
SPECIFICATION ClientSpec
INVARIANT OwnQueue
CHECK_DEADLOCK FALSE
