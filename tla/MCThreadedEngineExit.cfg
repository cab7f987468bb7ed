SPECIFICATION FairSpec
CONSTANTS
    user = user
    ctl = ctl
    r1 = r1
    r2 = r2
    NoRequest = NoRequest
    Clients <- MCClients
    Requests <- OneRequest
    MayCall <- AddAndExit
    MaxCalls <- OneAndTwoCalls
    MaxDelta = 0
    MaxSpurious = 0
    CreateMayFail = FALSE
PROPERTIES StreamLoopExits
CHECK_DEADLOCK FALSE
