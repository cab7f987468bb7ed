SPECIFICATION FairSpec
CONSTANTS
    user = user
    ctl = ctl
    r1 = r1
    r2 = r2
    NoRequest = NoRequest
    Clients <- MCClients
    Requests <- OneRequest
    MayCall <- EveryMethod
    MaxCalls <- OneAndTwoCalls
    MaxDelta = 1
    MaxSpurious = 1
    CreateMayFail = TRUE
PROPERTIES RequestAnswered BlockingCallReturns BackgroundLoopExits
CHECK_DEADLOCK FALSE
