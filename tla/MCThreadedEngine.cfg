SPECIFICATION Spec
CONSTANTS
    user = user
    ctl = ctl
    r1 = r1
    r2 = r2
    NoRequest = NoRequest
    Clients <- MCClients
    Requests <- MCRequests
    MayCall <- MCMayCall
    MaxCalls <- MCMaxCalls
    MaxDelta = 1
    MaxSpurious = 0
    CreateMayFail = TRUE
SYMMETRY RequestSymmetry
INVARIANTS TypeOK NoLostBackgroundWakeup NoLostStreamWakeup UsageOnceAndLast RequestAccounted
PROPERTIES CallReturnsDone ImplementsService
CHECK_DEADLOCK FALSE
