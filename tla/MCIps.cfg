SPECIFICATION FairSpec
CONSTANTS
    Callers <- AllCallers
    Reason <- OwnReasons
    Direct <- NoDirect
    Suspending = Suspending
    CanSuspend = TRUE
    CanFail = TRUE
    TimeOuts = FALSE
    ScanTimer = FALSE
    Cmd = Cmd
    None = None
    w1 = w1
    w2 = w2
    w3 = w3
    scan = scan
    ioctl = ioctl
INVARIANT AccessUp
PROPERTIES CallReturns SuspendReturns IdleSleeps
