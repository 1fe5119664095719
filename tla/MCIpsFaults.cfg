SPECIFICATION Spec
CONSTANTS
    Callers <- AllKinds
    Reason <- MixedReasons
    Direct <- OneDirect
    Suspending = Suspending
    CanSuspend = TRUE
    CanFail = TRUE
    TimeOuts = TRUE
    ScanTimer = TRUE
    Cmd = Cmd
    None = None
    w1 = w1
    w2 = w2
    w3 = w3
    scan = scan
    ioctl = ioctl
INVARIANT HalAlone
INVARIANT Retryable
