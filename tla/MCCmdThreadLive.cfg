SPECIFICATION FairSpec
CONSTANTS
    c1 = c1
    c2 = c2
    c3 = c3
    NoCmd = NoCmd
    Cmds = {c1}
    SyncCmds = {c1}
    NoIoCmds = {}
    ChanPlanCmds = {}
    NoHdlCmds = {}
    Signalled = {c1, "thread"}
    BigCmds = {}
    MaxOpen = 2
PROPERTIES
    StopTerminates
    CallReturns
    QueuedServed
CHECK_DEADLOCK FALSE
