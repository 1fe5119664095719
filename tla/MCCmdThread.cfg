SPECIFICATION Spec
CONSTANTS
    c1 = c1
    c2 = c2
    c3 = c3
    NoCmd = NoCmd
    Cmds = {c1, c2}
    SyncCmds = {c1}
    NoIoCmds = {c2}
    ChanPlanCmds = {}
    NoHdlCmds = {c2}
    Signalled = {"open"}
    BigCmds = {}
    MaxOpen = 1
INVARIANTS
    TypeOK
    SctxFrameLive
    WaiterObjLive
    NoLostWakeup
    StoppedClean
 
CHECK_DEADLOCK FALSE
