SPECIFICATION Spec
CONSTANTS
    cmd = cmd
    user = user
    rx = rx
    Bufs = {b1, b2}
    Ctxs = {cmd, user, rx}
    Kinds <- MCKinds
    Tasklet = Tasklet
    CanStop = FALSE
    CanLeave = TRUE
    Calls = {n1, n2}
    NoCall = NoCall
    MaxNaps = 1
    None = None
SYMMETRY Perms
INVARIANTS ExtConserved
CHECK_DEADLOCK FALSE
