SPECIFICATION Spec
CONSTANTS
    Frames = {f1, f2}
    Bufs = {b1, b2, b3, b4}
    Stas = {s1}
    Acs = {be}
    Prio <- PrioOne
    Leavers = {s1}
    CanStop = TRUE
    Forwarders = {fw}
    Tasklet = Tasklet
    StopAt = 0
    MaxAgg = 2
    None = None
    be = be
    vo = vo
    s1 = s1
    s2 = s2
SYMMETRY Symm
INVARIANTS  ListsAgree FrameConserved 
PROPERTIES WakersKept
CHECK_DEADLOCK FALSE
