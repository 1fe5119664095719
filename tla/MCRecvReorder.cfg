SPECIFICATION FairSpec
CONSTANTS
    Mod = 16
    WSize = 2
    TxWin = 2
    First = 14
    MaxN = 18
    MaxGap = 1
    MaxBa = 1
PROPERTIES
    EventuallyIndicated
INVARIANTS
    TypeOK
    InOrder
    TimerForPending
    PendingBounded
    FreedQuiet
CHECK_DEADLOCK FALSE
