SPECIFICATION Spec
CONSTANTS
    Stas = {1}
    AcOrder <- McAcOrder
    Be = "be"
    Uapsd <- McMixed
    LenMod = 8
    AgeAt = 1
    MaxFrames = 2
    MaxBmc = 2
    MaxMgmt = 0
    MaxNaps = 1
    MaxAlive = 1
    MaxLeaves = 1
    MaxBcnFail = 1
INVARIANTS GoneHoldsNothing InOrder
CHECK_DEADLOCK FALSE
