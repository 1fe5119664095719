SPECIFICATION LiveSpec
CONSTANTS
    Stas = {1, 2}
    AcOrder <- McAcOrder
    Be = "be"
    Uapsd <- McPure
    LenMod = 8
    AgeAt = 1
    MaxFrames = 2
    MaxBmc = 0
    MaxMgmt = 1
    MaxNaps = 2
    MaxAlive = 0
    MaxLeaves = 0
    MaxBcnFail = 0
INVARIANTS
    AwakeHoldsNothing   
    ServicePeriodEnds
 
CHECK_DEADLOCK FALSE
