SPECIFICATION Spec
CONSTANTS
    NChs = 2
    LunsPerCh = 1
    PgsPerBlk = 1
    TtLines = 5
    SecsPerPg = 2
    NumLpns = 4
    MaxNlb = 4
    GcThresLines = 3
    GcThresLinesHigh = 1
    VictimShare = 8
    UNMAPPED_PPA = UNMAPPED_PPA
    INVALID_LPN = INVALID_LPN
PROPERTIES
    ForegroundGcReachesLowMark
