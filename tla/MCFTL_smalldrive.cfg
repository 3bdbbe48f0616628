SPECIFICATION Spec
CONSTANTS
    NChs = 1
    LunsPerCh = 2
    PgsPerBlk = 1
    TtLines = 4
    SecsPerPg = 1
    NumLpns = 6
    MaxNlb = 1
    GcThresLines = 1
    GcThresLinesHigh = 0
    VictimShare = 8
    UNMAPPED_PPA = UNMAPPED_PPA
    INVALID_LPN = INVALID_LPN
INVARIANTS
    NeverAborts
CHECK_DEADLOCK FALSE
