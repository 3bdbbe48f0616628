SPECIFICATION FairSpec
CONSTANTS
    NChs = 2
    LunsPerCh = 1
    PgsPerBlk = 1
    TtLines = 4
    SecsPerPg = 2
    NumLpns = 3
    MaxNlb = 5
    GcThresLines = 2
    GcThresLinesHigh = 1
    VictimShare = 1
    UNMAPPED_PPA = UNMAPPED_PPA
    INVALID_LPN = INVALID_LPN
INVARIANTS
    TypeOK
    MappingCoherent
    LinesPartitioned
    NeverAborts
PROPERTIES
    RequestsServed
