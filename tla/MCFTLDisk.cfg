SPECIFICATION DiskSpec
CONSTANTS
    NChs = 2
    LunsPerCh = 1
    PgsPerBlk = 2
    TtLines = 4
    SecsPerPg = 1
    NumLpns = 2
    MaxNlb = 2
    GcThresLines = 2
    GcThresLinesHigh = 1
    VictimShare = 1
    UNMAPPED_PPA = UNMAPPED_PPA
    INVALID_LPN = INVALID_LPN
    Values = {a, b}
    Blank = Blank
SYMMETRY ValueSymmetry
INVARIANTS
    ErasedExactly
    CountersExact
PROPERTIES
    EraseLosesNothing
    GreedyVictim
    ImplementsLogicalDisk
