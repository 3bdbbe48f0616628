SPECIFICATION Spec
CONSTANTS
    NrIoQueues = 1
    DbStride = 1
    MpsMin = 0
    MpsMax = 0
    Mps = {0}
    Lows = {2}
    HighBits = {}
    AqaSizes = {0, 1}
    IoSize = 2
    MaxAddr = 31
    MaxVal = 2
INVARIANTS
    DoorbellsReach
