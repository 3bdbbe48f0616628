SPECIFICATION Spec
CONSTANTS
    NrIoQueues = 1
    DbStride = 0
    MpsMin = 1
    MpsMax = 0
    Mps = {0, 1}
    Lows = {4}
    HighBits = {}
    AqaSizes = {0, 1}
    IoSize = 2
    MaxAddr = 3
    MaxVal = 0
PROPERTIES
    RestartSucceeds
