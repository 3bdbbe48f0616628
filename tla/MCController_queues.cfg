SPECIFICATION Spec
CONSTANTS
    NrIoQueues = 1
    DbStride = 0
    MpsMin = 0
    MpsMax = 0
    Mps = {0, 1}
    Lows = {1}
    HighBits = {32}
    AqaSizes = {0, 1}
    IoSize = 2
    MaxAddr = 15
    MaxVal = 2
INVARIANTS
    TypeOK
    QueuesOnlyWhenReady
    ShadowOnlyIfGiven
    DoorbellsReach
PROPERTIES
    RestartSucceeds
    QueueLossReported
    DoorbellsHitOwnQueue
