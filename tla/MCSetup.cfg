SPECIFICATION Spec
CONSTANTS
    Configs <- MCConfigs
    IntBits = 11
    BlkBits = 3
    PgBits = 3
    LunBits = 2
    ChBits = 1
    MpsCodes = {0, 1, 3, 4}
    EsCodes = {3, 4, 6, 12, 15}
INVARIANTS
    TypeOK
    QueuesReachable
    NamespaceFits
    MdtsAsAnnounced
    OverflowOnlyInSectors
    LinesTileTheDrive
    BlocksHaveEntries
    CollectionStartsInTime
CHECK_DEADLOCK FALSE
