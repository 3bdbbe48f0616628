SPECIFICATION MCSpec
CONSTANTS
    LUN = {l1, l2}
    PgRdLat = 3
    PgWrLat = 2
    BlkErLat = 4
    EncLat = 1
    DecLat = 2
    MaxTime = 3
    Horizon = 100
    MaxCmds = 4
SYMMETRY LunSymmetry
INVARIANTS
    TypeOK
    CryptNeverHelps
    UnitsServeOneAtATime
    StagesInOrder
CHECK_DEADLOCK FALSE
