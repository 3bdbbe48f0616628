SPECIFICATION FairSpec
CONSTANTS
    NrPollers = 2
    MaxGen = 2
INVARIANTS
    TypeOK
    RingsShared
    PollersOnLiveMemory
    FreedUseBounded
PROPERTIES
    ExitEnds
    RequestsDrain
CHECK_DEADLOCK FALSE
