SPECIFICATION FairSpec
CONSTANTS
    NrPollers = 2
    Req = {r1, r2}
    RingSize = 2
    Lats = {1, 2}
    MaxTime = 1
INVARIANTS
    TypeOK
    RequestsConserved
    LatencyIsOwn
PROPERTIES
    NothingLost
    NoStarvation
