SPECIFICATION Spec
CONSTANTS
    NrPollers = 2
    Req = {r1, r2}
    RingSize = 2
    Lats = {1}
    MaxTime = 1
SYMMETRY ReqSymmetry
INVARIANTS
    LatencyIsOwnAlways
