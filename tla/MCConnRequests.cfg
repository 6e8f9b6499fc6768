SPECIFICATION Spec
CONSTANTS
    c1 = c1
    c2 = c2
    c3 = c3
    k1 = k1
    k2 = k2
    sidA = sidA
    sidB = sidB
    Clients = {c1, c2, c3}
    Sids = {sidA, sidB}
    SidOf <- MCSidOf
    Streams = {k1, k2}
    PreConnects = {p1}
    MaxCalls = 2
    None = None
SYMMETRY MCSymmetry
INVARIANTS
    OneSender
    StoredStreamIsLive
    ListedAreReleased
CHECK_DEADLOCK FALSE
