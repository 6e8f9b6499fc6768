SPECIFICATION Spec
CONSTANTS
    Writers = {w1, w2}
    Closers = {c1, c2}
    MaxRead = 1
    MaxEvents = 3
    MaxVerdicts = 1
    MaxFailures = 1
    MaxRestarts = 1
SYMMETRY Symmetry
INVARIANTS
    StreamIsPrefix
    StreamIsBounded
    StoreHoldsLiveWal
    OneOwner
    LostOnlyInFlight
    VerdictsCounted
PROPERTY
    IsRecording
CHECK_DEADLOCK FALSE
