SPECIFICATION Spec
CONSTANTS
    Capacity = 2
    o1 = o1
    o2 = o2
    s1 = s1
    s2 = s2
    Orgs = {o1, o2}
    NoOrg = NoOrg
    Streams = {s1, s2}
    StreamOrg <- MCStreamOrg
    MaxAppends = 4
INVARIANTS
    TypeOK
    RingIsWindow
    SentIsOrderedAndVisible
PROPERTY
    PollLosesOnlyEvicted
CHECK_DEADLOCK FALSE
