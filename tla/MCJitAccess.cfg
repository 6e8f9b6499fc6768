SPECIFICATION FairSpec
CONSTANTS
    Sessions = {s1, s2}
    Requests = {q1, q2}
    Durations = {1, 3}
    MaxDuration = 2
    MaxDecision = 1
    MaxTime = 3
    None = None
INVARIANTS ApprovedExpires AccessIsBounded DenialFades
PROPERTIES NeverExtended GrantedEnds
CHECK_DEADLOCK FALSE
