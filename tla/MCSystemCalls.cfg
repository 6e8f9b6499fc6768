SPECIFICATION Spec
CONSTANTS
    Calls <- MCCalls
    Keys <- MCKeys
    Key <- MCKey
    Resources = {"db"}
    Resource <- MCResource
    Streams = {"k1"}
    None = "nil"
INVARIANTS WaitingIsReachable OnlyLateAnswersPanic LockedIsRunning
CHECK_DEADLOCK FALSE
