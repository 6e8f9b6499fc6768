SPECIFICATION FairSpec
CONSTANTS
    Conns = {"1", "10"}
    Prefixed <- MCPrefixed
    Wedged <- WedgedHttp
    Session = "session"
    MaxPackets <- MCMaxPackets
    MaxQueued = 1
    Closers = {"k1"}
INVARIANTS TypeOK OneHandler InOrder NoneForgotten ClosedIsCleaned
PROPERTIES CloseLands
CHECK_DEADLOCK FALSE
