SPECIFICATION FairSpec
CONSTANTS
    Conns = {"1", "10"}
    Prefixed <- MCPrefixed
    Wedged <- WedgedSsh
    Session = "session"
    MaxPackets <- MCMaxPackets
    MaxQueued = 1
    Closers = {"k1"}
PROPERTIES CloseLands
CHECK_DEADLOCK FALSE
