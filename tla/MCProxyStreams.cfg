SPECIFICATION FairSpec
CONSTANTS
    cli = cli
    api = api
    s1 = s1
    s2 = s2
    Clients = {cli}
    Sids = {s1}
    SidOf <- MCSidOf
    ApiClients = {}
    Agents = {k1}
    Closers = {x1}
    Subscribers = {reader}
    SubOf <- MCSubOf
    MaxFailures = 1
    None = None
INVARIANTS
    ClosedIsDone
    ReadersAreWoken
PROPERTIES
    RejectedOnlyWhileClosing
    ReadersAreTold
CHECK_DEADLOCK FALSE
