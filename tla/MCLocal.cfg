SPECIFICATION LocalSpec
CONSTANTS
    PluginOpened = 3
    PluginRoom = 2
    PluginSweeps = 1
    DirectOpened = 2
    DirectRoom = 1
    DirectWatches = 1
    TermStarted = 2
    TermRoom = 1
    TermKept = 1
    TermCap = 1
    TermOutput = 3
    TermStarters <- Two
    Id = {"i1", "i2", "i3"}
    Sends <- TriedSends
    Reads <- TriedReads
    Call = {1}
    Tasks = {1, 2}
    KeptRequests = 1
    MaxStops = 1
    First = "a"
    Second = "b"
    Caller <- Two
    MaxRecoveries = 1
    MaxFailures = 1
    p1 = p1
    i1 = i1
    i2 = i2
    d1 = d1
    d2 = d2
    d3 = d3
    c1 = c1
    c2 = c2
    Peer <- Peers
    Scope <- OneProject
    Instance <- Instances
    PeerOf <- Serves
    Label = {l1}
    Delivery <- Deliveries
    Legacy = {}
    Command <- Two
    MaxPending = 2
    MaxRetained = 1
    Cert = {"p", "q"}
    OpId = {"o"}
    Tool = {"read", "write"}
    Grants <- Narrow
    Given <- FirstGrants
    MaxLinks = 2
    MaxCalls = 3
    MaxChanges = 1
    None = None
SYMMETRY LocalSymmetry
INVARIANTS AcceptedOnce AnswersHonest Capacity WorkSpared ClosedForGood
CHECK_DEADLOCK FALSE
