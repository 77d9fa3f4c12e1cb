SPECIFICATION PartSpec
CONSTANTS
    w1 = w1
    w2 = w2
    x = x
    y = y
    k1 = k1
    k2 = k2
    Workers <- Two
    Accounts <- Both
    MaxAttempts = 2
    MaxSlots = 1
    MaxIds = 2
    Binds = TRUE
    None = None
    Asks <- Pair
    Ops = {1}
    Body = {body}
    Notice = Notice
    Sid = {1, 2, 3}
    MaxConns = 2
    MaxChannels = 1
    MaxDevices = 2
    MaxCrashes = 1
    MaxId = 4
    Legacy = {1}
    MaxSessions = 2
    MaxDispatch = 1
    MaxFaults = 3
    MaxRefusals = 1
SYMMETRY Symmetry
INVARIANTS RecordsTrue OneCurrent OnceAndOwned
PROPERTIES OthersKept
CHECK_DEADLOCK FALSE
