\* The agent's ledger: agent.lock admits one of two processes at a time.
\* Two connectors, two agent processes and two releases; three calls to one tab;
\* two calls on two browsers.
CONSTANTS
    o1 = o1
    o2 = o2
    p1 = p1
    p2 = p2
    p3 = p3
    Op <- Two
    Arg = {a1, a2}
    Body = {b1, b2}
    Notice = Notice
    Process <- Both
    Exclusive = TRUE
    None = None
    MaxVersion = 2
    TabCall <- Three
    MaxChanges = 1
    MaxDialogs = 1
    MaxSessions = 1
    TabLimit = 2
    MaxPages = 3
    MaxConnections = 1
SPECIFICATION PartSpec
SYMMETRY AgentSymmetry
INVARIANTS AtMostOnce RefusalHonest AnswersTrue AgentKept PageKnown
PROPERTY KeepsPromise
