\* Two messages and a follow-up, an existing Chat and a Chat a message may
\* create, one worker of each transport.
CONSTANTS
    o1 = o1
    o2 = o2
    o3 = o3
    Op = {o1, o2, o3}
    After <- MCAfter
    HttpOps = {o1, o2}
    Chat = {c1, c2}
    Existing = {c1}
    Account = {a1, a2}
    Choice = {m1, m2}
    Worker = {w1, w2}
    Direct = {w2}
    MaxRevision = 1
    None = None
    MaxTries = 2
    Name = {"first", "second"}
    MaxNames = 1
    MaxCommands = 2
    MaxLogins = 1
    MaxStarts = 1
    MaxTurns = 3
    MaxMoves = 3
SPECIFICATION TransportSpec
SYMMETRY SubchatSymmetry
INVARIANTS SentOnce ChatSerialized DeletionExclusive SentAsChecked FollowsTarget PatchedOnce TransportTrue
CHECK_DEADLOCK FALSE
