CONSTANTS
    Op = {o1}
    Controller = {c1, c2}
    Limit = 8
    MaxEpoch = 2
SPECIFICATION FairSpec
INVARIANTS ArmedIsWatched OneEventPerArming EventHonest
PROPERTY WorkersEnd
CHECK_DEADLOCK FALSE
