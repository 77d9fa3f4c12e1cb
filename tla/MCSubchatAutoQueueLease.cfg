\* A lease that lapses while the message is being prepared.
CONSTANTS
    Op = {o1}
    Controller = {c1}
    Limit = 8
    MaxEpoch = 2
SPECIFICATION Spec
INVARIANT StopIsSaved
CHECK_DEADLOCK FALSE
