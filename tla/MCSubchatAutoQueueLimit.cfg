\* More submissions than live workers: the limit, 8 in the code, is 2 here.
CONSTANTS
    Op = {o1, o2, o3}
    Controller = {c1}
    Limit = 2
    MaxEpoch = 2
SPECIFICATION Spec
INVARIANT ArmedIsWatched
CHECK_DEADLOCK FALSE
