\* Two openers of the delegated ledger, no process lock.
CONSTANTS
    Op = {o1}
    Arg = {a1}
    Body = {b1}
    Notice = Notice
    Process = {p1, p2}
    Exclusive = FALSE
    None = None
SPECIFICATION Spec
INVARIANT RestartHonest
