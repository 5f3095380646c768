CONSTANTS
    Threads = {t1, t2}
    Ids = {i1, i2}
    Procs = {p1, p2}
    Apps = {a1}
    None = None
    MaxOwners = 2
    VMMax = 1
    MaxLRU = 2
SPECIFICATION Spec
INVARIANT ForcedCloseReturns
CHECK_DEADLOCK FALSE
