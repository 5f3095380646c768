SPECIFICATION Spec
CONSTANTS
    None = None
    Threads = {t1, t2}
    Addrs = {a1, a2}
    Sids = {s1, s2}
    Pids = {p1}
    MaxInits = 3
    MaxFaults = 2
SYMMETRY Symmetry
INVARIANTS
    HandleWhileHeld
    OwnersMatchHandles
PROPERTIES
    HandleKept
CHECK_DEADLOCK FALSE
