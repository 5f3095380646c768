SPECIFICATION FairSpec
CONSTANTS
    Threads = {t1, t2, t3, t4}
    None = None
INVARIANTS
    NoLostWakeup
    LockInv
PROPERTIES
    ImplementsRWLock
    WriterGetsIn
