SPECIFICATION FairSpec
CONSTANTS
    None = None
    First = t1
    Threads = {t1, t2}
    Socks = {s1, s2}
    Platforms = {"Linux", "Win32", "Android"}
    MaxClients = 1
    MaxFaults = 1
    vmType = "BEIHAI_V2"
    Calls <- TwoCalls
    Results <- OneResult
INVARIANTS
    PermitsAccounted
PROPERTIES
    CallReturns
CHECK_DEADLOCK FALSE
