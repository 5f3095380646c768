SPECIFICATION Spec
CONSTANTS
    None = None
    First = t1
    Threads = {t1}
    Socks = {s1}
    Platforms = {"Linux", "Win32", "Android"}
    MaxClients = 1
    MaxFaults = 1
    vmType = "BEIHAI_V2"
    Calls <- AnyCall
    Results <- MCResults
INVARIANTS
    RequestsUnderstood
    AnswersUnderstood
CHECK_DEADLOCK FALSE
