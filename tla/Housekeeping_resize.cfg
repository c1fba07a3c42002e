CONSTANTS
    collector = collector
    service = service
    Task <- MCTask
    Collector = collector
    Service = service
    HardMax = 3
    MaxRecords = 4
    MaxRequests = 2
    MaxCrashes = 1
    Limits = {}
    Resizes = {1, 2, 3}
    MallocMayFail = FALSE
    WritesMayFail = TRUE
    HandlesMayRunOut = FALSE
SPECIFICATION Spec
CHECK_DEADLOCK FALSE
INVARIANTS IndexMatches CursorInRing
PROPERTY ImplementsLog
