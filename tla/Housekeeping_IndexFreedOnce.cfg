CONSTANTS
    collector = collector
    service = service
    Task <- MCTask
    Collector = collector
    Service = service
    HardMax = 2
    MaxRecords = 3
    MaxRequests = 1
    MaxCrashes = 0
    Limits = {}
    Resizes = {2}
    MallocMayFail = FALSE
    WritesMayFail = FALSE
    HandlesMayRunOut = FALSE
SPECIFICATION Spec
CHECK_DEADLOCK FALSE
INVARIANT IndexFreedOnce
