CONSTANTS
    collector = collector
    service = service
    Task <- MCTask
    Collector = collector
    Service = service
    HardMax = 3
    MaxRecords = 4
    MaxRequests = 1
    MaxCrashes = 1
    Limits = {1, 2, 3}
    Resizes = {}
    MallocMayFail = FALSE
    WritesMayFail = FALSE
    HandlesMayRunOut = FALSE
SPECIFICATION Spec
CHECK_DEADLOCK FALSE
INVARIANTS RingOrder IndexMatches IndexMemorySafe FetchStaysInRing ExclusionWithOneMutex
PROPERTY FetchPagesBack
