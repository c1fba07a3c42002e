CONSTANTS
    collector = collector
    service = service
    Task <- MCTask
    Collector = collector
    Service = service
    HardMax = 2
    MaxRecords = 2
    MaxRequests = 1
    MaxCrashes = 0
    Limits = {2}
    Resizes = {1, 2}
    MallocMayFail = TRUE
    WritesMayFail = TRUE
    HandlesMayRunOut = TRUE
SPECIFICATION FairSpec
CHECK_DEADLOCK FALSE
INVARIANTS TypeOK LockComesBack
PROPERTIES RequestsEnd CollectionsEnd
