CONSTANTS
    HandleMax = 2
    HeapSize = 2
    Log = {"log"}
    Attempts = {1, 2}
    LogSize = 1
    ImageSize = 2
    MaxParams = 1
    Golden = TRUE
    None = None
SPECIFICATION FairSpec
INVARIANTS ResourcesAccounted AnswersResume
PROPERTIES LogsKept RequestsEnd
