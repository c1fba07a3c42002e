CONSTANTS
    N = 4
    Threshold = 1
    Word = 14
    Times <- MCTimes
    Clocked = TRUE
CHECK_DEADLOCK FALSE
SPECIFICATION FairSpec
INVARIANTS TypeOK InBounds ResultIsNear FindsClosest
PROPERTY Terminates
