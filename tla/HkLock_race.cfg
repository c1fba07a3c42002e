CONSTANTS
    t1 = t1
    t2 = t2
    t3 = t3
    Task <- MCTask
SPECIFICATION LockSpec
INVARIANT MutualExclusion
