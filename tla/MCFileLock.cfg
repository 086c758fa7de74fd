SPECIFICATION LockFairSpec
CONSTANTS
    p1 = p1
    p2 = p2
    t1 = t1
    t2 = t2
    Proc = {p1, p2}
    Thread = {t1, t2}
    MaxNest = 2
    MaxCalls <- MCCalls
    MaxCrashes = 1
INVARIANTS
    Exclusion
    NestIsCovered
    SleeperHasWaker
PROPERTIES
    ImplementsPathLock
    Acquires
CHECK_DEADLOCK FALSE
