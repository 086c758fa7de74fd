SPECIFICATION StateSpec
CONSTANTS
    p1 = p1
    p2 = p2
    t1 = t1
    t2 = t2
    Proc = {p1, p2}
    Thread = {t1, t2}
    MaxNest = 1
    MaxCalls <- MCCalls
    MaxCrashes = 1
    Key = {1, 2, 3}
    Cap = 2
    TempRetries = 2
    OldTemps <- MCOldTemps
    MaxClock = 1
INVARIANTS
    IndexWhole
    NoLostUpdate
CHECK_DEADLOCK FALSE
