\* Two threads over one map and one cache, a terminal that comes and goes.
SPECIFICATION Spec
CONSTANTS
    t1 = t1
    t2 = t2
    s1 = s1
    s2 = s2
    Threads = {t1, t2}
    Symbols = {s1, s2}
    Batches <- MCBatches
    REBUILD_AFTER_S = 1
    TTL = 1
    MaxTime = 2
SYMMETRY ThreadSymmetry
INVARIANT Safe
PROPERTIES FoundWithinTheMinute 
CHECK_DEADLOCK FALSE
