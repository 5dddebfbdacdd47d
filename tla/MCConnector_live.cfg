\* Two requests, a disconnect, a dying terminal, a pipe that wedges.
SPECIFICATION FairSpec
CONSTANTS
    r1 = r1
    r2 = r2
    t1 = t1
    t2 = t2
    Requests = {r1, r2}
    Inits = {t1, t2}
    MaxDisconnects = 1
    MaxDeaths = 1
    MaxWedges = 1
CHECK_DEADLOCK FALSE
INVARIANT OneInit
PROPERTIES RefusalIsHeld Connects NoRestartLoop
