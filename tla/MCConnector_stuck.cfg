\* A disconnect that meets an init thread.
SPECIFICATION FairSpec
CONSTANTS
    r1 = r1
    r2 = r2
    t1 = t1
    t2 = t2
    Requests = {r1, r2}
    Inits = {t1, t2}
    MaxDisconnects = 1
    MaxDeaths = 0
    MaxWedges = 0
CHECK_DEADLOCK FALSE
PROPERTY EnsuresConnected
