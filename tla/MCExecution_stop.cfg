\* Two modifies of one position at once, one of its stop and one of its target.
SPECIFICATION FairSpec
CONSTANTS
    o1 = o1
    o2 = o2
    k1 = k1
    k2 = k2
    Orders = {o2}
    Markets = {}
    Stopped = {}
    Carried = {}
    Tasks = {k1, k2}
    Transports = {"http"}
    Asks <- MCAsks
    MaxLevel = 2
    MaxCommands = 3
    MaxLost = 0
CHECK_DEADLOCK FALSE
PROPERTY NeverRemovesStop
