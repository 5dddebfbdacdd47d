\* A market order with a stop, a limit without; two commands at once; one answer lost.
SPECIFICATION FairSpec
CONSTANTS
    o1 = o1
    o2 = o2
    k1 = k1
    k2 = k2
    Orders = {o1, o2}
    Markets = {o1}
    Stopped = {o1}
    Carried = {o1}
    Tasks = {k1, k2}
    Transports = {"http", "rpyc"}
    Asks <- MCAsks
    MaxLevel = 2
    MaxCommands = 2
    MaxLost = 1
CHECK_DEADLOCK FALSE
INVARIANTS FillsAreDeals CanceledIsGone RejectedIsNotPlaced StopKept
PROPERTY EveryCommandAnswered
