\* Either transport, one position of ours and one of another's, a container
\* that ends, is removed and is replaced by hand.
SPECIFICATION FairSpec
CONSTANTS
    p1 = p1
    p2 = p2
    Transports = {"http", "rpyc"}
    Held = {p1, p2}
    Ours = {p1}
    timeout = 2
    MaxBoxes = 2
CHECK_DEADLOCK FALSE
INVARIANT Safe
PROPERTIES SessionsAreKept Launches TradingIsTold
