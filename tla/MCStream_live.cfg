\* A symbol whose EA is attached, goes quiet and goes, and one the broker has not; an outage.
SPECIFICATION StreamFairSpec
CONSTANTS
    s1 = s1
    s2 = s2
    Symbols = {s1, s2}
    Carried = {s1}
    MaxSymbols = 1
    Prompt = TRUE
    MaxMoves = 2
    MaxCommands = 2
    MaxOutages = 1
    MaxAttached = 1
CHECK_DEADLOCK FALSE
INVARIANT StreamSafe
PROPERTY StaysCurrent
