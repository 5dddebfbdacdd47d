\* Every source, ticks that share a moment, a queue of one frame, a server
\* behind the client's clock, at it, and ahead of it by more than a range.
SPECIFICATION FairSpec
CONSTANTS
    Sources = {"poll", "ticks", "push", "bars"}
    Quotes = {a, b}
    Second = 2
    BarLength = 1
    STREAM_BACKLOG = 1
    Start = 2
    Offsets <- MCOffsets
    MaxTicks = 3
    MaxTime = 4
CHECK_DEADLOCK FALSE
INVARIANTS Safe NothingSkipped OnlyClosedBars
PROPERTY LatestArrives
