\* One EA, two connections, a subscriber that joins, leaves and falls behind,
\* restarts of both ends, fair scheduling.
SPECIFICATION FairSpec
CONSTANTS
    c1 = c1
    c2 = c2
    q1 = q1
    q2 = q2
    Symbols = {EURUSD}
    Conns = {c1, c2}
    Subscribers = {q1}
    Backlog = 1
    MaxTicks = 3
    MaxRuns = 2
    MaxJunk = 1
    MaxRestarts = 1
CHECK_DEADLOCK FALSE
INVARIANTS QueueIsNewestUnread DropsAreCounted
PROPERTIES NamedWithinRun KeepsPromise Reconnects CatchesUp
