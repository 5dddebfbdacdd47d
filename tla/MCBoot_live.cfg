\* Two starts of a container whose server launches terminals too.
SPECIFICATION FairSpec
CONSTANTS
    RequireAlgo = TRUE
    InitLaunches = TRUE
    LogTruncatedFirst = TRUE
    MaxBoots = 2
    MaxDeaths = 2
    MaxExits = 2
CHECK_DEADLOCK FALSE
INVARIANT Safe
PROPERTIES LaunchTrades TerminalReturns
