\* Every tool, two calls at once, beside the trailing job, over a long an earlier process
\* placed and a short opened now.  The broker may refuse the stop of the long for ever.
SPECIFICATION FairSpec
CONSTANTS
    r1 = r1
    r2 = r2
    Requests = {r1, r2}
    Tickets = {1, 2}
    Tools <- MCTools
    Held <- MCHeld
    Profits <- MCProfits
    Sides = {"SELL"}
    AskedStops = {5}
    AskedTargets = {1}
    Impatient = {r1}
    Accepted = {2}
    TopStep = 2
CHECK_DEADLOCK FALSE
INVARIANTS Safe RowsAgree
PROPERTIES LoosensOnlyUnseen Trailed
