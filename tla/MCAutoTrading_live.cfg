\* A caller of the API, the script and the login at any time, over a GUI that acts late
\* or not at all and a terminal that falls silent.
SPECIFICATION ToggleFairSpec
CONSTANTS
    p1 = p1
    p2 = p2
    p3 = p3
    Callers = {p1}
    Scripts = {p2}
    Logins = {p3}
    Wanted = {"on", "off"}
    MaxCalls = 1
    MaxLost = 1
    MaxSilences = 1
CHECK_DEADLOCK FALSE
INVARIANT ToggleSafe
PROPERTIES PressesOnMismatch Answers
