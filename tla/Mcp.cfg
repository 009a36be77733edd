\* Two servers that may offer a tool of the same name; two calls in a turn and
\* one in the next; any one event write fails.
CONSTANTS
    c = c
    d = d
    e = e
    None = None
    NumServers = 2
    Calls = {c, d, e}
    TurnOf <- TwoThenOne
    NumTurns = 2
    Names = {n}
    MaxFailures = 1
SPECIFICATION FairSpec
CHECK_DEADLOCK FALSE
INVARIANTS
    
    ServersAreAccounted
PROPERTY
    RequestsEnd
