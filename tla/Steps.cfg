\* One user turn next to a compact.request; one of the writes runTurn recovers
\* from fails.
CONSTANTS
    u1 = u1
    u2 = u2
    c1 = c1
    s1 = s1
    None = None
    UserOps <- OneUser
    CompactOps <- OneCompact
    SlashOps <- NoOps
    MaxSteps = 2
    MaxRetries = 1
    RecentTail = 2
    MaxCalls = 2
    MaxFailures = 1
    Unwritable <- Recovered
    MessageIds <- FewMessageIds
SPECIFICATION Spec
INVARIANTS
    TypeOK
    

    
