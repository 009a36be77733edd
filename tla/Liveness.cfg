\* A user turn and /compact, which may overlap; any one write fails.
CONSTANTS
    u1 = u1
    u2 = u2
    c1 = c1
    s1 = s1
    None = None
    UserOps <- OneUser
    CompactOps <- NoOps
    SlashOps <- OneSlash
    MaxSteps = 1
    MaxRetries = 1
    RecentTail = 1
    MaxCalls = 2
    MaxFailures = 1
    Unwritable <- Everything
    MessageIds <- FewMessageIds
SPECIFICATION FairSpec
INVARIANTS
    WriteAhead
PROPERTIES
    OpsFinish
