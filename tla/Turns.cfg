\* Two user turns and a compact.request with provider retries; any one write fails.
CONSTANTS
    u1 = u1
    u2 = u2
    c1 = c1
    s1 = s1
    None = None
    UserOps <- TwoUsers
    CompactOps <- OneCompact
    SlashOps <- NoOps
    MaxSteps = 1
    MaxRetries = 1
    RecentTail = 1
    MaxCalls = 2
    MaxFailures = 1
    Unwritable <- Everything
    MessageIds <- FewMessageIds
SPECIFICATION Spec
INVARIANTS
    OneActivity
    
    RequestsBounded
