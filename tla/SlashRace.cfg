\* Two user messages and /compact; writes succeed.
CONSTANTS
    u1 = u1
    u2 = u2
    c1 = c1
    s1 = s1
    None = None
    UserOps <- TwoUsers
    CompactOps <- NoOps
    SlashOps <- OneSlash
    MaxSteps = 1
    MaxRetries = 0
    RecentTail = 1
    MaxCalls = 2
    MaxFailures = 0
    Unwritable <- Nothing
    MessageIds <- FewMessageIds
SPECIFICATION Spec
INVARIANTS
    OneTurnAtATime
