\* A turn; writing a tool.result event fails.
CONSTANTS
    u1 = u1
    u2 = u2
    c1 = c1
    s1 = s1
    None = None
    UserOps <- OneUser
    CompactOps <- NoOps
    SlashOps <- NoOps
    MaxSteps = 1
    MaxRetries = 0
    RecentTail = 1
    MaxCalls = 2
    MaxFailures = 1
    Unwritable <- ResultOnly
    MessageIds <- FewMessageIds
SPECIFICATION Spec
INVARIANTS
    AlwaysReplayable
