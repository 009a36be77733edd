\* Two user turns, a compact.request and up to two crashes, while writes
\* succeed; and two sessions and two processes with four events, of which one
\* crashes or fails to write.
CONSTANTS
    u1 = u1
    u2 = u2
    c1 = c1
    s1 = s1
    None = None
    UserOps <- TwoUsers
    CompactOps <- OneCompact
    SlashOps <- NoOps
    MaxSteps = 1
    MaxRetries = 0
    RecentTail = 1
    MaxCalls = 2
    MaxFailures = 0
    Unwritable <- Nothing
    MessageIds <- FewMessageIds
    MaxCrashes = 2
    f1 = f1
    f2 = f2
    p1 = p1
    p2 = p2
    Sessions <- TwoSessions
    Procs <- TwoProcs
    Nil = Nil
    Torn = Torn
    MaxTime = 4
    MaxFileFaults = 1
SPECIFICATION MCSpec
SYMMETRY Interchangeable
INVARIANTS
    
    NothingSilentlyLost
    FilesAgree

    
\* Every process may have ended.
CHECK_DEADLOCK FALSE
