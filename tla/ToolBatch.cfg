\* Three calls of any kinds in two turns; any one event write fails.
CONSTANTS
    a = a
    b = b
    c = c
    None = None
    Calls <- ThreeCalls
    NumBatches = 2
    BatchOf <- TwoThenOne
    Earlier <- InOrder
    Plans <- SomePlans
    HasHooks = TRUE
    MaxFailures = 1
    Unwritable <- AnyWrite
SPECIFICATION FairSpec
INVARIANTS
    FirstResponseDecides
    EffectsPermitted
    WritersWorkAlone
    TodoMatchesLog
PROPERTIES
    AbandonedWorkStops
    BatchesEnd
