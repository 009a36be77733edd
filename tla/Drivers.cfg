\* Three lines typed or a pipe and two approvals; a run with one prompt, two
\* events and three mishaps; three live runs; two spans of a profile and a
\* mishap; the evaluation programs, with two mishaps (terminal-bench: one).
CONSTANTS
    Lines <- MCLines
    KindOf <- MCKindOf
    Pipes <- MCPipes
    Approvals = {"a", "b"}
    MaxTyped = 3
    MaxInterrupts = 2
    Nobody = Nobody
    MaxEmitted = 2
    MaxRunFaults = 3
    None = None
    Unread = Unread
    TopLimit = 2
    Thresholds <- MCThresholds
    Transcripts <- MCTranscripts
    Leftovers <- MCLeftovers
    Warmups = 1
    Runs = 2
    SpanKinds <- MCSpanKinds
    Diagnostics <- MCDiagnostics
    MaxSpans = 2
    MaxLines = 3
    MaxClock = 1
    MaxProfilerFaults = 1
    MaxInflight = 2
    Requests <- SomeRequests
    Adapters <- TwoAdapters
    Ports = {q1, q2}
    NoPort = NoPort
    MaxMatrixFaults = 2
    Clients = {c1, c2}
    Streams <- TwoStreams
    Statuses = {200, 429}
    MaxProxyFaults = 2
    SwebenchOptions <- SomeSwebench
    Repo <- SixInstances
    Absent = Absent
    MaxSwebenchFaults = 2
    TbenchOptions <- SomeTbench
    Missing = Missing
    MaxTbenchFaults = 1
    Fixtures <- TwoFixtures
    SelfOptions <- SomeSelf
    NoFixture = NoFixture
    MaxSelfFaults = 2
SPECIFICATION DSpec
INVARIANTS
    SummaryIsTrue
    MatrixRunIsTrue
    EveryExchangeOnce
    
PROPERTIES
    
    ProgramsGoOn
\* The programs end.
CHECK_DEADLOCK FALSE
