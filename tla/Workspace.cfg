\* Two commands in two turns; two files and three calls, each with the jobs of
\* its place, and one mishap; patterns of five characters and two files of three
\* lines; a repository that moves once; five results in two lives; a file of
\* four characters.
SPECIFICATION WSpec
CONSTANTS
    c1 = c1
    c2 = c2
    top = top
    sub = sub
    out = out
    None = None
    Commands <- MCCommands
    TurnOf <- MCTurnOf
    NumTurns = 2
    Dirs <- MCDirs
    Inside <- MCInside
    Root = top
    Files <- MCFiles
    Lines <- MCLines
    Missing = Missing
    Starts <- MCStarts
    Jobs <- MCJobs
    NCalls = 3
    MaxMishaps = 1
    Tree <- MCTree
    IgnoredDirs <- MCIgnored
    Repos <- MCRepos
    References <- MCReferences
    Characters = {"a", "b", "*", "?", "/"}
    GrepFiles = 2
    MaxPattern = 5
    MaxLines = 3
    MaxContext = 1
    MaxResults = 2
    Repositories <- MCRepositories
    NoRepository = NoRepository
    NoPath = NoPath
    Withheld = {"s"}
    PatchBytes <- MCPatchBytes
    PreviewBytes = 3
    PreviewFiles = 2
    Paths <- MCPaths
    MaxMoves = 1
    CallIds = {"a", "a.", "b"}
    SafeText <- MCSafeText
    Workspace <- MCWorkspaceDir
    ArtifactDirs <- MCArtifactDirs
    UpNames = {"..t"}
    MaxArtifacts = 4
    MaxLives = 2
    MaxLosses = 1
    Alphabet = {"x", "$", "&", "n"}
    Newline = "n"
    MaxText = 4
    MaxOldText = 2
    MaxNewText = 2
INVARIANTS
    
    SignalsAreAimed
    
    StubsAreBacked
    
PROPERTY
    CommandsEnd
\* A session may close and its user leave; the calls end.
CHECK_DEADLOCK FALSE
