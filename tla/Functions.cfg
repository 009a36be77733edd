\* Every history of up to six messages over two call ids, every log of up to
\* five events in two turns of one step, conversations of up to six messages;
\* streams read in pieces that end anywhere; commands of four words, paths of
\* four names; two requests and one change of the world; three words on the
\* command line.
CONSTANTS
    CallChoices <- FewChoices
    Answerable <- TwoCalls
    MaxMessages = 6
    MaxRecent = 4
    Turns <- TwoTurns
    Steps <- OneStep
    Answers <- UpToTwo
    MaxEvents = 5
    MaxKept = 3
    Ids <- FewIds
    MaxResults = 2
    MaxHistory = 6
    Streamed <- MCStreamed
    Fragments = {"a", "b", "c", "d", "e", "f"}
    CallIds = {"x"}
    Nil = Nil
    MaxPiece = 9
    Words = {"git", "-C", "-cx", "x", "status", "push", "branch", "--show-current", "|", "reset", "--hard"}
    ToolNames <- MCToolNames
    MaxWords = 4
    FileTree <- MCFileTree
    Root <- MCRoot
    Names = {"w", "o", "d", "f", "in", "out", "gone", "loop", "alias", "..", "..x", "new", ".env"}
    SensitiveNames = {".env"}
    DottedNames = {"..x"}
    MaxNames = 4
    MaxHops = 12
    NoText = NoText
    SkillFiles <- MCSkillFiles
    SkillRequests <- MCSkillRequests
    Lower <- MCLower
    AgentsMds <- MCAgentsMds
    McpContexts <- MCMcpContexts
    Todos = {"todo"}
    RecentMessages = 2
    SnipBytes = 1
    SnipErrorBytes = 2
    MaxAgentsBytes = 4
    MaxSkillBytes = 8
    MaxTotalBytes = 10
    Marker = 3
    Sizes = {0, 2}
    MaxContextHistory = 3
    MaxRequests = 2
    MaxMoves = 1
    NoSetting = "none"
    CliWords = {"doctor", "resume", "sessions", "profile", "-p", "--max-steps", "--json", "--output-json", "--json-events", "--sandbox", "--last", "--repl", "--dry-run", "--help", "7", "0", "x", "", "--bogus"}
    MaxCliWords = 3
    RawValues <- MCRawValues
    McpFiles <- MCMcpFiles
SPECIFICATION FSpec
INVARIANTS
    ScanAcceptsPaired
    CompactionKeepsGroups
    ReplayIsExact
    MessageIsTheStream
    
    RequestsAreStable
    
CHECK_DEADLOCK FALSE
