-------------------------------- MODULE Context --------------------------------
(***************************************************************************)
(* What a provider request is made of: skills and MCP servers are loaded   *)
(* once, the context is initialised once from them and from AGENTS.md, and *)
(* each step assembles the frozen prefix, the projected history with old   *)
(* tool output snipped, and the todo list of the moment.  Meanwhile files, *)
(* todo list, tools and the state of the sandbox change.                   *)
(* A text is a model value with its size where a cap looks at it.          *)
(***************************************************************************)
EXTENDS Integers, Sequences, SequencesExt, FiniteSetsExt, Projection

CONSTANTS
    SkillFiles,      \* [directory -> its SKILL.md, or NoText]
    SkillRequests,   \* options: [dirs, enabled], directories and skills by name
    Lower,           \* [name -> the name in lower case]
    AgentsMds,       \* what may be at AGENTS.md: [kind, text, bytes]
    McpContexts,     \* what connecting the servers may give, or NoText
    Todos,           \* summaries of the todo list
    NoText,
    RecentMessages, SnipBytes, SnipErrorBytes,           \* historySnip
    MaxAgentsBytes, MaxSkillBytes, MaxTotalBytes, Marker, \* caps, in bytes
    Sizes,           \* sizes of tool output
    MaxContextHistory,      \* bound: messages in the history
    MaxRequests,     \* bound: requests; nothing is followed after the last
    MaxMoves         \* bound: changes of the world

\* A skill as it is sent, and what is told of one.
Skill == [name : DOMAIN Lower, dir : DOMAIN SkillFiles, bytes : Nat, truncated : BOOLEAN]
SkillEvent == [type : {"error", "skipped", "activated"},
               name : DOMAIN Lower \union DOMAIN SkillFiles, bytes : Nat]

ASSUME ContextAssumption ==
    /\ {RecentMessages, SnipBytes, SnipErrorBytes, MaxAgentsBytes, MaxSkillBytes,
        MaxTotalBytes, Marker, MaxContextHistory, MaxRequests,
        MaxMoves} \subseteq Nat
    /\ Marker <= MaxSkillBytes
    /\ \A d \in DOMAIN SkillFiles :
          SkillFiles[d] = NoText \/ SkillFiles[d] \in [name : DOMAIN Lower, bytes : Nat]
    /\ SkillRequests \subseteq [dirs : Seq(DOMAIN SkillFiles), enabled : Seq(DOMAIN Lower)]
    /\ NoText \notin Skill \union SkillEvent

-----------------------------------------------------------------------------
(* Skills.                                                                  *)

\* The text up to the cap, less the marker that says so, which is always added.
CapBytes(bytes, max) ==
    IF max <= 0 THEN 0 ELSE IF bytes <= max THEN bytes
    ELSE Max({0, max - Marker}) + Marker

SnapshotSkill(dir) ==
    LET file == SkillFiles[dir]
        capped == CapBytes(file.bytes, MaxSkillBytes)
    IN  [name |-> file.name, dir |-> dir, bytes |-> capped, truncated |-> file.bytes > capped]

\* The sequence without what is not there.
KeepText(kept, x) == IF x = NoText THEN kept ELSE Append(kept, x)
There(s) == FoldLeft(KeepText, <<>>, s)

Loaded(dirs) ==
    There([i \in DOMAIN dirs |->
              IF SkillFiles[dirs[i]] = NoText THEN NoText ELSE SnapshotSkill(dirs[i])])

\* The last skill that goes by the name; then the name in lower case.
Found(all, asked) ==
    LET called(n) == {i \in DOMAIN all : n \in {all[i].name, Lower[all[i].name], all[i].dir}}
        hits == IF called(asked) # {} THEN called(asked) ELSE called(Lower[asked])
    IN  IF hits = {} THEN NoText ELSE all[Max(hits)]

\* capTotal: the skill that does not fit is cut, the ones after it are dropped.
PutSkill(acc, s) ==
    IF acc.left <= 0 THEN acc
    ELSE IF s.bytes <= acc.left
    THEN [kept |-> Append(acc.kept, s), left |-> acc.left - s.bytes]
    ELSE [kept |-> Append(acc.kept, [s EXCEPT !.bytes = CapBytes(s.bytes, acc.left),
                                              !.truncated = TRUE]),
          left |-> 0]
CapTotal(skills) == FoldLeft(PutSkill, [kept |-> <<>>, left |-> MaxTotalBytes], skills).kept

Active(all, enabled) == CapTotal(There([i \in DOMAIN enabled |-> Found(all, enabled[i])]))

\* The events of initializeExtensions: an unreadable file, a skill nobody has,
\* and the active skill that has the name or the path.
Unread(dir) ==
    IF SkillFiles[dir] = NoText THEN [type |-> "error", name |-> dir, bytes |-> 0] ELSE NoText
Told(all, active, asked) ==
    LET s == Found(all, asked)
        shown == {i \in DOMAIN active : active[i].name = s.name \/ active[i].dir = s.dir}
    IN  IF s = NoText THEN [type |-> "skipped", name |-> asked, bytes |-> 0]
        ELSE IF shown = {} THEN NoText
        ELSE LET t == active[Min(shown)]
             IN  [type |-> "activated", name |-> t.dir, bytes |-> t.bytes]

Announced(request, active) ==
    There([i \in DOMAIN request.dirs |-> Unread(request.dirs[i])])
      \o There([i \in DOMAIN request.enabled |->
                   Told(Loaded(request.dirs), active, request.enabled[i])])

-----------------------------------------------------------------------------
VARIABLES
    stage,         \* "new", "extended" or "started"
    agentsFile,    \* AGENTS.md
    todo,          \* the summary of the todo list, or NoText
    toolSchemas,   \* the tools that are registered
    sandbox,       \* what the runtime says of its sandbox
    skillRequest, activeSkills, announced, mcpContext,
    frozen,        \* what initialize read
    compactSlot,   \* the latest compaction
    messages,      \* the history
    requests,      \* the requests assembled
    moves          \* changes of the world

contextVars == <<stage, agentsFile, todo, toolSchemas, sandbox, skillRequest, activeSkills,
                 announced, mcpContext, frozen, compactSlot, messages, requests, moves>>

world == <<agentsFile, todo, toolSchemas, sandbox, moves>>
extended == <<skillRequest, activeSkills, announced, mcpContext>>

\* loadRootAgentsMd: a missing file or a directory is no instructions, a failing
\* read is an error.
LoadRootAgentsMd ==
    CASE agentsFile.kind = "file" ->
            [status |-> IF agentsFile.bytes = 0 THEN "empty"
                        ELSE IF agentsFile.bytes > MaxAgentsBytes THEN "truncated" ELSE "included",
             text |-> agentsFile.text]
      [] agentsFile.kind = "unreadable" -> [status |-> "error", text |-> NoText]
      [] OTHER -> [status |-> "missing", text |-> NoText]

\* Messages that are not part of the history.
Only(condition, message) == IF condition THEN <<message>> ELSE <<>>

Prefix(c) ==
    <<[about |-> "runtime_facts", text |-> c.facts]>>
      \o Only(c.agents.status \in {"included", "truncated"},
              [about |-> "project_instructions", text |-> c.agents.text])
      \o Only(c.skills # <<>>, [about |-> "skills_slot", text |-> c.skills])
      \o Only(c.mcp # NoText, [about |-> "mcp_slot", text |-> c.mcp])

DynamicTail == Only(todo # NoText, [about |-> "todo_slot", text |-> todo])

\* buildSources; the three reserved slots are always empty.
ContextSources(c, history) ==
    [runtime_facts |-> "included",
     project_instructions |-> c.agents.status,
     todo_slot |-> IF todo = NoText THEN "empty" ELSE "included",
     skills_slot |-> CASE c.skills = <<>> -> "empty"
                       [] \E i \in DOMAIN c.skills : c.skills[i].truncated -> "truncated"
                       [] OTHER -> "included",
     mcp_slot |-> IF c.mcp # NoText /\ c.mcp.tools # {} THEN "included" ELSE "empty",
     compact_slot |-> IF compactSlot = 0 THEN "empty" ELSE "included",
     history_projection |-> IF history = <<>> THEN "empty" ELSE "included",
     tool_schemas |-> IF toolSchemas = {} THEN "empty" ELSE "included"]

Snipped(i) ==
    /\ messages[i].role = "tool"
    /\ i <= Len(messages) - RecentMessages
    /\ messages[i].bytes > IF messages[i].error THEN SnipErrorBytes ELSE SnipBytes

ProjectedHistory ==
    [i \in DOMAIN messages |-> [message |-> messages[i], snipped |-> Snipped(i)]]

-----------------------------------------------------------------------------
\* initializeExtensions; the tools of the servers are registered.
InitializeExtensions ==
    /\ stage = "new" /\ stage' = "extended"
    /\ activeSkills' = Active(Loaded(skillRequest.dirs), skillRequest.enabled)
    /\ announced' = Announced(skillRequest, activeSkills')
    /\ \E m \in McpContexts :
          /\ mcpContext' = m
          /\ toolSchemas' = IF m = NoText THEN toolSchemas ELSE toolSchemas \union m.tools
    /\ UNCHANGED <<agentsFile, todo, sandbox, moves, skillRequest, frozen, compactSlot, messages,
                   requests>>

\* Everything is read once, and context.session tells of it.
Initialize ==
    /\ stage = "extended" /\ stage' = "started"
    /\ frozen' = [agents |-> LoadRootAgentsMd, facts |-> sandbox, skills |-> activeSkills,
                  mcp |-> mcpContext, tools |-> toolSchemas]
    /\ UNCHANGED <<world, extended, compactSlot, messages, requests>>

\* Wrong: AGENTS.md is read again for each step.
AssembleFromDisk ==
    /\ stage = "started" /\ Len(requests) < MaxRequests
    /\ LET c == [frozen EXCEPT !.agents = LoadRootAgentsMd] IN
       requests' = Append(requests,
           [prefix |-> Prefix(c), history |-> ProjectedHistory, tail |-> DynamicTail,
            tools |-> toolSchemas, toolSchemaChanged |-> toolSchemas # frozen.tools,
            sources |-> ContextSources(frozen, messages), compactions |-> compactSlot])
    /\ UNCHANGED <<stage, world, extended, frozen, compactSlot, messages>>

AssembleStep ==
    /\ stage = "started" /\ Len(requests) < MaxRequests
    /\ requests' = Append(requests,
           [prefix |-> Prefix(frozen), history |-> ProjectedHistory, tail |-> DynamicTail,
            tools |-> toolSchemas, toolSchemaChanged |-> toolSchemas # frozen.tools,
            sources |-> ContextSources(frozen, messages), compactions |-> compactSlot])
    /\ UNCHANGED <<stage, world, extended, frozen, compactSlot, messages>>

Grow ==
    /\ stage = "started" /\ Len(messages) < MaxContextHistory /\ Len(requests) < MaxRequests
    /\ \E role \in {"user", "assistant", "tool"}, bytes \in Sizes, error \in BOOLEAN :
          /\ (messages = <<>>) = (role = "user")
          /\ error => role = "tool"
          /\ role # "tool" => bytes = 0
          /\ messages' = Append(messages, [role |-> role, bytes |-> bytes, error |-> error])
    /\ UNCHANGED <<stage, world, extended, frozen, compactSlot, requests>>

\* The summary and the tail that begins with a group.
Compact ==
    /\ stage = "started" /\ Len(requests) < MaxRequests
    /\ Summarized(messages, RecentMessages) # <<>> /\ compactSlot = 0
    /\ messages' = <<[role |-> "user", bytes |-> 0, error |-> FALSE]>>
                     \o KeptTail(messages, RecentMessages)
    /\ compactSlot' = compactSlot + 1
    /\ UNCHANGED <<stage, world, extended, frozen, requests>>

\* The tools of the session and its user.
WorldMoves ==
    /\ moves < MaxMoves /\ moves' = moves + 1 /\ Len(requests) < MaxRequests
    /\ \/ agentsFile' \in AgentsMds /\ UNCHANGED <<todo, sandbox, toolSchemas>>
       \/ todo' \in Todos \union {NoText} /\ UNCHANGED <<agentsFile, sandbox, toolSchemas>>
       \/ sandbox' = "settled" /\ UNCHANGED <<agentsFile, todo, toolSchemas>>
    /\ UNCHANGED <<stage, extended, frozen, compactSlot, messages, requests>>

ContextInit ==
    /\ stage = "new" /\ todo = NoText /\ toolSchemas = {NoText} /\ sandbox = "not_initialized"
    /\ activeSkills = <<>> /\ announced = <<>> /\ mcpContext = NoText /\ frozen = NoText
    /\ compactSlot = 0 /\ messages = <<>> /\ requests = <<>> /\ moves = 0
    /\ agentsFile \in AgentsMds /\ skillRequest \in SkillRequests

ContextNext ==
    \/ InitializeExtensions \/ Initialize \/ AssembleStep \/ Grow \/ Compact \/ WorldMoves

ContextSpec == ContextInit /\ [][ContextNext]_contextVars

-----------------------------------------------------------------------------
\* What a provider has once been sent stays as it was, whatever has changed on
\* disk or in the session: the prefix, and up to a compaction every message but
\* the recent ones, so that its cache of the prompt serves the next step
\* (ContextAssembler.ts:111-227, messageProjection.ts:33-102, 148-158).
SentStaysSent(r, s) ==
    /\ s.prefix = r.prefix
    /\ s.compactions = r.compactions =>
          /\ Len(r.history) <= Len(s.history)
          /\ \A i \in 1 .. Len(r.history) - RecentMessages : s.history[i] = r.history[i]

\* The sources say of each extra message whether it is sent; only a list of MCP
\* servers of which none has a tool is sent as an empty source
\* (ContextAssembler.ts:241-269, 404-439).
SourcesAreTrue(r) ==
    LET sent == {(r.prefix \o r.tail)[i].about : i \in DOMAIN (r.prefix \o r.tail)}
        kinds == {"runtime_facts", "project_instructions", "todo_slot", "skills_slot", "mcp_slot"}
    IN  \A k \in kinds :
            \/ (k \in sent) = (r.sources[k] \in {"included", "truncated"})
            \/ k = "mcp_slot" /\ frozen.mcp.tools = {}

AddBytes(n, s) == n + s.bytes
Used(skills) == FoldLeft(AddBytes, 0, skills)

\* A skill that was asked for is in the prefix and announced with the bytes that
\* are sent, or announced as not found, or the skills before it have used up the
\* cap.  The marker of the skill that is cut may exceed it
\* (AgentSession.ts:345-375, skills.ts:57-84, 136-160).
SkillsAreAnnounced ==
    LET active == {[name |-> s.dir, bytes |-> s.bytes] : s \in ToSet(activeSkills)}
        told(type) == {[name |-> e.name, bytes |-> e.bytes] :
                          e \in {x \in ToSet(announced) : x.type = type}}
        used == Used(activeSkills)
    IN  /\ told("activated") \subseteq active
        /\ used <= MaxTotalBytes + Marker
        /\ \A i \in DOMAIN skillRequest.enabled :
              LET s == Found(Loaded(skillRequest.dirs), skillRequest.enabled[i]) IN
              IF s = NoText
              THEN \E e \in told("skipped") : e.name = skillRequest.enabled[i]
              ELSE (\E t \in active : t.name = s.dir) \/ used >= MaxTotalBytes

RequestsAreStable ==
    /\ stage # "new" => SkillsAreAnnounced
    /\ \A i \in DOMAIN requests :
          /\ SourcesAreTrue(requests[i])
          /\ requests[i].toolSchemaChanged = (requests[i].tools # frozen.tools)
          /\ \A j \in DOMAIN requests : i < j => SentStaysSent(requests[i], requests[j])
===============================================================================
