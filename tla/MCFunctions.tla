------------------------------ MODULE MCFunctions ------------------------------
(***************************************************************************)
(* What decides without waiting for anyone, one of it at a time: histories, *)
(* logs and the abstract conversation, the stream of a provider's answer,  *)
(* permissions, paths, the context of a request, and the settings.         *)
(***************************************************************************)
EXTENDS Histories, StreamStep, Permissions, PathBoundary, Context, Settings, TLC

CONSTANT MaxHistory  \* bound: messages in a conversation

VARIABLE part

\* Two calls, answers without calls, with one, with both and with one twice; two
\* turns of one step, answers with no, one and two calls.
Call1 == <<1, 1>>
Call2 == <<1, 2>>
FewChoices == {<<>>, <<Call1>>, <<Call2>>, <<Call1, Call2>>, <<Call1, Call1>>}
TwoCalls == {Call1, Call2}
TwoTurns == {1, 2}
OneStep == {1}
UpToTwo == 0..2
FewIds == 1..3

\* A whole answer with two calls in pieces, an error and one that is cut off.
Delta(t, pieces) == [kind |-> "delta", text |-> t, calls |-> pieces]
Part(i, id, args) == [index |-> i, id |-> id, arguments |-> args]
MCStreamed == {[events |-> v, ends |-> e] : e \in {"lf", "crlf"}, v \in {
    <<Delta("a", <<>>), Delta("", <<Part(1, "x", <<"d">>), Part(0, Nil, <<"e">>)>>), [kind |-> "junk"],
      Delta("b", <<Part(1, Nil, <<"f">>)>>), [kind |-> "usage"], [kind |-> "done"], Delta("c", <<>>)>>,
    <<Delta("a", <<>>), [kind |-> "error"], Delta("b", <<>>)>>,
    <<Delta("a", <<Part(0, "x", <<"d">>)>>)>>}}

MCToolNames ==
    [bash |-> [readOnly |-> FALSE, mcp |-> FALSE], read |-> [readOnly |-> TRUE, mcp |-> FALSE],
     edit |-> [readOnly |-> FALSE, mcp |-> FALSE], ask |-> [readOnly |-> FALSE, mcp |-> TRUE],
     look |-> [readOnly |-> TRUE, mcp |-> TRUE]]

\* A workspace "w" with links inward, outward, to nothing, to itself and to a
\* sensitive file.
Directory == [kind |-> "dir"]
File == [kind |-> "file"]
Link(path) == [kind |-> "link", target |-> path]
MCRoot == <<"w">>
MCFileTree ==
    (<<"w">> :> Directory) @@ (<<"o">> :> Directory) @@ (<<"o", "f">> :> File) @@
    (<<"w", "d">> :> Directory) @@ (<<"w", "d", "f">> :> File) @@ (<<"w", "in">> :> Link(<<"w", "d">>)) @@
    (<<"w", "out">> :> Link(<<"o">>)) @@ (<<"w", "gone">> :> Link(<<"o", "new">>)) @@
    (<<"w", "loop">> :> Link(<<"w", "loop">>)) @@ (<<"w", ".env">> :> File) @@
    (<<"w", "alias">> :> Link(<<"w", ".env">>))

\* Two skills whose names differ by case only, and one without a file.
MCSkillFiles == [d \in {"da", "db", "dc"} |->
    CASE d = "da" -> [name |-> "Fix", bytes |-> 5] [] d = "db" -> [name |-> "fix", bytes |-> 9]
      [] OTHER -> NoText]
MCSkillRequests == {[dirs |-> ds, enabled |-> e] :
    ds \in {<<"da", "db">>, <<"dc", "da">>},
    e \in {<<>>, <<"Fix">>, <<"FIX", "db">>, <<"no", "da", "fix">>, <<"db", "da">>}}
MCLower == [n \in {"Fix", "fix", "FIX", "da", "db", "no"} |-> IF n \in {"Fix", "FIX"} THEN "fix" ELSE n]
NoAgents == [kind |-> "none", text |-> NoText, bytes |-> 0]
MCAgentsMds ==
    {NoAgents, [kind |-> "unreadable", text |-> NoText, bytes |-> 0],
     [kind |-> "file", text |-> "t1", bytes |-> 1], [kind |-> "file", text |-> "t2", bytes |-> 9],
     [kind |-> "file", text |-> NoText, bytes |-> 0]}
MCMcpContexts == {NoText, [tools |-> {}], [tools |-> {"mcp"}]}

\* What a source of a setting may hold: of the right type or not, in range or not.
Texts ==
    {[type |-> "string", ok |-> o, empty |-> FALSE, value |-> "a"] : o \in BOOLEAN}
      \union {[type |-> "string", ok |-> FALSE, empty |-> TRUE, value |-> "none"]}
OfType(t) == {[type |-> t, ok |-> o, empty |-> FALSE, value |-> "b"] : o \in BOOLEAN}
MCRawValues == [k \in Kinds |-> Texts \union
    (CASE k = "list" -> OfType("array") [] k \in {"switch", "profile"} -> OfType("boolean")
       [] OTHER -> OfType("number"))]
Server(named) == [named |-> named, typed |-> TRUE]
MCMcpFiles == {[shape |-> s, entries |-> e] :
    s \in {"array", "mcpServers", "servers", "other"},
    e \in {<<>>, <<Server(TRUE)>>, <<Server(TRUE), Server(FALSE)>>}}

-------------------------------------------------------------------------------
HistoriesRest == sample = <<>> /\ lines = <<>> /\ exchanges = <<>>
StreamRests == answer = (CHOOSE s \in Streamed : TRUE) /\ StreamInit
PathsRest == asked = [absolute |-> FALSE, names |-> <<>>]
ContextRests ==
    /\ skillRequest = CHOOSE r \in SkillRequests : r.enabled = <<>>
    /\ agentsFile = NoAgents /\ mcpContext = NoText /\ ContextInit
SettingsRest ==
    lookedAt = [kind |-> "number", raws |-> [s \in Sources |-> Absent]] /\ cliWords = <<>>

FInit ==
    /\ part \in {"histories", "stream", "permissions", "paths", "context", "settings"}
    /\ HistoriesRest
    /\ IF part = "stream" THEN StreamInit ELSE StreamRests
    /\ PermissionsInit
    /\ IF part = "paths" THEN BoundaryInit ELSE PathsRest
    /\ IF part = "context"
       THEN ContextInit /\ (Len(skillRequest.enabled) = 1 \/ agentsFile = NoAgents)
       ELSE ContextRests
    /\ IF part = "settings" THEN SettingsInit ELSE SettingsRest

histories == <<sample, lines, exchanges>>

FNext ==
    /\ part' = part
    /\ \/ /\ part = "histories"
          /\ \/ lines = <<>> /\ exchanges = <<>> /\ HNext /\ UNCHANGED <<lines, exchanges>>
             \/ sample = <<>> /\ exchanges = <<>> /\ LogsNext /\ UNCHANGED <<sample, exchanges>>
             \/ sample = <<>> /\ lines = <<>> /\ CNext /\ Len(exchanges') <= MaxHistory
                /\ UNCHANGED <<sample, lines>>
          /\ UNCHANGED <<streamVars, typed, asked, contextVars, settingsVars>>
       \/ /\ part = "stream" /\ StreamNext
          /\ UNCHANGED <<histories, typed, asked, contextVars, settingsVars>>
       \/ /\ part = "permissions" /\ PermissionsNext
          /\ UNCHANGED <<histories, streamVars, asked, contextVars, settingsVars>>
       \/ /\ part = "paths" /\ BoundaryNext
          /\ UNCHANGED <<histories, streamVars, typed, contextVars, settingsVars>>
       \/ /\ part = "context" /\ ContextNext
          /\ UNCHANGED <<histories, streamVars, typed, asked, settingsVars>>
       \/ /\ part = "settings" /\ SettingsNext
          /\ UNCHANGED <<histories, streamVars, typed, asked, contextVars>>

FSpec == FInit /\ [][FNext]_<<part, histories, streamVars, typed, asked, contextVars, settingsVars>>

-------------------------------------------------------------------------------
\* A call is judged by what it does: the order of the modes and the meaning of a
\* command hold for every call, and every path the tools accept is one of the
\* workspace (policy.ts, shellPolicy.ts, pathBoundary.ts).
CallsAreJudged == PermissionsAreOrdered /\ PathsStayInside
===============================================================================
