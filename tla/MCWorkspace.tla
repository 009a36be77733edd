------------------------------ MODULE MCWorkspace ------------------------------
(***************************************************************************)
(* The tools that work on the workspace, one of them at a time: shell      *)
(* commands, changes of files, searches, the state of the repository,      *)
(* texts to edit, and the store of large results.                          *)
(***************************************************************************)
EXTENDS FileEdits, Shell, Search, GitFeedback, Artifacts, EditText

\* Two turns with a command each, and three directories, one of them outside.
CONSTANTS c1, c2, top, sub, out

MCCommands == {c1, c2}
MCTurnOf == [c \in MCCommands |-> IF c = c1 THEN 1 ELSE 2]
MCDirs == {top, sub, out}
MCInside == {top, sub}

VARIABLE part

-------------------------------------------------------------------------------
(* Two files, of two lines at most at first, and three calls.               *)
Upd(f, old, new) == [type |-> "update", file |-> f, hunks |-> <<[old |-> old, new |-> new]>>]
Upd2(f, a, b, c) ==
    [type |-> "update", file |-> f,
     hunks |-> <<[old |-> a, new |-> b], [old |-> b, new |-> c]>>]
Add(f, t) == [type |-> "add", file |-> f, text |-> t]
Del(f) == [type |-> "delete", file |-> f]
Write(f, t, o) == [type |-> "write", file |-> f, text |-> t, overwrite |-> o]
Read(f) == [type |-> "read", file |-> f]

MCFiles == {"p", "q"}
MCLines == {"x", "y", "z"}
X == <<"x">>
Y == <<"y">>
MCStarts ==
    {[f \in MCFiles |-> IF f = "p" THEN X ELSE q] : q \in {Missing, <<"x", "y">>}}
        \union {[f \in MCFiles |-> IF f = "p" THEN <<"x", "x">> ELSE Y]}

Changes ==
    { <<Upd("p", X, Y)>>, <<Upd("p", Y, X)>>,
      <<Write("p", X, TRUE)>>, <<Write("q", Y, FALSE)>>,
      <<Upd("p", X, Y), Upd("p", Y, <<"z">>)>>,
      <<Upd2("q", X, <<"z">>, <<>>), Upd("p", X, Y)>>,
      <<Upd("p", X, Y), Del("p"), Add("q", X)>>,
      <<Upd("q", X, <<"z">>), Upd("q", Y, X)>>,
      <<Del("q"), Del("p")>>,
      <<Upd("p", X, Y), Add("q", Y), Upd("q", Y, X)>>,
      <<Del("p"), Add("p", X)>>,
      <<Add("q", X), Upd("p", X, Y), Add("q", Y)>> }
MCJobs ==
    << Changes \union {<<Read("p")>>},
       { <<Read("p")>>, <<Upd("p", X, Y)>>, <<Upd("p", Y, X)>>,
         <<Del("p"), Del("q")>>,
         <<Upd("p", X, Y), Add("q", Y)>> },
       { <<Read("p")>>, <<Upd("p", Y, X)>> } >>

-------------------------------------------------------------------------------
(* The tree that is searched, the repository, and the texts.               *)

\* A tree with links, two directories that are not entered and one below "F".
TreeFiles == {<<<<"a">>>>, <<<<"a", "b">>>>, <<<<"b">>, <<"a">>>>, <<<<"b">>, <<"N">>, <<"a">>>>, <<<<"N">>, <<"b">>>>,
              <<<<"F">>, <<"R">>, <<"a">>>>, <<<<"b">>, <<"F">>, <<"b">>>>, <<<<"b">>, <<"R">>, <<"a", "b">>>>}
TreeDirs == {<<<<"b">>>>, <<<<"b">>, <<"N">>>>, <<<<"N">>>>, <<<<"F">>>>, <<<<"F">>, <<"R">>>>,
             <<<<"b">>, <<"F">>>>, <<<<"b">>, <<"R">>>>}
MCTree == [p \in TreeFiles \cup TreeDirs \cup {<<<<"b">>, <<"b">>>>} |->
              IF p \in TreeFiles THEN "file" ELSE IF p \in TreeDirs THEN "dir" ELSE "link"]
MCIgnored == {<<"N">>}
MCReferences == {<<"F">>}
MCRepos == <<"R">>

Change(x, y, p, o) == [x |-> x, y |-> y, path |-> p, old |-> o]
MCRepositories ==
    { <<>>,
      <<Change("M", " ", "p", NoPath), Change("?", "?", "q", NoPath)>>,
      <<Change("R", "M", "p", "s"), Change(" ", "M", "q", NoPath)>>,
      <<Change("C", " ", "q", "p"), Change(" ", "M", "s", NoPath)>>,
      <<Change("M", " ", "p", NoPath), Change("A", "M", "q", NoPath), Change("!", "!", "r", NoPath)>> }
MCPaths == <<"p", "q", "r", "s">>
MCPatchBytes == [p \in {"p", "q", "r", "s", NoPath} |-> IF p \in {"p", "q"} THEN 2 ELSE 0]

MCSafeText == [i \in {"a", "a.", "b"} |-> IF i = "b" THEN "b" ELSE "a"]
MCWorkspaceDir == <<"w">>
MCArtifactDirs == {<<<<"w", "t">>, <<"tmp">>>>, <<<<"w", "..t">>>>, <<<<"w">>, <<"w", "u">>>>}

-------------------------------------------------------------------------------
ShellParked == mode = "off" /\ finds = "nothing" /\ Init
FilesParked == files = (CHOOSE s \in Starts : TRUE) /\ EditsInit
SearchParked == search = [tool |-> "glob", pattern |-> <<>>, root |-> <<>>, max |-> 1]
GitParked == repository = <<>> /\ GitInit
ArtifactsParked == candidates = <<<<"w", "..t">>>> /\ ArtifactsInit
EditTextParked == edit = [text |-> <<>>, old |-> <<"x">>, new |-> <<>>]

WInit ==
    /\ part \in {"shell", "files", "search", "git", "artifacts", "edit"}
    /\ IF part = "shell" THEN Init ELSE ShellParked
    /\ IF part = "files" THEN EditsInit ELSE FilesParked
    /\ IF part = "search" THEN SearchInit ELSE SearchParked
    /\ IF part = "git" THEN GitInit ELSE GitParked
    /\ IF part = "artifacts" THEN ArtifactsInit ELSE ArtifactsParked
    /\ IF part = "edit" THEN EditTextInit ELSE EditTextParked

WNext ==
    /\ part' = part
    /\ \/ /\ part = "shell" /\ Next
          /\ UNCHANGED <<editVars, search, gitVars, artifactVars, edit>>
       \/ /\ part = "files" /\ EditsNext
          /\ UNCHANGED <<vars, search, gitVars, artifactVars, edit>>
       \/ /\ part = "search" /\ SearchNext
          /\ UNCHANGED <<vars, editVars, gitVars, artifactVars, edit>>
       \/ /\ part = "git" /\ GitNext
          /\ UNCHANGED <<vars, editVars, search, artifactVars, edit>>
       \/ /\ part = "artifacts" /\ ArtifactsNext
          /\ UNCHANGED <<vars, editVars, search, gitVars, edit>>
       \/ /\ part = "edit" /\ EditTextNext
          /\ UNCHANGED <<vars, editVars, search, gitVars, artifactVars>>

\* The fairness of FairSpec.
WSpec ==
    /\ WInit /\ [][WNext]_<<part, vars, editVars, search, gitVars, artifactVars, edit>>
    /\ WF_vars(Initialized)
    /\ \A c \in Commands : WF_vars(Step(c)) /\ WF_vars(Timeout(c)) /\ WF_vars(ForceKill(c))

\* What a tool tells the model about the workspace is so: a search shows all there is up to its
\* cap, the state of the repository is the one git reported, an edit says what it has replaced, and
\* a large result is found where its event says.
ToolOutputIsTrue ==
    /\ SearchShowsAll
    /\ FeedbackIsTrue
    /\ EditReplacesTheOne
    /\ ArtifactsKeepTheirContent
===============================================================================
