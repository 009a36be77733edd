------------------------------- MODULE Artifacts -------------------------------
(***************************************************************************)
(* The store of large tool results (context/toolArtifacts.ts), used by the *)
(* calls of a batch at once: where the directory is, how a file is named,  *)
(* and in which order it is written and logged, over crashes and resumes   *)
(* of the session.  A content stands for a text above the threshold.       *)
(***************************************************************************)
EXTENDS Integers, Sequences, FiniteSets, SequencesExt

CONSTANTS
    CallIds,        \* ids of tool calls, which providers may use again
    SafeText,       \* [CallIds -> ...]: an id with its unsafe characters replaced
    Workspace,      \* the path of the workspace
    ArtifactDirs,   \* what defaultArtifactDir looks through, in order: sequences of paths
    UpNames,        \* names that begin with ".."
    MaxArtifacts,   \* bound: contents
    MaxLives,       \* bound: lives of the session
    MaxLosses       \* bound: writes that fail

ASSUME ArtifactsAssumption == {MaxArtifacts, MaxLives, MaxLosses} \subseteq Nat

VARIABLES
    candidates,     \* the directories looked through
    artifactDir,    \* the one chosen, "none" if the session cannot start
    nextArtifact,   \* nextArtifact of the store
    saving,         \* calls of persist under way: [name, id, content, stage]
    stored,         \* the files: name |-> content
    artifactLog,    \* the tool.artifact events: [name, content, life]
    contents,       \* contents so far
    life,           \* lives so far
    losses,
    issued          \* names given out: <<name, life>> (for the properties)

artifactVars ==
    <<candidates, artifactDir, nextArtifact, saving, stored, artifactLog, contents, life, losses, issued>>

\* isInside(): what relative() says does not begin with two dots.
IsInside(path, root) ==
    /\ IsPrefix(root, path)
    /\ path = root \/ path[Len(root) + 1] \notin UpNames

DefaultArtifactDir(dirs) ==
    LET outside == SelectSeq(dirs, LAMBDA d : ~IsInside(d, Workspace))
    IN  IF outside = <<>> THEN <<"none">> ELSE outside[1]

\* Wrong: named by the call alone.
NameOfCall(id) == <<0, SafeText[id]>>

NextId(id) == <<nextArtifact + 1, SafeText[id]>>

ArtifactsInit ==
    /\ candidates \in ArtifactDirs
    /\ artifactDir = DefaultArtifactDir(candidates)
    /\ nextArtifact = 0
    /\ saving = {}
    /\ stored = <<>>
    /\ artifactLog = <<>>
    /\ contents = 0
    /\ life = 1
    /\ losses = 0
    /\ issued = {}

\* persist(), to its first await: of the calls that run at once each has an id of its own.
Persist(id) ==
    /\ artifactDir # <<"none">>
    /\ contents < MaxArtifacts
    /\ \A s \in saving : s.id # id
    /\ contents' = contents + 1
    /\ nextArtifact' = nextArtifact + 1
    /\ saving' = saving \cup {[name |-> NextId(id), id |-> id, content |-> contents', stage |-> "write"]}
    /\ issued' = issued \cup {<<NextId(id), life>>}
    /\ UNCHANGED <<candidates, artifactDir, stored, artifactLog, life, losses>>

WriteArtifact(s) ==
    /\ s.stage = "write"
    /\ stored' = [n \in DOMAIN stored \cup {s.name} |-> IF n = s.name THEN s.content ELSE stored[n]]
    /\ saving' = (saving \ {s}) \cup {[s EXCEPT !.stage = "log"]}
    /\ UNCHANGED <<candidates, artifactDir, nextArtifact, artifactLog, contents, life, losses, issued>>

LogArtifact(s) ==
    /\ s.stage = "log"
    /\ artifactLog' = Append(artifactLog, [name |-> s.name, content |-> s.content, life |-> life])
    /\ saving' = saving \ {s}
    /\ UNCHANGED <<candidates, artifactDir, nextArtifact, stored, contents, life, losses, issued>>

\* Either write may fail: the call answers with an error, or the turn ends.
SavingFails(s) ==
    /\ losses < MaxLosses
    /\ losses' = losses + 1
    /\ saving' = saving \ {s}
    /\ UNCHANGED <<candidates, artifactDir, nextArtifact, stored, artifactLog, contents, life, issued>>

\* The session stops wherever it is, and is resumed with the same transcript and so the same directory.
ResumeStore ==
    /\ life < MaxLives /\ artifactDir # <<"none">>
    /\ life' = life + 1
    /\ nextArtifact' = 0
    /\ saving' = {}
    /\ UNCHANGED <<candidates, artifactDir, stored, artifactLog, contents, losses, issued>>

ArtifactsNext ==
    \/ \E id \in CallIds : Persist(id)
    \/ \E s \in saving : WriteArtifact(s) \/ LogArtifact(s) \/ SavingFails(s)
    \/ ResumeStore

ArtifactsSpec == ArtifactsInit /\ [][ArtifactsNext]_artifactVars

-------------------------------------------------------------------------------
\* The file an event of the log names holds the content the event is about, whatever calls run at
\* once, fail or repeat an id, unless a later life of the session has given out the same name; and
\* it is not in the workspace, unless in a directory whose name begins with two dots.
ArtifactsKeepTheirContent ==
    /\ \A i \in DOMAIN artifactLog :
         LET e == artifactLog[i]
         IN  \/ e.name \in DOMAIN stored /\ stored[e.name] = e.content
             \/ \E later \in (e.life + 1)..life : <<e.name, later>> \in issued
    /\ artifactDir # <<"none">> =>
         \/ ~IsPrefix(Workspace, artifactDir)
         \/ Len(artifactDir) > Len(Workspace) /\ artifactDir[Len(Workspace) + 1] \in UpNames
===============================================================================
