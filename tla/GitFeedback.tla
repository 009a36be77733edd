----------------------------- MODULE GitFeedback -----------------------------
(***************************************************************************)
(* The tool that reports the state of the repository                       *)
(* (tools/builtins/gitFeedback.ts): one git process to find the root, five *)
(* side by side for branch, head, status and statistics, then one for each *)
(* changed file until the preview is full.                                 *)
(*                                                                         *)
(* A git process ends well, ends badly, or is killed by its timer or by    *)
(* the abort of the turn; one begun after the abort runs on, since a       *)
(* listener on an aborted signal is never called.  Meanwhile the           *)
(* repository may change.  Outputs stay below the cap of their buffers;    *)
(* branch, head and statistics are told apart only by how they end.        *)
(***************************************************************************)
EXTENDS Integers, Sequences, FiniteSets, SequencesExt

CONSTANTS
    Repositories,   \* the states of the repository: sequences of changes
                    \* [x, y, path, old], as git status lists them
    NoRepository,   \* the workspace is in none
    Withheld,       \* paths whose patches are not shown
    PatchBytes,     \* how long the patch of each path is
    PreviewBytes,   \* diffPreviewBytes, of which the titles take nothing here
    PreviewFiles,   \* previewFileCap
    NoPath,         \* the change has no old path
    Paths,          \* the paths there are, in their sorting order
    MaxMoves        \* bound: changes of the repository, and processes that end badly by themselves

VARIABLES
    repository,     \* what there is
    gitStage,       \* "root", "facts", "preview", "done"
    processes,      \* the git processes running: [what, reached]; reached: not begun aborted
    status,         \* the StatusSnapshot parsed, once there is one
    previews,       \* files whose diff is still to be shown: [staged, path]
    chunks,         \* shown so far: [staged, path, what, bytes]
    feedback,       \* what the tool says: [code, cut]
    interrupted,    \* ctx.signal.aborted
    gitMoves,
    listed,         \* the changes when status ran (for the properties)
    badly           \* processes that ended badly, "other" if the repository changed (for the properties)

gitVars == <<repository, gitStage, processes, status, previews, chunks, feedback,
             interrupted, gitMoves, listed, badly>>

SideBySide == {"branch", "head", "status", "unstaged stat", "staged stat"}
Nothing == [staged |-> {}, unstaged |-> {}, untracked |-> {}, redacted |-> {}]

\* git(): a process begun after the abort never hears of it.
Begun(whats) == {[what |-> w, reached |-> ~interrupted] : w \in whats}

GitInit ==
    /\ repository \in Repositories \cup {NoRepository}
    /\ gitStage = "root"
    /\ processes = {[what |-> "root", reached |-> TRUE]}
    /\ status = Nothing
    /\ previews = <<>>
    /\ chunks = <<>>
    /\ feedback = [code |-> "none", cut |-> "none"]
    /\ interrupted = FALSE
    /\ gitMoves = 0
    /\ listed = <<>>
    /\ badly = {}

-------------------------------------------------------------------------------
(* parsePorcelainStatus                                                     *)

\* external: git status --porcelain=v1 -z, where a rename or a copy in the index
\* is followed by a field of its own, the old path
Porcelain(changes) ==
    FlattenSeq([i \in DOMAIN changes |->
        <<[x |-> changes[i].x, y |-> changes[i].y, path |-> changes[i].path]>>
          \o (IF changes[i].x \in {"R", "C"} THEN <<[old |-> changes[i].old]>> ELSE <<>>)])

IsOld(field) == "old" \in DOMAIN field

\* One record, and the old path read ahead of it.
TakeChange(s, record, old) ==
    IF record.x = "?" THEN [s EXCEPT !.untracked = @ \cup {record.path}]
    ELSE IF record.x = "!" THEN s
    ELSE [s EXCEPT
            !.staged = IF record.x # " " THEN @ \cup {record.path} ELSE @,
            !.unstaged = IF record.y # " " THEN @ \cup {record.path} ELSE @,
            !.redacted = IF {record.path, old} \cap Withheld # {} THEN @ \cup {record.path} ELSE @]

\* The fields in order. One that follows a record of these codes is its old path
\* and is skipped; an old path taken for a record is a change of nothing.
ParseFields(fields, codes) ==
    LET Old(i) == IF fields[i].x \in codes THEN fields[i + 1].old ELSE NoPath
        Skipped(i) == fields[i - 1].x \in codes
        from[i \in 0..Len(fields)] ==
            IF i = 0 THEN Nothing
            ELSE IF ~IsOld(fields[i]) THEN TakeChange(from[i - 1], fields[i], Old(i))
            ELSE IF Skipped(i) THEN from[i - 1]
            ELSE TakeChange(from[i - 1], [x |-> "M", y |-> "M", path |-> NoPath], NoPath)
    IN  from[Len(fields)]

\* Wrong: a copy is not known to name two paths.
ParseRenamesOnly(fields) == ParseFields(fields, {"R"})

ParsePorcelainStatus(fields) == ParseFields(fields, {"R", "C"})

\* The staged files first, each list sorted.
ToPreview(s) ==
    LET Sorted(staged, files) ==
            LET list == SelectSeq(Paths, LAMBDA p : p \in files)
            IN  [i \in DOMAIN list |-> [staged |-> staged, path |-> list[i]]]
    IN  Sorted(TRUE, s.staged) \o Sorted(FALSE, s.unstaged)

-------------------------------------------------------------------------------
(* collectGitFeedback                                                       *)

Answer(code, cut) ==
    /\ gitStage' = "done"
    /\ feedback' = [code |-> code, cut |-> cut]

\* How a process ends decides whether the tool goes on; facts other than the
\* status are reported however they end.
RootEnds(well) ==
    IF well
    THEN /\ gitStage' = "facts"
         /\ processes' = Begun(SideBySide)
         /\ UNCHANGED <<status, previews, feedback, listed>>
    ELSE /\ Answer("no repository", "none")
         /\ processes' = {}
         /\ UNCHANGED <<status, previews, listed>>

FactEnds(p, well) ==
    /\ processes' = processes \ {p}
    /\ IF p.what = "status" /\ well
       THEN /\ listed' = repository
            /\ status' = ParsePorcelainStatus(Porcelain(repository))
            /\ previews' = ToPreview(ParsePorcelainStatus(Porcelain(repository)))
       ELSE UNCHANGED <<listed, status, previews>>
    /\ IF processes = {p}
       THEN IF "status" \in badly \/ (p.what = "status" /\ ~well)
            THEN Answer("status failed", "none")
            ELSE gitStage' = "preview" /\ UNCHANGED feedback
       ELSE UNCHANGED <<gitStage, feedback>>

Used == FoldLeft(LAMBDA sum, c : sum + c.bytes, 0, chunks)

Show(what, bytes) ==
    chunks' = Append(chunks, [staged |-> Head(previews).staged, path |-> Head(previews).path,
                              what |-> what, bytes |-> bytes])

\* external: git diff of one file as the repository is now, empty without a change
PatchNow(file) ==
    IF \E i \in DOMAIN repository :
          /\ repository[i].path = file.path
          /\ (IF file.staged THEN repository[i].x ELSE repository[i].y) \notin {" ", "?", "!"}
    THEN PatchBytes[file.path] ELSE 0

\* append: what fits of the patch; the preview ends with one that does not.
PatchEnds(well) ==
    LET bytes == PatchNow(Head(previews))
        room == PreviewBytes - Used
    IN  /\ processes' = {}
        /\ previews' = Tail(previews)
        /\ IF ~well THEN Show("unavailable", 0) /\ UNCHANGED <<gitStage, feedback>>
           ELSE IF bytes = 0 THEN UNCHANGED <<chunks, gitStage, feedback>>
           ELSE IF bytes <= room THEN Show("patch", bytes) /\ UNCHANGED <<gitStage, feedback>>
           ELSE /\ IF room > 0 THEN Show("part", room) ELSE UNCHANGED chunks
                /\ Answer("status", "bytes")
        /\ UNCHANGED <<status, listed>>

ProcessEnds(p, well) ==
    /\ \/ p.what = "root" /\ RootEnds(well) /\ UNCHANGED chunks
       \/ p.what \in SideBySide /\ FactEnds(p, well) /\ UNCHANGED chunks
       \/ p.what = "diff" /\ PatchEnds(well)
    /\ badly' = IF well THEN badly ELSE badly \cup {p.what}
    /\ UNCHANGED <<repository, interrupted>>

EndsWell(p) ==
    /\ repository # NoRepository
    /\ ProcessEnds(p, TRUE)
    /\ UNCHANGED gitMoves

\* No repository, the timer, the abort if it reaches the process, or git itself.
EndsBadly(p) ==
    /\ IF repository = NoRepository \/ (interrupted /\ p.reached)
       THEN UNCHANGED gitMoves
       ELSE gitMoves < MaxMoves /\ gitMoves' = gitMoves + 1
    /\ ProcessEnds(p, FALSE)

PreviewedFiles == Len(ToPreview(status)) - Len(previews)

\* Wrong: only the path itself is looked at, not where it was renamed from.
NextFileByPath ==
    /\ gitStage = "preview" /\ processes = {} /\ previews # <<>>
    /\ PreviewedFiles < PreviewFiles
    /\ IF Head(previews).path \in Withheld
       THEN Show("redacted", 0) /\ previews' = Tail(previews) /\ UNCHANGED processes
       ELSE processes' = Begun({"diff"}) /\ UNCHANGED <<chunks, previews>>
    /\ UNCHANGED <<repository, gitStage, status, feedback, interrupted, gitMoves, listed, badly>>

NextFile ==
    /\ gitStage = "preview" /\ processes = {} /\ previews # <<>>
    /\ PreviewedFiles < PreviewFiles
    /\ IF Head(previews).path \in Withheld \cup status.redacted
       THEN Show("redacted", 0) /\ previews' = Tail(previews) /\ UNCHANGED processes
       ELSE processes' = Begun({"diff"}) /\ UNCHANGED <<chunks, previews>>
    /\ UNCHANGED <<repository, gitStage, status, feedback, interrupted, gitMoves, listed, badly>>

EndPreview ==
    /\ gitStage = "preview" /\ processes = {}
    /\ \/ previews = <<>> /\ Answer("status", "none")
       \/ previews # <<>> /\ PreviewedFiles >= PreviewFiles /\ Answer("status", "files")
    /\ UNCHANGED <<repository, processes, status, previews, chunks, interrupted, gitMoves,
                   listed, badly>>

\* The user, another program, an abandoned command.
RepositoryChanges ==
    /\ gitStage # "done"
    /\ repository # NoRepository
    /\ gitMoves < MaxMoves
    /\ gitMoves' = gitMoves + 1
    /\ repository' \in Repositories \ {repository}
    /\ badly' = badly \cup {"other"}
    /\ UNCHANGED <<gitStage, processes, status, previews, chunks, feedback, interrupted, listed>>

TurnAborts ==
    /\ gitStage # "done"
    /\ ~interrupted
    /\ interrupted' = TRUE
    /\ UNCHANGED <<repository, gitStage, processes, status, previews, chunks, feedback,
                   gitMoves, listed, badly>>

GitNext ==
    \/ \E p \in processes : EndsWell(p) \/ EndsBadly(p)
    \/ NextFile \/ EndPreview
    \/ RepositoryChanges \/ TurnAborts

GitSpec == GitInit /\ [][GitNext]_gitVars

-------------------------------------------------------------------------------
(* Properties                                                               *)

Changed(changes) == [
    staged |-> {changes[i].path : i \in {j \in DOMAIN changes : changes[j].x \notin {" ", "?", "!"}}},
    unstaged |-> {changes[i].path : i \in {j \in DOMAIN changes : changes[j].y \notin {" ", "?", "!"}}},
    untracked |-> {changes[i].path : i \in {j \in DOMAIN changes : changes[j].x = "?"}}]

\* Renamed from or to a path whose patches are not shown.
WithheldAt(changes) ==
    {changes[i].path : i \in {j \in DOMAIN changes : {changes[j].path, changes[j].old} \cap Withheld # {}}}

\* The feedback lists exactly the changes there were when status ran, in the
\* lists they belong to; the preview keeps their order and its two bounds, says
\* so when it is cut, shows no patch of a withheld path or of one renamed from
\* it, and is whole when nothing went wrong and nothing changed meanwhile; and
\* only a workspace without a repository, or a git process that did not end
\* well, makes the tool say there is none (gitFeedback.ts:48-250).
FeedbackIsTrue ==
    gitStage = "done" =>
        /\ feedback.code = "no repository" => repository = NoRepository \/ "root" \in badly
        /\ feedback.code = "status" =>
             /\ \A k \in {"staged", "unstaged", "untracked"} : status[k] = Changed(listed)[k]
             /\ LET files == ToPreview(status)
                    Shown(i) == \E c \in ToSet(chunks) :
                                   c.path = files[i].path /\ c.staged = files[i].staged
                IN  /\ Len(chunks) <= PreviewFiles /\ Used <= PreviewBytes
                    /\ \A i \in DOMAIN chunks :
                         /\ chunks[i].what = "part" => i = Len(chunks) /\ feedback.cut = "bytes"
                         /\ chunks[i].what \in {"patch", "part"} => chunks[i].path \notin WithheldAt(listed)
                         /\ \A j \in 1..(i - 1) : chunks[j].staged \/ ~chunks[i].staged
                    /\ badly = {} /\ feedback.cut = "none" =>
                         \A i \in DOMAIN files :
                            Shown(i) \/ PatchBytes[files[i].path] = 0
===============================================================================
