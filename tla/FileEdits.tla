------------------------------- MODULE FileEdits -------------------------------
(***************************************************************************)
(* The tools that change files (tools/builtins/applyPatch.ts, edit.ts,     *)
(* write.ts), the read tool with its cache of repeated reads, and the      *)
(* workspace they reach through AbortAwareWorkspaceFs.                     *)
(*                                                                         *)
(* A file is a sequence of lines named by its real path, and a read is of  *)
(* the whole file.  A call is a sequence of operations: those of a patch,  *)
(* in the order parsePatch finds them, or the single one of edit, write or *)
(* read.  Calls follow one another; one whose turn is aborted is abandoned *)
(* and goes on beside the next ones.                                       *)
(***************************************************************************)
EXTENDS Naturals, Sequences, FiniteSetsExt, SequencesExt

CONSTANTS
    Files,       \* paths
    Lines,       \* what a line may say
    Missing,     \* no file
    Starts,      \* what the files may be at first
    Jobs,        \* what each call may be asked to do
    NCalls,      \* how many calls there are
    MaxMishaps   \* how often something else may change or fail a write

Calls == 1..NCalls
NoOne == 0
Contents == Seq(Lines) \union {Missing}

\* What a call may be asked to do: a patch has operations of three types, any
\* other call has one.
Hunks == Seq([old : Seq(Lines), new : Seq(Lines)])
Operations ==
    [type : {"add"}, file : Files, text : Seq(Lines)]
        \union [type : {"delete"}, file : Files]
        \union [type : {"update"}, file : Files, hunks : Hunks]
Writes == [type : {"write"}, file : Files, text : Seq(Lines), overwrite : BOOLEAN]
Reads == [type : {"read"}, file : Files]

IsJob(j) ==
    /\ j # <<>>
    /\ \/ j \in Seq(Operations)
       \/ j \in Seq(Writes \union Reads) /\ Len(j) = 1

ASSUME FileAssumption ==
    /\ Missing \notin Seq(Lines) /\ Missing \notin [Files -> Contents]
    /\ Starts \subseteq [Files -> Contents]
    /\ \A c \in Calls : \A j \in Jobs[c] : IsJob(j)
    /\ NCalls \in Nat /\ MaxMishaps \in Nat

VARIABLES
    files,       \* the workspace
    cache,       \* readCache: the content of the latest read of each file
    job,         \* what each call is asked to do
    doing,          \* where it is
    rest,        \* operations not yet planned
    plan,        \* planned of applyPatch: the changes to make, in order
    landed,      \* how many of them were made
    cur,         \* the call the turn waits for, or will make next
    abandoned,   \* the calls of aborted turns
    mishaps,
    base,        \* the files when the latest change began (for the properties)
    latest,      \* the call that makes it (for the properties)
    disturbed,   \* something else changed files since (for the properties)
    stub,        \* reads answered by a stub (for the properties)
    seen,        \* what the model was last shown of each file (for the properties)
    lost,        \* files shown in a result that was dropped (for the properties)
    under,       \* the change each aborted call was making (for the properties)
    lateWriters         \* calls that made a later write (for the properties)

callVars == <<job, doing, rest, plan, landed>>
ghostVars == <<base, latest, disturbed, stub, seen, lost, under, lateWriters>>
editVars == <<files, cache, callVars, cur, abandoned, mishaps, ghostVars>>

EditsTypeOK ==
    /\ files \in [Files -> Contents] /\ cache \in [Files -> Contents]
    /\ doing \in [Calls -> {"idle", "planning", "landing", "reading", "done", "failed"}]
    /\ \A c \in Calls : \A i \in DOMAIN plan[c] :
           plan[c][i].file \in Files /\ plan[c][i].after \in Contents
    /\ \A c \in Calls : landed[c] \in 0..Len(plan[c])
    /\ cur \in 1..NCalls + 1 /\ abandoned \subseteq 1..cur - 1
    /\ mishaps \in 0..MaxMishaps
    /\ base \in [Files -> Contents] /\ latest \in Calls \union {NoOne}
    /\ disturbed \in BOOLEAN /\ stub \subseteq Calls
    /\ seen \in [Files -> Contents] /\ lost \subseteq Files
    /\ \A c \in Calls : under[c] \in 0..Len(plan[c])
    /\ lateWriters \subseteq Calls

EditsInit ==
    /\ files \in Starts
    /\ cache = [f \in Files |-> Missing]
    /\ job = [c \in Calls |-> <<>>] /\ doing = [c \in Calls |-> "idle"]
    /\ rest = [c \in Calls |-> <<>>] /\ plan = [c \in Calls |-> <<>>]
    /\ landed = [c \in Calls |-> 0]
    /\ cur = 1 /\ abandoned = {} /\ mishaps = 0
    /\ base = files /\ latest = NoOne /\ disturbed = FALSE
    /\ stub = {} /\ seen = [f \in Files |-> Missing] /\ lost = {}
    /\ under = [c \in Calls |-> 0] /\ lateWriters = {}

-----------------------------------------------------------------------------
(* Texts                                                                     *)

\* Where a text holds the lines old.
At(text, old) ==
    {i \in 1..Len(text) - Len(old) + 1 : SubSeq(text, i, i + Len(old) - 1) = old}

\* countOccurrences(text, old) = 1: it goes on behind each occurrence it finds.
OccursOnce(text, old) ==
    At(text, old) # {} /\ Max(At(text, old)) < Min(At(text, old)) + Len(old)

ReplaceFirst(text, hunk) ==
    LET i == Min(At(text, hunk.old))
    IN  SubSeq(text, 1, i - 1) \o hunk.new
            \o SubSeq(text, i + Len(hunk.old), Len(text))

\* The hunks of an update one after the other, or Missing if one does not fit.
ApplyHunk(text, hunk) ==
    IF text # Missing /\ OccursOnce(text, hunk.old) THEN ReplaceFirst(text, hunk) ELSE Missing
ApplyHunks(text, hunks) == FoldLeft(ApplyHunk, text, hunks)

-----------------------------------------------------------------------------
(* Calls                                                                     *)

IsRead(c) == job[c] # <<>> /\ job[c][1].type = "read"
Running == {c \in Calls : doing[c] \in {"planning", "landing", "reading"}}

\* ToolRuntime calls the next tool.
Begin(c) ==
    /\ c = cur /\ doing[c] = "idle"
    /\ \E j \in Jobs[c] :
           /\ job' = [job EXCEPT ![c] = j] /\ rest' = [rest EXCEPT ![c] = j]
           /\ doing' = [doing EXCEPT ![c] = IF j[1].type = "read" THEN "reading" ELSE "planning"]
           /\ IF j[1].type = "read" THEN UNCHANGED <<base, latest, disturbed>>
              ELSE base' = files /\ latest' = c /\ disturbed' = (Running # {})
    /\ UNCHANGED <<files, cache, plan, landed, cur, abandoned, mishaps, stub, seen, lost, under, lateWriters>>

Fail(c) ==
    /\ doing' = [doing EXCEPT ![c] = "failed"]
    /\ UNCHANGED <<plan, rest>>

\* Wrong: an abort is noticed only after a write.
NextChangeUnaware(c, p, n) ==
    doing' = [doing EXCEPT ![c] = IF n = Len(p) THEN "done" ELSE "landing"]

\* The next change of p is begun.  writeTextFile looks for an abort first,
\* unlink does not.
NextChange(c, p, n) ==
    doing' = [doing EXCEPT ![c] =
               IF n = Len(p) THEN "done"
               ELSE IF p[n + 1].after # Missing /\ c \in abandoned THEN "failed"
               ELSE "landing"]

\* The operation at hand has made the plan p; after the last one the changes
\* follow at once.
Planned(c, p) ==
    /\ plan' = [plan EXCEPT ![c] = p] /\ rest' = [rest EXCEPT ![c] = Tail(@)]
    /\ IF Len(rest[c]) > 1 THEN doing' = doing ELSE NextChange(c, p, 0)

PlanOf(c, f) == {i \in DOMAIN plan[c] : plan[c][i].file = f}

\* Wrong: every operation starts from the file on disk.
ExistingOnDisk(c, f) ==
    IF PlanOf(c, f) # {} /\ plan[c][Max(PlanOf(c, f))].after = Missing
    THEN Missing ELSE files[f]

\* getExistingPlan: what the patch has made of a file so far.
Existing(c, f) ==
    IF PlanOf(c, f) # {} THEN plan[c][Max(PlanOf(c, f))].after ELSE files[f]

\* The plan with a file's content after, which keeps the place of the first
\* operation on the file.
PutPlan(c, f, after) ==
    IF PlanOf(c, f) = {} THEN Append(plan[c], [file |-> f, after |-> after])
    ELSE [i \in DOMAIN plan[c] |->
              IF i \in PlanOf(c, f) THEN [file |-> f, after |-> after] ELSE plan[c][i]]

\* A file a patch adds must neither exist nor be planned.
PlanAdd(c, op) ==
    IF files[op.file] = Missing /\ PlanOf(c, op.file) = {}
    THEN Planned(c, PutPlan(c, op.file, op.text)) ELSE Fail(c)

\* A file to delete or to update must still be in the workspace: one the patch
\* adds is not.
PlanDelete(c, op) ==
    IF files[op.file] # Missing /\ Existing(c, op.file) # Missing
    THEN Planned(c, PutPlan(c, op.file, Missing)) ELSE Fail(c)

PlanUpdate(c, op) ==
    LET next == ApplyHunks(Existing(c, op.file), op.hunks) IN
    IF files[op.file] # Missing /\ next # Missing
    THEN Planned(c, PutPlan(c, op.file, next)) ELSE Fail(c)

\* write: one await for whether the file exists, and another one to read it
\* before it is overwritten.
PlanWrite(c, op) ==
    IF files[op.file] = Missing THEN Planned(c, PutPlan(c, op.file, op.text))
    ELSE IF ~op.overwrite THEN Fail(c)
    ELSE /\ rest' = [rest EXCEPT ![c] = <<[op EXCEPT !.type = "overwrite"]>>]
         /\ UNCHANGED <<doing, plan>>

PlanOverwrite(c, op) ==
    IF files[op.file] # Missing
    THEN Planned(c, PutPlan(c, op.file, op.text)) ELSE Fail(c)

\* One operation is looked at; every access to the workspace ends with an
\* error once the turn is aborted.
PlanNext(c) ==
    /\ doing[c] = "planning"
    /\ LET op == Head(rest[c]) IN
       IF c \in abandoned THEN Fail(c)
       ELSE \/ op.type = "add" /\ PlanAdd(c, op)
            \/ op.type = "delete" /\ PlanDelete(c, op)
            \/ op.type = "update" /\ PlanUpdate(c, op)
            \/ op.type = "write" /\ PlanWrite(c, op)
            \/ op.type = "overwrite" /\ PlanOverwrite(c, op)
    /\ UNCHANGED <<files, cache, job, landed, cur, abandoned, mishaps, ghostVars>>

\* Wrong: the reads of a changed file are still remembered.
InvalidatedNot(f) == cache

\* invalidateReadCacheForPath
Invalidated(f) == [cache EXCEPT ![f] = Missing]

\* A change reaches the disk.  A write that was under way when the turn was
\* aborted fails then, with the read cache as it was; unlink goes on, unless
\* its file is gone.
Land(c) ==
    /\ doing[c] = "landing"
    /\ LET n == landed[c] + 1
           file == plan[c][n].file
           after == plan[c][n].after
       IN  /\ IF after = Missing /\ files[file] = Missing
              THEN Fail(c) /\ UNCHANGED <<files, cache, landed>>
              ELSE /\ files' = [files EXCEPT ![file] = after]
                   /\ landed' = [landed EXCEPT ![c] = n]
                   /\ IF after # Missing /\ c \in abandoned
                      THEN Fail(c) /\ UNCHANGED cache
                      ELSE /\ cache' = Invalidated(file)
                           /\ NextChange(c, plan[c], n) /\ UNCHANGED <<plan, rest>>
           /\ lateWriters' = IF c \in abandoned /\ after # Missing /\ n # under[c]
                      THEN lateWriters \union {c} ELSE lateWriters
    /\ disturbed' = (disturbed \/ c # latest)
    /\ UNCHANGED <<job, cur, abandoned, mishaps, base, latest, stub, seen, lost, under>>

\* A write fails; the file may have been cut to nothing.
WriteFails(c) ==
    /\ doing[c] = "landing" /\ plan[c][landed[c] + 1].after # Missing
    /\ mishaps < MaxMishaps /\ mishaps' = mishaps + 1
    /\ \E t \in {files[plan[c][landed[c] + 1].file], <<>>} :
           files' = [files EXCEPT ![plan[c][landed[c] + 1].file] = t]
    /\ Fail(c) /\ disturbed' = TRUE
    /\ UNCHANGED <<cache, job, landed, cur, abandoned, base, latest, stub, seen, lost, under, lateWriters>>

\* repeatedReadStub: the text is the one of the read that the cache remembers.
Repeated(f) == cache[f] = files[f]

\* The read tool answers a repeated read with a stub, and remembers every read.
ReadFile(c) ==
    /\ doing[c] = "reading"
    /\ LET f == job[c][1].file IN
       IF c \in abandoned \/ files[f] = Missing
       THEN Fail(c) /\ UNCHANGED <<cache, stub>>
       ELSE /\ doing' = [doing EXCEPT ![c] = "done"] /\ UNCHANGED rest
            /\ plan' = [plan EXCEPT ![c] = <<[file |-> f, after |-> files[f]]>>]
            /\ cache' = [cache EXCEPT ![f] = files[f]]
            /\ stub' = IF Repeated(f) THEN stub \union {c} ELSE stub
    /\ UNCHANGED <<files, job, landed, cur, abandoned, mishaps, base, latest, disturbed,
                   seen, lost, under, lateWriters>>

\* The model is given the result: a file's text, the diffs of all changes of a
\* call, or an error that names none of them.
Deliver(c) ==
    /\ c = cur /\ doing[c] \in {"done", "failed"}
    /\ cur' = cur + 1
    /\ seen' = IF doing[c] = "failed" \/ c \in stub THEN seen
               ELSE [f \in Files |-> IF PlanOf(c, f) # {} THEN Existing(c, f) ELSE seen[f]]
    /\ UNCHANGED <<files, cache, callVars, abandoned, mishaps, base, latest, disturbed,
                   stub, lost, under, lateWriters>>

\* The turn is aborted and its call abandoned, whatever it has done.
AbortCall(c) ==
    /\ c = cur /\ doing[c] # "idle"
    /\ abandoned' = abandoned \union {c} /\ cur' = cur + 1
    /\ lost' = IF IsRead(c) /\ doing[c] = "done" THEN lost \union {f \in Files : PlanOf(c, f) # {}} ELSE lost
    /\ under' = IF doing[c] = "landing" THEN [under EXCEPT ![c] = landed[c] + 1] ELSE under
    /\ UNCHANGED <<files, cache, callVars, mishaps, base, latest, disturbed, stub, seen, lateWriters>>

\* A command of the bash tool, the user or another program changes a file.
Elsewhere(f) ==
    /\ cur <= NCalls /\ mishaps < MaxMishaps /\ mishaps' = mishaps + 1
    /\ \E s \in Starts : files[f] # s[f] /\ files' = [files EXCEPT ![f] = s[f]]
    /\ disturbed' = TRUE
    /\ UNCHANGED <<cache, callVars, cur, abandoned, base, latest, stub, seen, lost, under, lateWriters>>

EditsNext ==
    \/ \E c \in Calls : \/ Begin(c) \/ PlanNext(c) \/ Land(c) \/ WriteFails(c)
                        \/ ReadFile(c) \/ Deliver(c) \/ AbortCall(c)
    \/ \E f \in Files : Elsewhere(f)

EditsSpec == EditsInit /\ [][EditsNext]_editVars

-----------------------------------------------------------------------------
(* Properties                                                                *)

\* What one operation is to do to the files, by itself; Missing if it cannot
\* be done.
Applied(fs, op) ==
    LET f == op.file
        Put(t) == [fs EXCEPT ![f] = t]
    IN  CASE op.type = "add"    -> IF fs[f] = Missing THEN Put(op.text) ELSE Missing
          [] op.type = "delete" -> IF fs[f] = Missing THEN Missing ELSE Put(Missing)
          [] op.type = "update" -> LET t == ApplyHunks(fs[f], op.hunks)
                                   IN  IF t = Missing THEN Missing ELSE Put(t)
          [] op.type = "write"  -> IF fs[f] = Missing \/ op.overwrite THEN Put(op.text)
                                   ELSE Missing

\* What the operations are to do one after the other.
AppliedNext(fs, op) == IF fs = Missing THEN Missing ELSE Applied(fs, op)
Outcome(fs, ops) == FoldLeft(AppliedNext, fs, ops)

\* A call that changes files, with nobody else changing any, makes all of its
\* changes as if its operations were done one after the other, or makes none
\* and fails; only one cut off by an abort leaves some of them made, and each
\* file then is as it was or as it was to be (applyPatch.ts:49-108, edit.ts:39,
\* write.ts:37).
PatchesAreAtomic ==
    latest # NoOne /\ ~disturbed =>
        LET end == Outcome(base, job[latest]) IN
        /\ doing[latest] = "planning" => files = base
        /\ doing[latest] = "done" => files = end
        /\ doing[latest] = "failed" =>
               \/ files = base
               \/ /\ latest \in abandoned /\ end # Missing
                  /\ \A f \in Files : files[f] \in {base[f], end[f]}

\* A read is answered with "unchanged" only if the text of the file is the one
\* the model was last shown, by a read or by the diff of its own change; only
\* results that an abort has dropped break that (readCache.ts:22-45).
StubsAreBacked ==
    \A c \in stub :
        c = cur /\ job[c][1].file \notin lost => plan[c][1].after = seen[job[c][1].file]

\* The call of an aborted turn finishes the write it is making and begins no
\* other one; only deletions go on (ToolRuntime.ts:462-467, applyPatch.ts:101-106).
AbandonedWritesStop == EditsTypeOK /\ lateWriters = {}

\* A call that changes files makes all of its changes or none, and none when its
\* turn was aborted (applyPatch.ts, edit.ts, write.ts, ToolRuntime.ts:421-467).
ChangesAreWhole == PatchesAreAtomic /\ AbandonedWritesStop
===============================================================================
