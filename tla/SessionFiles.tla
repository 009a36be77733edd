----------------------------- MODULE SessionFiles -----------------------------
(***************************************************************************)
(* What a session leaves on disk and what later processes make of it: the  *)
(* transcript (one line an event, fsynced), metadata.json (replaced whole  *)
(* by a rename) and the index all sessions share (one line an update).     *)
(* Processes start sessions, resume them, crash and fail to write at any   *)
(* point; nothing locks a session against a second process.                *)
(*                                                                         *)
(* A write that does not finish leaves a prefix of its line: nothing, some *)
(* of it, all of it but the newline, or all of it.                         *)
(***************************************************************************)
EXTENDS Integers, Sequences, SequencesExt

CONSTANTS
    Sessions,    \* session ids
    Procs,       \* processes of the command line
    Nil, Torn,  \* no value; the bytes of an unfinished line
    MaxTime,     \* bound: events written
    MaxFileFaults    \* bound: crashes and failed writes

\* The kinds of events told apart: compact.ended updates as turn.ended does, and
\* what of an event is shown in a list of sessions is left out.
EventKinds == {"session.started", "user.message", "turn.ended", "other"}
StoredEvent == [kind : EventKinds, time : Nat, id : Nat]
Metadata == [session : Sessions, updatedAt : Nat]
Files == {"metadata", "index"}
Process == [plan : Metadata, nextId : Nat, started : BOOLEAN,
            writing : StoredEvent \union {Nil}, queue : Seq(StoredEvent),
            updating : Files \union {Nil}]

ASSUME FilesAssumption ==
    /\ MaxTime \in Nat /\ MaxFileFaults \in Nat
    /\ Nil \notin Sessions /\ Torn # Nil
    /\ Nil \notin StoredEvent \union Metadata \union Files \union Process
    /\ Torn \notin StoredEvent \union Metadata

VARIABLES
    logFile,  \* [Sessions -> file of events]
    metadata,    \* [Sessions -> metadata or Nil]
    index,       \* file of metadata
    proc,        \* [Procs -> the process's session or Nil]
    clock,       \* the time of the last event, which names it
    faults,
    acknowledged,  \* history: the events whose write returned
    failed,        \* history: the sessions one of whose writes failed
    shared         \* history: the sessions two processes had open at once

filesVars == <<logFile, metadata, index, proc, clock, faults, acknowledged,
          failed, shared>>

-----------------------------------------------------------------------------
(* Files of lines.  What follows an unfinished line lands in that line.     *)

EmptyFile == [lines |-> <<>>, tail |-> Nil]

WithLine(file, entry) ==
    [lines |-> Append(file.lines, IF file.tail = Nil THEN entry ELSE Torn),
     tail  |-> Nil]

\* The outcomes of an append that was cut short.
CutShort(file, entry) ==
    {file, [file EXCEPT !.tail = Torn], WithLine(file, entry),
     [file EXCEPT !.tail = IF @ = Nil THEN entry ELSE Torn]}

\* The last line may be unfinished and still be whole.
LastLine(file) == IF file.tail \in {Nil, Torn} THEN <<>> ELSE <<file.tail>>

\* Wrong: broken lines are skipped.
ReadableAnyway(file) == TRUE

\* parseJsonlTranscript throws on a broken line unless it is the last and
\* unterminated.
Readable(file) == ~ Contains(file.lines, Torn)
Events(file) == file.lines \o LastLine(file)

\* readIndex skips broken lines.
IndexLines == index.lines \o LastLine(index)
IndexEntries == Range(IndexLines) \ {Torn}

-----------------------------------------------------------------------------
(* Metadata.                                                                *)

\* The patch of an event; other kinds of events have none.
Patched(meta, event) ==
    IF event.kind = "other" THEN meta ELSE [meta EXCEPT !.updatedAt = event.time]

\* listForCwd: the last entry of each session.
Listed ==
    {IndexLines[i] : i \in
        {j \in DOMAIN IndexLines :
            /\ IndexLines[j] # Torn
            /\ \A k \in DOMAIN IndexLines :
                  k > j /\ IndexLines[k] # Torn =>
                    IndexLines[k].session # IndexLines[j].session}}

-----------------------------------------------------------------------------
(* Processes.                                                               *)

NewMetadata(s) == [session |-> s, updatedAt |-> 0]

\* createSession and the session's constructor: nothing is written yet.
Opened(meta, seed) ==
    [plan |-> meta, nextId |-> seed, started |-> FALSE, writing |-> Nil,
     queue |-> <<>>, updating |-> Nil]

\* Wrong: a resumed session counts its ids from none.
OpenUnseeded(p, meta, seed) ==
    /\ proc' = [proc EXCEPT ![p] = Opened(meta, 0)]
    /\ UNCHANGED <<logFile, metadata, index, clock, faults, acknowledged, failed, shared>>

Open(p, meta, seed) ==
    /\ proc' = [proc EXCEPT ![p] = Opened(meta, seed)]
    /\ shared' = IF \E q \in Procs : proc[q] # Nil /\ proc[q].plan.session = meta.session
                 THEN shared \union {meta.session} ELSE shared
    /\ UNCHANGED <<logFile, metadata, index, clock, faults, acknowledged, failed>>

StartFresh(p, s) ==
    /\ proc[p] = Nil
    /\ logFile[s] = EmptyFile /\ \A q \in Procs : proc[q] # Nil => proc[q].plan.session # s
    /\ Open(p, NewMetadata(s), 0)

\* A transcript that does not parse fails the command; the next id follows
\* from the number of events read.
Resume(p, meta) ==
    /\ proc[p] = Nil
    /\ meta # Nil
    /\ Readable(logFile[meta.session])
    /\ Open(p, meta, Len(Events(logFile[meta.session])) + 1)

\* The latest update comes first in the list.
ResumeLast(p) ==
    \E m \in Listed : (\A n \in Listed : n.updatedAt <= m.updatedAt) /\ Resume(p, m)
ResumeId(p, s) == Resume(p, metadata[s])

\* The session's first event is session.started; a user message takes an id.
BeginWrite(p) ==
    /\ proc[p] # Nil /\ proc[p].writing = Nil
    /\ clock < MaxTime
    /\ clock' = clock + 1
    /\ \E kind \in EventKinds :
        /\ (kind = "session.started") <=> ~ proc[p].started
        /\ LET id == IF kind = "user.message" THEN proc[p].nextId + 1 ELSE 0
           IN  proc' = [proc EXCEPT
                    ![p].writing = [kind |-> kind, time |-> clock + 1, id |-> id],
                    ![p].nextId = IF id = 0 THEN @ ELSE id]
    /\ UNCHANGED <<logFile, metadata, index, faults, acknowledged, failed, shared>>

\* emit: the queue gets the event when the line is on disk.
WriteReturns(p) ==
    /\ proc[p] # Nil /\ proc[p].writing # Nil
    /\ LET event == proc[p].writing
           s == proc[p].plan.session
       IN  /\ logFile' = [logFile EXCEPT ![s] = WithLine(@, event)]
           /\ acknowledged' = [acknowledged EXCEPT ![s] = @ \union {event}]
           /\ proc' = [proc EXCEPT ![p].writing = Nil, ![p].started = TRUE,
                                   ![p].queue = Append(@, event)]
    /\ UNCHANGED <<metadata, index, clock, faults, failed, shared>>

\* Wrong: the event is queued whether or not it was written.
WriteFailsQueued(p) ==
    /\ proc[p] # Nil /\ proc[p].writing # Nil
    /\ faults < MaxFileFaults
    /\ faults' = faults + 1
    /\ failed' = failed \union {proc[p].plan.session}
    /\ proc' = [proc EXCEPT ![p].writing = Nil, ![p].queue = Append(@, proc[p].writing)]
    /\ UNCHANGED <<logFile, metadata, index, clock, acknowledged, shared>>

\* The turn fails, the process goes on.
WriteFails(p) ==
    /\ proc[p] # Nil /\ proc[p].writing # Nil
    /\ faults < MaxFileFaults
    /\ faults' = faults + 1
    /\ \E file \in CutShort(logFile[proc[p].plan.session], proc[p].writing) :
            logFile' = [logFile EXCEPT ![proc[p].plan.session] = file]
    /\ failed' = failed \union {proc[p].plan.session}
    /\ proc' = [proc EXCEPT ![p].writing = Nil]
    /\ UNCHANGED <<metadata, index, clock, acknowledged, shared>>

\* SessionMetadataUpdater.handle takes the events one after the other.
HandleEvent(p) ==
    /\ proc[p] # Nil /\ proc[p].updating = Nil /\ proc[p].queue # <<>>
    /\ LET event == Head(proc[p].queue)
           plan == Patched(proc[p].plan, event)
       IN  proc' = [proc EXCEPT ![p].queue = Tail(@), ![p].plan = plan,
                        ![p].updating = IF event.kind = "other" THEN Nil ELSE "metadata"]
    /\ UNCHANGED <<logFile, metadata, index, clock, faults, acknowledged, failed, shared>>

ReplaceMetadata(p) ==
    /\ proc[p] # Nil /\ proc[p].updating = "metadata"
    /\ metadata' = [metadata EXCEPT ![proc[p].plan.session] = proc[p].plan]
    /\ proc' = [proc EXCEPT ![p].updating = "index"]
    /\ UNCHANGED <<logFile, index, clock, faults, acknowledged, failed, shared>>

AppendIndex(p) ==
    /\ proc[p] # Nil /\ proc[p].updating = "index"
    /\ index' = WithLine(index, proc[p].plan)
    /\ proc' = [proc EXCEPT ![p].updating = Nil]
    /\ UNCHANGED <<logFile, metadata, clock, faults, acknowledged, failed, shared>>

\* A failed update is warned of once and given up; a failed rename leaves the
\* old metadata, a failed append a prefix.
UpdateFails(p) ==
    /\ proc[p] # Nil /\ proc[p].updating # Nil
    /\ faults < MaxFileFaults
    /\ faults' = faults + 1
    /\ IF proc[p].updating = "index" THEN index' \in CutShort(index, proc[p].plan)
       ELSE UNCHANGED index
    /\ proc' = [proc EXCEPT ![p].updating = Nil]
    /\ UNCHANGED <<logFile, metadata, clock, acknowledged, failed, shared>>

\* The process dies with whatever part of its writes reached the disk.
Crash(p) ==
    /\ proc[p] # Nil
    /\ faults < MaxFileFaults
    /\ faults' = faults + 1
    /\ IF proc[p].writing = Nil THEN UNCHANGED logFile
       ELSE \E file \in CutShort(logFile[proc[p].plan.session], proc[p].writing) :
                logFile' = [logFile EXCEPT ![proc[p].plan.session] = file]
    /\ IF proc[p].updating = "index" THEN index' \in CutShort(index, proc[p].plan)
       ELSE UNCHANGED index
    /\ proc' = [proc EXCEPT ![p] = Nil]
    /\ UNCHANGED <<metadata, clock, acknowledged, failed, shared>>

\* The session is closed and its last events handled.
Exit(p) ==
    /\ proc[p] # Nil /\ proc[p].writing = Nil
    /\ proc[p].queue = <<>> /\ proc[p].updating = Nil
    /\ proc' = [proc EXCEPT ![p] = Nil]
    /\ UNCHANGED <<logFile, metadata, index, clock, faults, acknowledged, failed, shared>>

-----------------------------------------------------------------------------
FilesInit ==
    /\ logFile = [s \in Sessions |-> EmptyFile]
    /\ metadata = [s \in Sessions |-> Nil]
    /\ index = EmptyFile
    /\ proc = [p \in Procs |-> Nil]
    /\ clock = 0 /\ faults = 0
    /\ acknowledged = [s \in Sessions |-> {}]
    /\ failed = {} /\ shared = {}

FilesNext ==
    \E p \in Procs :
        \/ \E s \in Sessions : StartFresh(p, s) \/ ResumeId(p, s)
        \/ ResumeLast(p)
        \/ BeginWrite(p) \/ WriteReturns(p) \/ WriteFails(p)
        \/ HandleEvent(p) \/ ReplaceMetadata(p) \/ AppendIndex(p) \/ UpdateFails(p)
        \/ Crash(p) \/ Exit(p)

FilesSpec == FilesInit /\ [][FilesNext]_filesVars

-----------------------------------------------------------------------------
(* Properties.                                                              *)

\* An event whose write returned is never silently missing from what a later
\* process reads: either the transcript is refused as a whole or all of them
\* are in it, however many lines were torn and written into since
\* (transcript.ts:34-49).
NothingSilentlyLost ==
    \A s \in Sessions :
        Readable(logFile[s]) => acknowledged[s] \subseteq Range(Events(logFile[s]))

\* metadata.json and the index tell of nothing the transcript does not hold:
\* every update they show is that of an event written before, and as long as
\* one process at a time works on a session the index is never ahead of
\* metadata.json, whichever of the two writes failed or was cut off by a crash
\* (sessionStore.ts:75-87, 181-200).
ListedIsLogged ==
    \A m \in IndexEntries \union {metadata[s] : s \in Sessions} :
        m # Nil =>
            /\ \E e \in acknowledged[m.session] : e.time = m.updatedAt
            /\ m.session \notin shared =>
                /\ metadata[m.session] # Nil
                /\ m.updatedAt <= metadata[m.session].updatedAt

\* No two user messages of a transcript have the same id, across crashes and
\* resumes: the number of events read is at least the last id given.  Failed
\* writes use ids up and two processes on one session count alike, so both are
\* excepted (sessionStore.ts:129, AgentSession.ts:116).
IdsStayFresh ==
    \A s \in Sessions \ (failed \union shared) :
        \A i, j \in DOMAIN logFile[s].lines :
            LET e == logFile[s].lines[i]
                f == logFile[s].lines[j]
            IN  i < j /\ e # Torn /\ f # Torn /\ e.id # 0 => e.id # f.id

\* What is listed was logged, and is in metadata.json before it is in the index;
\* and a resumed session numbers no message like one of its log
\* (sessionStore.ts:75-253, AgentSession.ts:116).
FilesAgree == ListedIsLogged /\ IdsStayFresh

=============================================================================
