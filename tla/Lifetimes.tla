------------------------------- MODULE Lifetimes -------------------------------
(***************************************************************************)
(* A session over several processes: the process may die at any await, and *)
(* cli/sessionStore.ts rebuilds the session from its log.  A line torn by  *)
(* the crash is dropped by parseJsonlTranscript, so a crash leaves a       *)
(* prefix of complete lines.                                               *)
(***************************************************************************)
EXTENDS AgentSession

CONSTANT MaxCrashes  \* bound: crashes
ASSUME CrashAssumption == MaxCrashes \in Nat

VARIABLES crashes,   \* crashes so far
          resumable  \* the log could be replayed after every crash

lifetimeVars == <<vars, crashes, resumable>>

LInit == Init /\ crashes = 0 /\ resumable = TRUE

\* Wrong: resumes from all visible messages, compactions notwithstanding.
CrashAndResumeVisible ==
    LET replay == MessagesFromVisibleEvents(transcript) IN
    /\ resumable
    /\ crashes < MaxCrashes
    /\ crashes' = crashes + 1
    /\ resumable' = replay.accepted
    /\ messages' = IF replay.accepted THEN replay.messages ELSE messages
    /\ activeTurn' = None
    /\ aborted' = {}
    /\ pc' = [o \in Ops |-> IF pc[o] = "new" THEN "new" ELSE "done"]
    /\ turn' = [o \in Ops |-> NoTurn]
    /\ compaction' = [o \in Ops |-> NoCompaction]
    /\ autoCompactFailures' = 0
    /\ UNCHANGED <<transcript, nextId, failures>>

\* resolveResume: messagesFromEvents throws, or its result is the new
\* session's initialMessages.  New ids start behind those of the log.
CrashAndResume ==
    LET replay == MessagesFromEvents(transcript) IN
    /\ resumable
    /\ crashes < MaxCrashes
    /\ crashes' = crashes + 1
    /\ resumable' = replay.accepted
    /\ messages' = IF replay.accepted THEN replay.messages ELSE messages
    /\ activeTurn' = None
    /\ aborted' = {}
    /\ pc' = [o \in Ops |-> IF pc[o] = "new" THEN "new" ELSE
                            IF pc[o] = "rejected" THEN "rejected" ELSE "done"]
    /\ turn' = [o \in Ops |-> NoTurn]
    /\ compaction' = [o \in Ops |-> NoCompaction]
    /\ autoCompactFailures' = 0
    /\ UNCHANGED <<transcript, nextId, failures>>

LNext ==
    \/ resumable /\ Next /\ UNCHANGED <<crashes, resumable>>
    \/ CrashAndResume
    \/ ~resumable /\ UNCHANGED lifetimeVars

LSpec == LInit /\ [][LNext]_lifetimeVars

-------------------------------------------------------------------------------
\* A crash outside a tool batch loses nothing of the history: the resumed
\* session holds the very messages the dead one held.
CrashOutsideBatchLosesNothing ==
    [][CrashAndResume /\ (\A o \in Ops : ~MidBatch(o)) =>
          resumable' /\ messages' = messages]_lifetimeVars

\* Between turns log and memory agree in every lifetime, also in one resumed
\* from a log that holds earlier compactions.
ResumedMatchesLog == resumable => ReplayMatchesMemory
===============================================================================
