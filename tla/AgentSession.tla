----------------------------- MODULE AgentSession -----------------------------
(***************************************************************************)
(* One process's session: core/AgentSession.ts (submit, abort), the turn   *)
(* loop of loop/runTurn.ts and the engine's log, compaction and context    *)
(* budget (engine/SessionEngine.ts).                                       *)
(*                                                                         *)
(* JavaScript runs one piece of code at a time, so a step of the model is  *)
(* what runs between two awaits that other code can get in between: the    *)
(* completion of the awaited write (or of the provider or the tools) and   *)
(* the code up to the next await.  Each call of submit is an op with its   *)
(* own pc; ops interleave freely.  A transcript write may fail, with the   *)
(* line absent or already on disk.                                         *)
(***************************************************************************)
EXTENDS Transcript, FiniteSets

CONSTANTS
    UserOps,     \* submits of a user message
    CompactOps,  \* submits of compact.request
    SlashOps,    \* submits of the text "/compact"
    MaxSteps,    \* AgentSessionOptions.maxSteps
    MaxRetries,  \* ProviderRetryOptions.maxRetries
    RecentTail,  \* SessionEngineOptions.compactTailMessages
    MaxCalls,    \* bound: tool calls in one assistant message
    MaxFailures, \* bound: transcript writes that fail
    Unwritable,  \* event types whose write may fail
    MessageIds,  \* bound: ids a message of the abstract Conversation may have
    None         \* no op

Ops == UserOps \union CompactOps \union SlashOps

ASSUME OpsAssumption ==
    /\ None \notin Ops
    /\ UserOps \intersect CompactOps = {}
    /\ UserOps \intersect SlashOps = {}
    /\ CompactOps \intersect SlashOps = {}
ASSUME BoundsAssumption ==
    /\ {MaxSteps, MaxRetries, RecentTail, MaxCalls, MaxFailures} \subseteq Nat
    /\ MessageIds \subseteq Nat

VARIABLES
    messages,    \* SessionEngine.state.messages
    transcript,  \* the replay-relevant lines of the JSONL file
    activeTurn,  \* whose AbortController is AgentSession.activeTurn, or None
    aborted,     \* ops whose AbortSignal is aborted
    pc,          \* where each op is
    turn,        \* the locals of runTurn for each op
    compaction,  \* the locals of SessionEngine.compact for each op
    autoCompactFailures,
    nextId,      \* AgentSession.nextId
    failures     \* writes that have failed so far

vars == <<messages, transcript, activeTurn, aborted, pc, turn, compaction,
          autoCompactFailures, nextId, failures>>

Finished == {"done", "rejected"}
\* Between taking activeTurn and giving it up.
TurnLabels ==
    {"promptHook", "turnStarted", "userMessage", "stepStarted", "assemble",
     "reassemble", "contextStep", "provider", "backoff", "assistantMessage",
     "toolCalls", "tools", "results", "pairingResults", "diagnostics",
     "errorEvent", "stepEnded", "turnEnded", "stopHook"}
CompactLabels == {"compactStarted", "summarize", "compactEnded", "compactFailed"}
Running == TurnLabels \union CompactLabels \union {"commandOutput"}
Labels == {"new", "command"} \union Running \union Finished

EndReasons == {"assistant_message", "tool_results", "max_steps", "aborted", "error"}
Triggers == {"manual", "auto", "overflow_retry"}

\* `start` is stepMessageStart; `out` are the results still to be emitted.
Turn == [id : Nat, userId : Nat, step : Nat, index : Nat, start : Nat,
         calls : Seq(CallId), out : Seq(Message), batchAborted : BOOLEAN,
         attempt : Nat, overflowed : BOOLEAN, reason : EndReasons]
NoTurn == [id |-> 0, userId |-> 0, step |-> 0, index |-> 0, start |-> 0,
           calls |-> <<>>, out |-> <<>>, batchAborted |-> FALSE,
           attempt |-> 0, overflowed |-> FALSE, reason |-> "tool_results"]

\* `snapshot` is preMessages; `blocking` says whether the estimate that made
\* the turn compact was at least blockingTokens.
Compaction == [id : Nat, trigger : Triggers, snapshot : Seq(Message),
               blocking : BOOLEAN]
NoCompaction == [id |-> 0, trigger |-> "manual", snapshot |-> <<>>,
                 blocking |-> FALSE]

ControlOK ==
    /\ activeTurn \in Ops \union {None}
    /\ aborted \subseteq Ops
    /\ pc \in [Ops -> Labels]
    /\ turn \in [Ops -> Turn]

DataOK ==
    /\ messages \in Seq(Message)
    /\ transcript \in Seq(SessionEvent)
    /\ compaction \in [Ops -> Compaction]
    /\ autoCompactFailures \in Nat
    /\ nextId \in Nat
    /\ failures \in 0..MaxFailures

\* Every variable holds a value of the kind the code's types give it.
TypeOK == ControlOK /\ DataOK

Init ==
    /\ messages = <<>>
    /\ transcript = <<>>
    /\ activeTurn = None
    /\ aborted = {}
    /\ pc = [o \in Ops |-> "new"]
    /\ turn = [o \in Ops |-> NoTurn]
    /\ compaction = [o \in Ops |-> NoCompaction]
    /\ autoCompactFailures = 0
    /\ nextId = 0
    /\ failures = 0

-------------------------------------------------------------------------------
(***************************************************************************)
(* SessionEngine.emit                                                      *)
(***************************************************************************)
Logged(e) ==
    IF e.type \in ReplayTypes THEN Append(transcript, e) ELSE transcript

Emit(e) ==
    /\ transcript' = Logged(e)
    /\ UNCHANGED failures

\* The write throws: nothing reached the file, or all of it did before the
\* sync or the close failed.  The caller sees a TranscriptWriteError.
EmitFails(e) ==
    /\ e.type \in Unwritable
    /\ failures < MaxFailures
    /\ failures' = failures + 1
    /\ transcript' \in {transcript, Logged(e)}

StepEvent(o, type, message) == Event(type, turn[o].id, turn[o].step, message)
TurnEvent(o, type, message) == Event(type, turn[o].id, 0, message)
Invisible(type) == Event(type, 0, 0, NoMessage)

-------------------------------------------------------------------------------
(***************************************************************************)
(* Moving an op on                                                         *)
(***************************************************************************)
Goto(o, label) ==
    /\ pc' = [pc EXCEPT ![o] = label]
    /\ UNCHANGED <<activeTurn, aborted, turn>>

GotoWith(o, label, locals) ==
    /\ pc' = [pc EXCEPT ![o] = label]
    /\ turn' = [turn EXCEPT ![o] = locals]
    /\ UNCHANGED <<activeTurn, aborted>>

\* The finally block of submit gives up activeTurn if it is still ours; the
\* op's locals and its AbortController are gone.
Finish(o) ==
    /\ pc' = [pc EXCEPT ![o] = "done"]
    /\ activeTurn' = IF activeTurn = o THEN None ELSE activeTurn
    /\ aborted' = aborted \ {o}
    /\ turn' = [turn EXCEPT ![o] = NoTurn]

\* The step's own locals are gone with it.
EndStep(o, reason) ==
    GotoWith(o, "stepEnded",
             [NoTurn EXCEPT !.id = turn[o].id, !.step = turn[o].step,
                            !.index = turn[o].index, !.reason = reason])

EndTurn(o, reason) ==
    GotoWith(o, "turnEnded", [turn[o] EXCEPT !.reason = reason])

\* The catch block around the provider step: any error of an aborted turn,
\* a failed write included, counts as the abort.
StepThrows(o) ==
    IF o \in aborted THEN EndStep(o, "aborted") ELSE Goto(o, "errorEvent")

\* messages.splice(stepMessageStart): what is left of the history, all of it
\* if it has become shorter meanwhile.
BeforeStep(o) ==
    IF turn[o].start < Len(messages) THEN SubSeq(messages, 1, turn[o].start)
    ELSE messages
RollBackStep(o) == messages' = BeforeStep(o)

\* The start of SessionEngine.compact, up to its first write.
StartCompaction(o, trigger, blocking) ==
    /\ pc' = [pc EXCEPT ![o] = "compactStarted"]
    /\ nextId' = nextId + 1
    /\ compaction' = [compaction EXCEPT ![o] =
                        [id |-> nextId + 1, trigger |-> trigger,
                         snapshot |-> messages, blocking |-> blocking]]

\* Returning from it.
LeaveCompaction(o) == compaction' = [compaction EXCEPT ![o] = NoCompaction]

log == <<transcript, failures>>
history == <<messages, autoCompactFailures>>

-------------------------------------------------------------------------------
(***************************************************************************)
(* submit                                                                  *)
(***************************************************************************)
\* ActiveTurnError.  Writing the error event may fail too; the op ends the
\* same way.
Reject(o) ==
    /\ pc[o] = "new"
    /\ activeTurn # None
    /\ Goto(o, "rejected")
    /\ UNCHANGED <<log, history, compaction, nextId>>

\* Wrong: does not ask whether a turn is active.
SubmitUserAnyTime(o) ==
    /\ o \in UserOps
    /\ pc[o] = "new"
    /\ activeTurn' = o
    /\ pc' = [pc EXCEPT ![o] = "promptHook"]
    /\ nextId' = nextId + 1
    /\ turn' = [turn EXCEPT ![o].id = nextId + 1]
    /\ UNCHANGED <<log, history, aborted, compaction>>

SubmitUser(o) ==
    /\ o \in UserOps
    /\ pc[o] = "new"
    /\ activeTurn = None
    /\ activeTurn' = o
    /\ pc' = [pc EXCEPT ![o] = "promptHook"]
    /\ nextId' = nextId + 1
    /\ turn' = [turn EXCEPT ![o].id = nextId + 1]
    /\ UNCHANGED <<log, history, aborted, compaction>>

SubmitCompact(o) ==
    /\ o \in CompactOps
    /\ pc[o] = "new"
    /\ activeTurn = None
    /\ activeTurn' = o
    /\ StartCompaction(o, "manual", FALSE)
    /\ UNCHANGED <<log, history, aborted, turn>>

\* A slash command is not a turn: nothing is taken while command.invoked is
\* being written.
SubmitSlash(o) ==
    /\ o \in SlashOps
    /\ pc[o] = "new"
    /\ activeTurn = None
    /\ Goto(o, "command")
    /\ UNCHANGED <<log, history, compaction, nextId>>

CommandInvoked(o) ==
    /\ pc[o] = "command"
    /\ \/ /\ activeTurn' = o
          /\ StartCompaction(o, "manual", FALSE)
          /\ UNCHANGED <<log, aborted, turn>>
       \/ /\ EmitFails(Invisible("command.invoked"))
          /\ Finish(o)
          /\ UNCHANGED <<compaction, nextId>>
    /\ UNCHANGED history

\* Ends the same way whether command.output could be written or not.
CommandOutput(o) ==
    /\ pc[o] = "commandOutput"
    /\ Finish(o)
    /\ UNCHANGED <<log, history, compaction, nextId>>

\* Wrong: aborts whether or not there is a turn.
AbortAnyTime ==
    /\ aborted' = aborted \union {activeTurn}
    /\ UNCHANGED <<log, history, activeTurn, pc, turn, compaction, nextId>>

Abort ==
    /\ activeTurn # None
    /\ activeTurn \notin aborted
    /\ aborted' = aborted \union {activeTurn}
    /\ UNCHANGED <<log, history, activeTurn, pc, turn, compaction, nextId>>

-------------------------------------------------------------------------------
(***************************************************************************)
(* runTurn: opening the turn and its steps                                 *)
(***************************************************************************)
PromptHook(o) ==
    /\ pc[o] = "promptHook"
    /\ \/ /\ nextId' = nextId + 1
          /\ GotoWith(o, "turnStarted", [turn[o] EXCEPT !.userId = nextId + 1])
          /\ UNCHANGED log
       \/ Finish(o) /\ UNCHANGED <<log, nextId>>  \* the hook blocks the prompt
       \/ EmitFails(Invisible("hook.started")) /\ Finish(o) /\ UNCHANGED nextId
    /\ UNCHANGED <<history, compaction>>

TurnStarted(o) ==
    LET e == TurnEvent(o, "turn.started", NoMessage) IN
    /\ pc[o] = "turnStarted"
    /\ \/ Emit(e) /\ Goto(o, "userMessage")
       \/ EmitFails(e) /\ Finish(o)
    /\ UNCHANGED <<history, compaction, nextId>>

PushUserMessage(o) ==
    LET m == UserMessage(turn[o].userId)
        e == TurnEvent(o, "user.message", m)
    IN
    /\ pc[o] = "userMessage"
    /\ \/ /\ Emit(e)
          /\ messages' = Append(messages, m)
          /\ CASE o \in aborted -> EndTurn(o, "aborted")
               [] o \notin aborted /\ MaxSteps = 0 -> EndTurn(o, "max_steps")
               [] OTHER -> Goto(o, "stepStarted")
       \/ EmitFails(e) /\ Finish(o) /\ UNCHANGED messages
    /\ UNCHANGED <<compaction, autoCompactFailures, nextId>>

StepStarted(o) ==
    /\ pc[o] = "stepStarted"
    /\ nextId' = nextId + 1
    /\ \/ /\ GotoWith(o, "assemble",
                      [turn[o] EXCEPT !.step = nextId + 1, !.index = @ + 1,
                                      !.attempt = 1])
          /\ UNCHANGED log
       \/ EmitFails(Invisible("step.started")) /\ Finish(o)
    /\ UNCHANGED <<history, compaction>>

-------------------------------------------------------------------------------
(***************************************************************************)
(* SessionEngine.prepareProviderRequest.  How large the request is depends *)
(* on text the model leaves out, so an estimate may fall anywhere.         *)
(***************************************************************************)
MayAutoCompact == autoCompactFailures < 3 /\ messages # <<>>

AutoCompact(o) ==
    /\ pc[o] = "assemble"
    /\ Projects(messages)
    /\ MayAutoCompact
    /\ \E blocking \in BOOLEAN : StartCompaction(o, "auto", blocking)
    /\ UNCHANGED <<log, history, activeTurn, aborted, turn>>

Assembled(o) ==
    /\ pc[o] \in {"assemble", "reassemble"}
    /\ Projects(messages)
    /\ Goto(o, "contextStep")
    /\ UNCHANGED <<log, history, compaction, nextId>>

\* A history that does not project, or one at or over blockingTokens that
\* has just been compacted or can no longer be.
AssembleThrows(o) ==
    /\ pc[o] \in {"assemble", "reassemble"}
    /\ pc[o] = "assemble" => ~Projects(messages) \/ ~MayAutoCompact
    /\ StepThrows(o)
    /\ UNCHANGED <<log, history, compaction, nextId>>

ContextStep(o) ==
    /\ pc[o] = "contextStep"
    /\ \/ UNCHANGED log /\ Goto(o, "provider")
       \/ EmitFails(Invisible("context.step")) /\ StepThrows(o)
    /\ UNCHANGED <<history, compaction, nextId>>

-------------------------------------------------------------------------------
(***************************************************************************)
(* SessionEngine.compact.  How many of the oldest groups have to be left   *)
(* out of the summary request changes only the text of the summary.        *)
(***************************************************************************)
CompactionThrows(o) == IF o \in UserOps THEN StepThrows(o) ELSE Finish(o)

ManualCompactReturns(o) ==
    /\ IF o \in SlashOps THEN Goto(o, "commandOutput") ELSE Finish(o)
    /\ UNCHANGED autoCompactFailures

CompactReturnsSucceeded(o) ==
    CASE compaction[o].trigger = "manual" -> ManualCompactReturns(o)
      [] compaction[o].trigger = "auto" ->
            /\ autoCompactFailures' = 0
            /\ Goto(o, "reassemble")
      [] compaction[o].trigger = "overflow_retry" ->
            /\ GotoWith(o, "assemble", [turn[o] EXCEPT !.attempt = @ + 1])
            /\ UNCHANGED autoCompactFailures

CompactReturnsFailed(o) ==
    CASE compaction[o].trigger = "manual" -> ManualCompactReturns(o)
      [] compaction[o].trigger = "auto" ->
            /\ autoCompactFailures' = autoCompactFailures + 1
            /\ IF compaction[o].blocking THEN StepThrows(o)
               ELSE Goto(o, "contextStep")
      [] compaction[o].trigger = "overflow_retry" ->
            StepThrows(o) /\ UNCHANGED autoCompactFailures

CompactStarted(o) ==
    LET snapshot == compaction[o].snapshot
        hasPrefix == /\ Projects(snapshot)
                     /\ snapshot # <<>>
                     /\ Summarized(snapshot, RecentTail) # <<>>
    IN
    /\ pc[o] = "compactStarted"
    /\ \/ /\ Goto(o, IF hasPrefix THEN "summarize" ELSE "compactFailed")
          /\ UNCHANGED <<log, compaction>>
       \/ /\ EmitFails(Invisible("compact.started"))
          /\ CompactionThrows(o)
          /\ LeaveCompaction(o)
    /\ UNCHANGED <<history, nextId>>

\* The summary request fails in every way a provider can, an abort included;
\* compact reports them all as a failed compaction.
Summarize(o) ==
    /\ pc[o] = "summarize"
    /\ \/ o \notin aborted /\ Goto(o, "compactEnded")
       \/ Goto(o, "compactFailed")
    /\ UNCHANGED <<log, history, compaction, nextId>>

\* Wrong: the history is replaced before compact.ended is written.
CompactEndedFirst(o) ==
    LET tail == KeptTail(compaction[o].snapshot, RecentTail)
        summary == UserMessage(compaction[o].id)
        e == CompactSucceeded(summary, Head(tail).id)
    IN
    /\ pc[o] = "compactEnded"
    /\ messages' = <<summary>> \o tail
    /\ \/ Emit(e) /\ CompactReturnsSucceeded(o)
       \/ EmitFails(e) /\ CompactionThrows(o) /\ UNCHANGED autoCompactFailures
    /\ LeaveCompaction(o)
    /\ UNCHANGED nextId

CompactEnded(o) ==
    LET tail == KeptTail(compaction[o].snapshot, RecentTail)
        summary == UserMessage(compaction[o].id)
        e == CompactSucceeded(summary, Head(tail).id)
    IN
    /\ pc[o] = "compactEnded"
    /\ \/ /\ Emit(e)
          /\ messages' = <<summary>> \o tail
          /\ CompactReturnsSucceeded(o)
       \/ EmitFails(e) /\ CompactionThrows(o) /\ UNCHANGED history
    /\ LeaveCompaction(o)
    /\ UNCHANGED nextId

CompactFailed(o) ==
    /\ pc[o] = "compactFailed"
    /\ \/ UNCHANGED log /\ CompactReturnsFailed(o)
       \/ /\ EmitFails(Invisible("compact.failed"))
          /\ CompactionThrows(o)
          /\ UNCHANGED autoCompactFailures
    /\ LeaveCompaction(o)
    /\ UNCHANGED <<messages, nextId>>

-------------------------------------------------------------------------------
(***************************************************************************)
(* executeProviderStepWithOverflowRetry                                    *)
(***************************************************************************)
ProviderAborts(o) ==
    /\ pc[o] \in {"provider", "backoff"}
    /\ o \in aborted
    /\ StepThrows(o)
    /\ UNCHANGED <<log, history, compaction, nextId>>

ProviderAnswers(o) ==
    /\ pc[o] = "provider"
    /\ o \notin aborted
    /\ \E n \in 0..MaxCalls :
          GotoWith(o, "assistantMessage",
                   [turn[o] EXCEPT !.calls = [i \in 1..n |-> <<turn[o].step, i>>],
                                   !.start = Len(messages)])
    /\ UNCHANGED <<log, history, compaction, nextId>>

\* Not retryable, out of retries, a second overflow, a delta that could not
\* be written, or an AbortError of the provider's own making.
ProviderFails(o) ==
    /\ pc[o] = "provider"
    /\ o \notin aborted
    /\ \/ UNCHANGED log /\ StepThrows(o)
       \/ UNCHANGED log /\ EndStep(o, "aborted")
       \/ EmitFails(Invisible("assistant.delta")) /\ StepThrows(o)
       \/ EmitFails(Invisible("provider.failure")) /\ StepThrows(o)
    /\ UNCHANGED <<history, compaction, nextId>>

\* Wrong: one retry too many.
ProviderRetriesOnceMore(o) ==
    /\ pc[o] = "provider"
    /\ o \notin aborted
    /\ turn[o].attempt <= MaxRetries + 1
    /\ Goto(o, "backoff")
    /\ UNCHANGED <<log, history, compaction, nextId>>

ProviderRetries(o) ==
    /\ pc[o] = "provider"
    /\ o \notin aborted
    /\ turn[o].attempt <= MaxRetries
    /\ \/ UNCHANGED log /\ Goto(o, "backoff")
       \/ EmitFails(Invisible("provider.retry")) /\ StepThrows(o)
    /\ UNCHANGED <<history, compaction, nextId>>

\* Wrong: the attempt is not counted.
BackoffEndsUncounted(o) ==
    /\ pc[o] = "backoff"
    /\ Goto(o, "assemble")
    /\ UNCHANGED <<log, history, compaction, nextId>>

\* A delay of zero does not look at the signal.
BackoffEnds(o) ==
    /\ pc[o] = "backoff"
    /\ GotoWith(o, "assemble", [turn[o] EXCEPT !.attempt = @ + 1])
    /\ UNCHANGED <<log, history, compaction, nextId>>

ProviderOverflows(o) ==
    /\ pc[o] = "provider"
    /\ o \notin aborted
    /\ ~turn[o].overflowed
    /\ turn' = [turn EXCEPT ![o].overflowed = TRUE]
    /\ StartCompaction(o, "overflow_retry", FALSE)
    /\ UNCHANGED <<log, history, activeTurn, aborted>>

-------------------------------------------------------------------------------
(***************************************************************************)
(* runTurn: the assistant message and its tool batch                       *)
(***************************************************************************)
PushAssistantMessage(o) ==
    LET m == AssistantMessage(turn[o].step, turn[o].calls)
        e == StepEvent(o, "assistant.message", m)
    IN
    /\ pc[o] = "assistantMessage"
    /\ \/ /\ Emit(e)
          /\ messages' = Append(messages, m)
          /\ IF turn[o].calls = <<>> THEN EndStep(o, "assistant_message")
             ELSE Goto(o, "toolCalls")
       \/ EmitFails(e) /\ Finish(o) /\ UNCHANGED messages
    /\ UNCHANGED <<compaction, autoCompactFailures, nextId>>

\* One tool.call event per call; a write that fails here leaves the history
\* as it is.
EmitToolCalls(o) ==
    /\ pc[o] = "toolCalls"
    /\ \/ UNCHANGED log /\ Goto(o, "tools")
       \/ EmitFails(Invisible("tool.call")) /\ Finish(o)
    /\ UNCHANGED <<history, compaction, nextId>>

ToolsReturn(o, label, batchAborted) ==
    GotoWith(o, label, [turn[o] EXCEPT !.out = ToolResults(turn[o].calls),
                                       !.batchAborted = batchAborted])

\* runToolsOrAbort: an abort answers every call at once while the tools may
\* still be running.
ToolsAborted(o) ==
    /\ pc[o] = "tools"
    /\ o \in aborted
    /\ ToolsReturn(o, "results", TRUE)
    /\ UNCHANGED <<log, history, compaction, nextId>>

\* One result for every call, the tools' own or, when the runtime throws, an
\* error result; an AbortError of the runtime's counts as the abort.
ToolsAnswer(o) ==
    /\ pc[o] = "tools"
    /\ o \notin aborted
    /\ \E batchAborted \in BOOLEAN : ToolsReturn(o, "results", batchAborted)
    /\ UNCHANGED <<log, history, compaction, nextId>>

\* A ToolRuntime whose results do not match the calls: the assistant message
\* is put back and every call gets an error result.
ToolsMispair(o) ==
    /\ pc[o] = "tools"
    /\ o \notin aborted
    /\ messages' = Append(BeforeStep(o),
                          AssistantMessage(turn[o].step, turn[o].calls))
    /\ ToolsReturn(o, "pairingResults", FALSE)
    /\ UNCHANGED <<log, compaction, autoCompactFailures, nextId>>

\* A write inside a tool failed.
ToolsCannotWrite(o) ==
    /\ pc[o] = "tools"
    /\ o \notin aborted
    /\ EmitFails(Invisible("permission.decision"))
    /\ RollBackStep(o)
    /\ Finish(o)
    /\ UNCHANGED <<compaction, autoCompactFailures, nextId>>

\* Wrong: a failed write leaves the half-answered batch in memory.
PushToolResultKeeping(o) ==
    LET m == Head(turn[o].out)
        e == StepEvent(o, "tool.result", m)
        rest == Tail(turn[o].out)
        next == CASE rest # <<>> -> pc[o]
                  [] rest = <<>> /\ pc[o] = "results" -> "diagnostics"
                  [] OTHER -> "errorEvent"
    IN
    /\ pc[o] \in {"results", "pairingResults"}
    /\ \/ /\ Emit(e)
          /\ messages' = Append(messages, m)
          /\ GotoWith(o, next, [turn[o] EXCEPT !.out = rest])
       \/ EmitFails(e) /\ UNCHANGED messages /\ Finish(o)
    /\ UNCHANGED <<compaction, autoCompactFailures, nextId>>

PushToolResult(o) ==
    LET m == Head(turn[o].out)
        e == StepEvent(o, "tool.result", m)
        rest == Tail(turn[o].out)
        next == CASE rest # <<>> -> pc[o]
                  [] rest = <<>> /\ pc[o] = "results" -> "diagnostics"
                  [] OTHER -> "errorEvent"
    IN
    /\ pc[o] \in {"results", "pairingResults"}
    /\ \/ /\ Emit(e)
          /\ messages' = Append(messages, m)
          /\ GotoWith(o, next, [turn[o] EXCEPT !.out = rest])
       \/ EmitFails(e) /\ RollBackStep(o) /\ Finish(o)
    /\ UNCHANGED <<compaction, autoCompactFailures, nextId>>

\* The events tools left to be written after the results, and what follows.
EmitDiagnostics(o) ==
    /\ pc[o] = "diagnostics"
    /\ \/ /\ EndStep(o, IF turn[o].batchAborted \/ o \in aborted THEN "aborted"
                         ELSE IF turn[o].index = MaxSteps THEN "max_steps"
                         ELSE "tool_results")
          /\ UNCHANGED <<log, messages>>
       \/ EmitFails(Invisible("diagnostic")) /\ RollBackStep(o) /\ Finish(o)
    /\ UNCHANGED <<compaction, autoCompactFailures, nextId>>

-------------------------------------------------------------------------------
(***************************************************************************)
(* runTurn: closing steps and the turn                                     *)
(***************************************************************************)
ErrorEvent(o) ==
    /\ pc[o] = "errorEvent"
    /\ \/ UNCHANGED log /\ EndStep(o, "error")
       \/ EmitFails(Invisible("error")) /\ Finish(o)
    /\ UNCHANGED <<history, compaction, nextId>>

StepEnded(o) ==
    LET e == StepEvent(o, "step.ended", NoMessage)
        next == IF turn[o].reason = "tool_results" THEN "stepStarted"
                ELSE "turnEnded"
    IN
    /\ pc[o] = "stepEnded"
    /\ \/ Emit(e) /\ Goto(o, next)
       \/ EmitFails(e) /\ Finish(o)
    /\ UNCHANGED <<history, compaction, nextId>>

\* A failed turn throws; the others run the stop hooks.
TurnEnded(o) ==
    LET e == TurnEvent(o, "turn.ended", NoMessage) IN
    /\ pc[o] = "turnEnded"
    /\ \/ Emit(e) /\ IF turn[o].reason = "error" THEN Finish(o)
                      ELSE Goto(o, "stopHook")
       \/ EmitFails(e) /\ Finish(o)
    /\ UNCHANGED <<history, compaction, nextId>>

StopHook(o) ==
    /\ pc[o] = "stopHook"
    /\ Finish(o)
    /\ UNCHANGED <<log, history, compaction, nextId>>

-------------------------------------------------------------------------------
Submit(o) == Reject(o) \/ SubmitUser(o) \/ SubmitCompact(o) \/ SubmitSlash(o)

Compact(o) ==
    CompactStarted(o) \/ Summarize(o) \/ CompactEnded(o) \/ CompactFailed(o)

ProviderStep(o) ==
    \/ AutoCompact(o) \/ Assembled(o) \/ AssembleThrows(o) \/ ContextStep(o)
    \/ ProviderAborts(o) \/ ProviderAnswers(o) \/ ProviderFails(o)
    \/ ProviderRetries(o) \/ BackoffEnds(o) \/ ProviderOverflows(o)

ToolBatch(o) ==
    \/ PushAssistantMessage(o) \/ EmitToolCalls(o)
    \/ ToolsAborted(o) \/ ToolsAnswer(o) \/ ToolsMispair(o)
    \/ ToolsCannotWrite(o) \/ PushToolResult(o) \/ EmitDiagnostics(o)

RunTurn(o) ==
    \/ PromptHook(o) \/ TurnStarted(o) \/ PushUserMessage(o) \/ StepStarted(o)
    \/ ProviderStep(o) \/ ToolBatch(o)
    \/ ErrorEvent(o) \/ StepEnded(o) \/ TurnEnded(o) \/ StopHook(o)

\* What the program does by itself once an op has been submitted.
Advance(o) ==
    \/ CommandInvoked(o) \/ CommandOutput(o) \/ Compact(o)
    \/ o \in UserOps /\ RunTurn(o)

AllFinished == \A o \in Ops : pc[o] \in Finished

\* The host has nothing left to submit.
Terminated == AllFinished /\ UNCHANGED vars

Next ==
    \/ Abort
    \/ \E o \in Ops : Submit(o) \/ Advance(o)
    \/ Terminated

Spec == Init /\ [][Next]_vars
\* Pending promises settle: writes complete, the provider and the tools
\* answer or fail.  Nothing makes the user submit or abort.
FairSpec == Spec /\ \A o \in Ops : WF_vars(Advance(o))
-------------------------------------------------------------------------------
(***************************************************************************)
(* Properties                                                              *)
(***************************************************************************)
\* The guard at the top of submit: a second user turn or compaction is
\* rejected while one is running, so no two ever run side by side.
OneActivity ==
    \A o, p \in Ops : pc[o] \in Running /\ pc[p] \in Running => o = p

\* The same promise for user turns alone, as test and error message word it.
OneTurnAtATime ==
    \A o, p \in UserOps : pc[o] \in Running /\ pc[p] \in Running => o = p

MidBatch(o) == pc[o] \in {"toolCalls", "tools", "results", "pairingResults"}

\* However steps end - answered, aborted, mispaired, compacted, or with a
\* write that failed - outside a running tool batch every tool call in memory
\* has its result right behind it, so the next request can be projected.
HistoryPaired == (\A o \in Ops : ~MidBatch(o)) => Paired(messages)

Quiet == \A o \in Ops : pc[o] \notin Running

\* Between turns the log rebuilds exactly the history in memory, through
\* aborts, failed steps and any number of compactions.
ReplayMatchesMemory ==
    Quiet /\ failures = 0 =>
        MessagesFromEvents(transcript) =
            [accepted |-> TRUE, messages |-> messages]

\* Between turns the log can be replayed, whatever writes have failed.
AlwaysReplayable == Quiet => MessagesFromEvents(transcript).accepted

\* emit writes before anything is pushed: memory never holds a message the
\* log has not got.
InLog(m) ==
    \E j \in DOMAIN transcript :
        /\ transcript[j].type \in VisibleTypes \union {"compact.ended"}
        /\ transcript[j].message = m
AllLogged(s) == \A i \in DOMAIN s : InLog(s[i])
WriteAhead == AllLogged(messages)

\* The history changes in three ways only: messages are appended; a step
\* that could not be written is taken back, and no user message with it; a
\* compaction puts a new summary in front of an unchanged, current tail.
Appends == IsPrefix(messages, messages')
TakesBackStep ==
    /\ IsPrefix(messages', messages)
    /\ \A i \in Len(messages') + 1 .. Len(messages) : messages[i].role # "user"
Summarizes ==
    \E i \in 2..Len(messages) : \E o \in Ops :
        messages' = <<UserMessage(compaction[o].id)>>
                      \o SubSeq(messages, i, Len(messages))
HistoryOnlyGrowsOrCompacts ==
    [][Appends \/ TakesBackStep \/ Summarizes]_vars

\* The history without the exchange that is still open.
CompletePart ==
    LET last == CHOOSE i \in GroupStarts(messages) :
                    \A j \in GroupStarts(messages) : j <= i
    IN  IF messages = <<>> \/ Answered(messages, last) THEN messages
        ELSE SubSeq(messages, 1, last - 1)

Promise == INSTANCE Conversation
             WITH exchanges <- CompletePart, Ids <- MessageIds, MaxResults <- MaxCalls

\* The session implements the conversation: whatever is interleaved, aborted,
\* retried or compacted, exchanges come and go whole; and message by message the
\* history grows, takes back a step that did not end, or is compacted.
ImplementsConversation == Promise!CSpec /\ HistoryOnlyGrowsOrCompacts

\* One provider step makes at most MaxRetries + 1 requests, one more when the
\* context overflowed and was compacted.
RequestsBounded ==
    \A o \in UserOps :
        turn[o].attempt <= MaxRetries + (IF turn[o].overflowed THEN 2 ELSE 1)

\* Every submitted op ends, whatever the provider and the tools answer: step,
\* retry and overflow limits leave no endless turn.
OpsFinish == \A o \in Ops : pc[o] # "new" ~> pc[o] \in Finished
===============================================================================
