------------------------------- MODULE ToolBatch -------------------------------
(***************************************************************************)
(* tools/ToolRuntime.ts: the tool calls of one assistant message, from the *)
(* permission decision over approval, sandbox check and hooks to the       *)
(* effect and the result; and runToolsOrAbort of loop/runTurn.ts, which    *)
(* answers an aborted batch at once while its calls go on.                 *)
(*                                                                         *)
(* Batches are numbered; each is the batch of a turn of its own, and the   *)
(* next turn may begin when the one before has been answered.  A tool is   *)
(* one of: unknown (or called with bad input), reading, changing files or  *)
(* running a command ("write"), or updating the todo list.                 *)
(***************************************************************************)
EXTENDS Approvals, Naturals

CONSTANTS
    NumBatches,  \* bound: batches
    BatchOf,     \* the batch of each call
    Earlier,     \* the calls before it in the same batch
    Plans,       \* the kinds of tools the calls may name
    HasHooks,    \* whether a pre_tool and a post_tool hook are configured
    MaxFailures, \* bound: event writes that fail
    Unwritable   \* event types whose write may fail

Batches == 1..NumBatches
Of(b) == {c \in Calls : BatchOf[c] = b}

ASSUME BatchAssumption ==
    /\ NumBatches \in Nat /\ MaxFailures \in Nat /\ HasHooks \in BOOLEAN
    /\ BatchOf \in [Calls -> Batches]
    /\ Earlier \in [Calls -> SUBSET Calls]
    /\ \A c, d \in Calls : c # d /\ BatchOf[c] = BatchOf[d]
                           => c \in Earlier[d] \/ d \in Earlier[c]
    /\ Plans \subseteq [Calls -> {"unknown", "read", "write", "todo"}]

VARIABLES
    kind,        \* which tool a call names
    policy,      \* what PermissionPolicy.decide says of it
    pc,          \* where the call is
    result,      \* what it has returned
    batch,       \* how runToolsOrAbort has answered the turn
    aborted,     \* batches whose turn's signal is aborted
    effects,     \* calls that have changed files or run a command
    todo,        \* the call TodoState comes from
    todoLogged,  \* the call the last todo.updated event in the log comes from
    failures     \* writes that have failed so far

batchVars == <<kind, policy, pc, result, batch, aborted, effects, todo,
               todoLogged, failures>>
vars == <<approvalVars, batchVars>>
tool == <<kind, policy>>

Kinds == {"unknown", "read", "write", "todo"}
\* Which decisions decide can come to for a tool.
PolicyOf(k) ==
    CASE k = "unknown" -> {"deny"}
      [] k = "read" -> {"allow", "deny"}
      [] k = "write" -> {"allow", "ask", "deny"}
      [] k = "todo" -> {"allow"}

InFlight == {"deciding", "asking", "waiting", "checking", "hookStarting",
             "hooking", "hookEnding", "blocking", "executing", "working",
             "todoWriting", "storing", "postHook"}
Ended == {"returned", "threw"}
Results == {"ok", "error", "denied", "blocked", "aborted"}
Answers == {"results", "aborted", "threw"}

TypeOK ==
    /\ ApprovalsTypeOK
    /\ kind \in [Calls -> Kinds]
    /\ policy \in [Calls -> {"allow", "ask", "deny"}]
    /\ pc \in [Calls -> {"idle"} \union InFlight \union Ended]
    /\ result \in [Calls -> Results \union {"none"}]
    /\ batch \in [Batches -> {"idle", "running"} \union Answers]
    /\ aborted \subseteq Batches
    /\ effects \subseteq Calls
    /\ todo \in Calls \union {None}
    /\ todoLogged \in Calls \union {None}
    /\ failures \in 0..MaxFailures

Init ==
    /\ ApprovalsInit
    /\ kind \in Plans
    /\ policy \in {p \in [Calls -> {"allow", "ask", "deny"}] :
                      \A c \in Calls : p[c] \in PolicyOf(kind[c])}
    /\ pc = [c \in Calls |-> "idle"]
    /\ result = [c \in Calls |-> "none"]
    /\ batch = [b \in Batches |-> "idle"]
    /\ aborted = {}
    /\ effects = {}
    /\ todo = None
    /\ todoLogged = None
    /\ failures = 0

IsAborted(c) == BatchOf[c] \in aborted

-------------------------------------------------------------------------------
Written == UNCHANGED failures
NotWritten(type) ==
    /\ type \in Unwritable
    /\ failures < MaxFailures
    /\ failures' = failures + 1

changes == <<effects, todo, todoLogged>>

Goto(c, label) ==
    /\ pc' = [pc EXCEPT ![c] = label]
    /\ UNCHANGED result

Return(c, r) ==
    /\ pc' = [pc EXCEPT ![c] = "returned"]
    /\ result' = [result EXCEPT ![c] = r]

\* The catch block of executePreflight.  An abort counts first, so a failed
\* write of an aborted call is swallowed.
Throw(c) == IF IsAborted(c) THEN Return(c, "aborted") ELSE Goto(c, "threw")
Fail(c) == Return(c, IF IsAborted(c) THEN "aborted" ELSE "error")

-------------------------------------------------------------------------------
(***************************************************************************)
(* runBatch                                                                *)
(***************************************************************************)
\* Wrong: one tool that only reads makes the batch parallel.
ParallelIfSomeRead(b) == \E c \in Of(b) : kind[c] = "read"

\* All calls are valid and only read; the todo tool asks for the serial order
\* as well.
Parallel(b) == \A c \in Of(b) : kind[c] = "read"

\* The calls that begin with the batch.
First(b) == IF Parallel(b) THEN Of(b) ELSE {c \in Of(b) : Earlier[c] = {}}

\* The turn of an earlier batch has ended when the next one has its batch.
StartBatch(b) ==
    /\ batch[b] = "idle"
    /\ \A a \in Batches : a < b => batch[a] \in Answers
    /\ batch' = [batch EXCEPT ![b] = "running"]
    /\ pc' = [c \in Calls |->
                IF c \notin First(b) THEN pc[c]
                ELSE IF kind[c] = "unknown" THEN "returned" ELSE "deciding"]
    /\ result' = [c \in Calls |-> IF c \in First(b) /\ kind[c] = "unknown"
                                  THEN "error" ELSE result[c]]
    /\ UNCHANGED <<approvalVars, tool, aborted, changes, failures>>

\* Serial order: a call that has thrown ends the loop, an answered abort does
\* not.
StartNext(c) ==
    /\ pc[c] = "idle"
    /\ batch[BatchOf[c]] # "idle"
    /\ \A e \in Earlier[c] : pc[e] = "returned"
    /\ \/ kind[c] = "unknown" /\ Return(c, "error")
       \/ kind[c] # "unknown" /\ IsAborted(c) /\ Return(c, "aborted")
       \/ kind[c] # "unknown" /\ ~IsAborted(c) /\ Goto(c, "deciding")
    /\ UNCHANGED <<approvalVars, tool, batch, aborted, changes, failures>>

AnswerBatch(b, answer) ==
    /\ batch[b] = "running"
    /\ batch' = [batch EXCEPT ![b] = answer]
    /\ UNCHANGED <<approvalVars, tool, pc, result, aborted, changes, failures>>

BatchReturns(b) ==
    (\A c \in Of(b) : pc[c] = "returned") /\ AnswerBatch(b, "results")
BatchThrows(b) == (\E c \in Of(b) : pc[c] = "threw") /\ AnswerBatch(b, "threw")
\* abortable rejects without waiting for the calls.
BatchAborts(b) == b \in aborted /\ AnswerBatch(b, "aborted")

\* The turn of a batch can be aborted until the next turn begins; the listeners
\* of its approvals run at once.
Abort(b) ==
    /\ batch[b] # "idle"
    /\ b \notin aborted
    /\ \A a \in Batches : b < a => batch[a] = "idle"
    /\ aborted' = aborted \union {b}
    /\ Revoke(Of(b))
    /\ UNCHANGED <<tool, pc, result, batch, changes, failures>>

-------------------------------------------------------------------------------
(***************************************************************************)
(* executePreflight, up to the tool                                        *)
(***************************************************************************)
\* The permission.decision event has been written or not.
Decided(c) ==
    /\ pc[c] = "deciding"
    /\ \/ /\ Written
          /\ \/ policy[c] = "deny" /\ Return(c, "denied")
                /\ UNCHANGED approvalVars
             \/ policy[c] = "allow" /\ Goto(c, "checking")
                /\ UNCHANGED approvalVars
             \/ policy[c] = "ask" /\ IsAborted(c) /\ Return(c, "aborted")
                /\ UNCHANGED approvalVars
             \/ policy[c] = "ask" /\ ~IsAborted(c) /\ Goto(c, "asking")
                /\ Request(c)
       \/ NotWritten("permission.decision") /\ Throw(c) /\ UNCHANGED approvalVars
    /\ UNCHANGED <<tool, batch, aborted, changes>>

\* The approval.requested event; if it cannot be written the entry stays.
Asked(c) ==
    /\ pc[c] = "asking"
    /\ \/ Written /\ Goto(c, "waiting")
       \/ NotWritten("approval.requested") /\ Throw(c)
    /\ UNCHANGED <<approvalVars, tool, batch, aborted, changes>>

\* Wrong: only a verdict that came with an abort stops the call.
ApprovedUnlessAborted(c) ==
    /\ pc[c] = "waiting"
    /\ verdict[c] # "none"
    /\ IF IsAborted(c) THEN Return(c, "aborted") ELSE Goto(c, "checking")
    /\ UNCHANGED <<approvalVars, tool, batch, aborted, changes, failures>>

Approved(c) ==
    /\ pc[c] = "waiting"
    /\ verdict[c] # "none"
    /\ \/ IsAborted(c) /\ Return(c, "aborted")
       \/ ~IsAborted(c) /\ verdict[c] = "deny" /\ Return(c, "denied")
       \/ ~IsAborted(c) /\ verdict[c] = "allow" /\ Goto(c, "checking")
    /\ UNCHANGED <<approvalVars, tool, batch, aborted, changes, failures>>

\* checkFileAccesses; nothing looks at the signal from here to the tool.
Checked(c) ==
    /\ pc[c] = "checking"
    /\ \/ Goto(c, IF HasHooks THEN "hookStarting" ELSE "executing")
       \/ Fail(c)
    /\ UNCHANGED <<approvalVars, tool, batch, aborted, changes, failures>>

\* runHook of the pre_tool hook: after an abort it fails without being waited
\* for.
HookStarted(c) ==
    /\ pc[c] = "hookStarting"
    /\ \/ Written /\ Goto(c, IF IsAborted(c) THEN "hookEnding" ELSE "hooking")
       \/ NotWritten("hook.started") /\ Throw(c)
    /\ UNCHANGED <<approvalVars, tool, batch, aborted, changes>>

\* It completes, blocks the call, or fails: by itself, by its timeout, by the
\* abort.
HookRan(c) ==
    /\ pc[c] = "hooking"
    /\ Goto(c, "hookEnding") \/ Goto(c, "blocking")
    /\ UNCHANGED <<approvalVars, tool, batch, aborted, changes, failures>>

\* A hook.ended event that cannot be written is taken for a failure of the hook
\* and written again.
HookEnded(c) ==
    /\ pc[c] = "hookEnding"
    /\ \/ Written /\ Goto(c, "executing")
       \/ NotWritten("hook.ended") /\ (Goto(c, "executing") \/ Throw(c))
    /\ UNCHANGED <<approvalVars, tool, batch, aborted, changes>>

\* Wrong: a blocking hook is reported and the tool runs all the same.
BlockedButGoesOn(c) ==
    /\ pc[c] = "blocking"
    /\ Written
    /\ pc' = [pc EXCEPT ![c] = "executing"]
    /\ result' = [result EXCEPT ![c] = "blocked"]
    /\ UNCHANGED <<approvalVars, tool, batch, aborted, changes>>

Blocked(c) ==
    /\ pc[c] = "blocking"
    /\ \/ Written /\ Return(c, "blocked")
       \/ NotWritten("hook.ended") /\ Throw(c)
    /\ UNCHANGED <<approvalVars, tool, batch, aborted, changes>>

-------------------------------------------------------------------------------
(***************************************************************************)
(* The tool                                                                *)
(***************************************************************************)
\* Wrong: the tool gets the plain workspace, which does not know the signal.
BeginUnaware(c) ==
    /\ pc[c] = "executing"
    /\ kind[c] # "todo"
    /\ Goto(c, "working") \/ Fail(c)
    /\ UNCHANGED <<approvalVars, tool, batch, aborted, changes, failures>>

\* A file tool goes through AbortAwareWorkspaceFs, a command through
\* executeShell: both look at the signal before they do anything.
Begin(c) ==
    /\ pc[c] = "executing"
    /\ kind[c] # "todo"
    /\ \/ ~IsAborted(c) /\ Goto(c, "working")
       \/ Fail(c)
    /\ UNCHANGED <<approvalVars, tool, batch, aborted, changes, failures>>

\* The write lands, or the command has run, or it fails having changed
\* something or nothing.  An abort meanwhile only turns the result into
\* "aborted".
Work(c) ==
    /\ pc[c] = "working"
    /\ \/ /\ effects' = IF kind[c] = "write" THEN effects \union {c} ELSE effects
          /\ IF IsAborted(c) THEN Return(c, "aborted") ELSE Goto(c, "storing")
       \/ /\ effects' \in {effects, IF kind[c] = "write" THEN effects \union {c}
                                    ELSE effects}
          /\ Fail(c)
    /\ UNCHANGED <<approvalVars, tool, batch, aborted, todo, todoLogged, failures>>

\* Wrong: the list is replaced and no event tells of it.
UpdateTodoUnlogged(c) ==
    /\ pc[c] = "executing"
    /\ kind[c] = "todo"
    /\ todo' = c
    /\ Goto(c, "storing")
    /\ UNCHANGED <<approvalVars, tool, batch, aborted, effects, todoLogged,
                   failures>>

\* The todo tool replaces the list at once, aborted or not, then writes
\* todo.updated.
UpdateTodo(c) ==
    /\ pc[c] = "executing"
    /\ kind[c] = "todo"
    /\ todo' = c
    /\ Goto(c, "todoWriting")
    /\ UNCHANGED <<approvalVars, tool, batch, aborted, effects, todoLogged,
                   failures>>

TodoWritten(c) ==
    /\ pc[c] = "todoWriting"
    /\ \/ /\ Written
          /\ todoLogged' = c
          /\ IF IsAborted(c) THEN Return(c, "aborted") ELSE Goto(c, "storing")
       \/ /\ NotWritten("todo.updated")
          /\ todoLogged' \in {todoLogged, c}
          /\ Throw(c)
    /\ UNCHANGED <<approvalVars, tool, batch, aborted, effects, todo>>

\* normalizeContent: a large result goes to an artifact file and an event.
Stored(c) ==
    /\ pc[c] = "storing"
    /\ \/ Written /\ (Goto(c, "postHook") \/ Fail(c))
       \/ NotWritten("tool.artifact") /\ Throw(c)
    /\ UNCHANGED <<approvalVars, tool, batch, aborted, changes>>

\* runPostToolHooks: nothing a hook does changes the result.
PostHooked(c) ==
    /\ pc[c] = "postHook"
    /\ \/ Written /\ (Return(c, "ok") \/ Return(c, "error"))
       \/ /\ HasHooks
          /\ \/ NotWritten("hook.started") /\ Throw(c)
             \/ NotWritten("hook.ended")
                /\ (Throw(c) \/ Return(c, "ok") \/ Return(c, "error"))
    /\ UNCHANGED <<approvalVars, tool, batch, aborted, changes>>

-------------------------------------------------------------------------------
\* The host answers what it has been asked; it does not know of a request whose
\* event could not be written.
HostResponds(c) ==
    /\ pc[c] # "asking"
    /\ \E d \in Decision : Respond(c, d)
    /\ UNCHANGED batchVars

ResponseEnds(c) ==
    /\ \/ Written /\ ResponseWritten(c)
       \/ NotWritten("approval.responded") /\ ResponseNotWritten(c)
    /\ UNCHANGED <<tool, pc, result, batch, aborted, changes>>

\* close of the host, at any time.
HostCloses == Close /\ UNCHANGED batchVars

\* What the program does by itself.
Call(c) ==
    \/ StartNext(c) \/ Decided(c) \/ Asked(c) \/ Approved(c) \/ Checked(c)
    \/ HookStarted(c) \/ HookRan(c) \/ HookEnded(c) \/ Blocked(c)
    \/ Begin(c) \/ Work(c) \/ UpdateTodo(c) \/ TodoWritten(c)
    \/ Stored(c) \/ PostHooked(c)
Settle(c) == ResponseEnds(c) \/ (CancelNext(c) /\ UNCHANGED batchVars)
Answer(b) == BatchReturns(b) \/ BatchThrows(b) \/ BatchAborts(b)

\* The session may end with calls nobody answers.
Rest ==
    /\ \A b \in Batches : batch[b] # "idle"
    /\ \A c \in Calls : pc[c] \in {"idle", "waiting"} \union Ended
    /\ UNCHANGED vars

Next ==
    \/ \E c \in Calls : Call(c) \/ Settle(c) \/ HostResponds(c)
    \/ \E b \in Batches : StartBatch(b) \/ Answer(b) \/ Abort(b)
    \/ HostCloses
    \/ CancelledAll /\ UNCHANGED batchVars
    \/ Rest

Spec == Init /\ [][Next]_vars

\* Writes, hooks and tools end; the host may neither answer nor abort nor close.
FairSpec ==
    /\ Spec
    /\ \A c \in Calls : WF_vars(Call(c)) /\ WF_vars(Settle(c))
    /\ \A b \in Batches : WF_vars(Answer(b))

-------------------------------------------------------------------------------
\* Whatever is answered, aborted, closed or left unanswered: a call changes
\* files or runs a command only if the policy allows it or the user has allowed
\* this very call, and the response is in the log; and what the model is told
\* was refused has not happened (ToolRuntime.ts:254-330).
EffectsPermitted ==
    /\ \A c \in effects :
          policy[c] = "allow" \/ (policy[c] = "ask" /\ <<c, "allow">> \in responses)
    /\ \A c \in Calls : result[c] \in {"denied", "blocked"} => c \notin effects

\* "Serializes the whole batch when a writer is present": while a call that may
\* change something is under way, no other call of its batch is.
WritersWorkAlone ==
    \A c, d \in Calls :
        /\ c # d /\ BatchOf[c] = BatchOf[d]
        /\ pc[c] \in InFlight /\ pc[d] \in InFlight
        => kind[c] = "read" /\ kind[d] = "read"

\* "Aborted delayed writer using runtime workspace does not mutate after
\* abort": no file tool or command gets to work after its turn was aborted, so
\* an abandoned batch can only finish what it was doing, and a batch given up
\* for a failed write changes nothing more.
AbandonedWorkStops ==
    [][\A c \in Calls :
          /\ pc'[c] = "working" /\ pc[c] # "working" => ~IsAborted(c)
          /\ c \in effects' \ effects => batch[BatchOf[c]] # "threw"]_vars

\* With no abort and no failed write the list in memory is the list the log
\* has, once the updates under way are written.
TodoMatchesLog ==
    /\ failures = 0 /\ aborted = {}
    /\ \A c \in Calls : pc[c] # "todoWriting"
    => todo = todoLogged

\* After an abort the abandoned calls wind down without the host, whichever of
\* them wait for an approval, a hook or a tool, and a batch is answered if the
\* host does not leave a question open for ever; only a lost response leaves a
\* call waiting (approval.ts:41-76).
BatchesEnd ==
    /\ \A c \in Calls :
           IsAborted(c) /\ pc[c] \in InFlight ~> pc[c] \in Ended \/ c \in lost
    /\ (\A c \in Calls : []<>(c \notin pending) /\ [](c \notin lost))
           => \A b \in Batches : batch[b] = "running" ~> batch[b] \in Answers
===============================================================================
