--------------------------------- MODULE Repl ----------------------------------
(***************************************************************************)
(* cli/repl.ts with the prompt for approvals, the renderer of events and   *)
(* core/AsyncEventQueue.ts: two readers of one input (the loop of runRepl  *)
(* and the approval prompt), a session that pushes events and asks for     *)
(* approvals, Ctrl-C, the end of the input and the switch of sessions.     *)
(*                                                                         *)
(* Only the current session is kept: the queue of the one before is closed *)
(* when the next begins.  No event fails to be written here.               *)
(***************************************************************************)
EXTENDS Naturals, Sequences, FiniteSets

CONSTANTS
    Lines,          \* lines that can be typed
    KindOf,         \* "text", "blank", "/clear" or "/quit"
    Pipes,          \* inputs that are no terminal, as sequences of lines
    Approvals,      \* approvals a tool may ask for
    MaxTyped,       \* bound: lines typed at a terminal
    MaxInterrupts   \* bound: times Ctrl-C is pressed

ASSUME ReplAssumption ==
    /\ KindOf \in [Lines -> {"text", "blank", "/clear", "/quit"}]
    /\ Pipes \subseteq Seq(Lines)
    /\ MaxTyped \in Nat /\ MaxInterrupts \in Nat

VARIABLES
    tty,            \* LineReader on a terminal, or BufferedLineReader
    typed,          \* all lines of the input so far (for the properties)
    taken,          \* those handed to a reader, in order (for the properties)
    queue,          \* lines nobody has asked for
    waiters,        \* waiters of LineReader: who waits for a line
    closed,         \* closed of LineReader
    main,           \* where runRepl is
    given,          \* the kind of line it works on
    exitRequested, idleInterrupts, pendingHostAction,
    interrupts,     \* times Ctrl-C was pressed
    row,            \* idle ones since runRepl last had a line (for the properties)
    excused,        \* other reasons runRepl had to end (for the properties)
    session,        \* number of the current session
    values,         \* its events: values of AsyncEventQueue
    index,          \* index of the renderer's iterator
    rendered,       \* how many it has rendered (for the properties)
    queueClosed,    \* closed of AsyncEventQueue
    consumer,       \* where EventRenderer.consume is
    turn,           \* whether a turn is active, and aborted
    approvals       \* where each request for an approval is

lineVars == <<tty, typed, taken, queue, waiters, closed>>
loopVars == <<main, given, exitRequested, idleInterrupts, pendingHostAction, row>>
userVars == <<interrupts, excused>>
eventVars == <<values, index, queueClosed, consumer>>
vars == <<lineVars, loopVars, userVars, session, eventVars, rendered, turn, approvals>>

Inactive == {"prompt", "waiting", "fresh", "closing", "draining", "leaving",
             "closing last", "draining last", "exited"}
Submitting == {"submitting", "hostWait"}
ReplEvent == [kind : {"print", "/clear", "/quit"}, of : {"none"}]
         \union [kind : {"approval"}, of : Approvals]
Plain(kind) == [kind |-> kind, of |-> "none"]

TypeOK ==
    /\ tty \in BOOLEAN /\ closed \in BOOLEAN
    /\ typed \in Seq(Lines) /\ taken \in Seq(Lines) /\ queue \in Seq(Lines)
    /\ waiters \in {<<>>, <<"main">>, <<"approval">>, <<"main", "approval">>,
                    <<"approval", "main">>}
    /\ main \in Inactive \union Submitting
    /\ given \in {"text", "/clear", "/quit"}
    /\ exitRequested \in BOOLEAN
    /\ idleInterrupts \in 0..MaxInterrupts /\ row \in 0..MaxInterrupts
    /\ interrupts \in 0..MaxInterrupts /\ excused \in BOOLEAN
    /\ pendingHostAction \in {"none", "/clear", "/quit"}
    /\ session \in Nat \ {0}
    /\ values \in Seq(ReplEvent) /\ index \in 0..Len(values) /\ rendered \in 0..Len(values)
    /\ queueClosed \in BOOLEAN
    /\ consumer \in {"next", "parked", "has", "asking", "responding", "done"}
    /\ turn \in {"none", "running", "aborted"}
    /\ approvals \in [Approvals -> {"none", "writing", "stale", "pending", "settled"}]

Init ==
    /\ tty \in BOOLEAN
    /\ queue \in IF tty THEN {<<>>} ELSE Pipes
    /\ typed = queue /\ taken = <<>> /\ waiters = <<>> /\ closed = FALSE
    /\ main = "prompt" /\ given = "text" /\ exitRequested = FALSE
    /\ idleInterrupts = 0 /\ row = 0 /\ pendingHostAction = "none"
    /\ interrupts = 0 /\ excused = FALSE
    /\ session = 1 /\ values = <<>> /\ index = 0 /\ rendered = 0
    /\ queueClosed = FALSE /\ consumer = "next"
    /\ turn = "none" /\ approvals = [a \in Approvals |-> "none"]

-------------------------------------------------------------------------------
(***************************************************************************)
(* AsyncEventQueue                                                         *)
(***************************************************************************)
\* push, and flush: an iterator that waits gets the event.
Pushed(e) ==
    /\ UNCHANGED queueClosed
    /\ IF queueClosed
       THEN UNCHANGED <<values, index, consumer>>
       ELSE /\ values' = Append(values, e)
            /\ index' = IF consumer = "parked" THEN index + 1 ELSE index
            /\ consumer' = IF consumer = "parked" THEN "has" ELSE consumer

\* close, and flush: an iterator that waits is done.
QueueCloses ==
    /\ queueClosed' = TRUE
    /\ consumer' = IF consumer = "parked" THEN "done" ELSE consumer
    /\ UNCHANGED <<values, index>>

\* Wrong: a closed queue has no more events.
NextUnlessClosed ==
    /\ consumer = "next"
    /\ consumer' = IF queueClosed THEN "done"
                   ELSE IF index < Len(values) THEN "has" ELSE "parked"
    /\ index' = IF index < Len(values) /\ ~queueClosed THEN index + 1 ELSE index
    /\ UNCHANGED <<lineVars, loopVars, userVars, session, values, queueClosed, rendered,
                   turn, approvals>>

\* next of the iterator.
NextEvent ==
    /\ consumer = "next"
    /\ consumer' = IF index < Len(values) THEN "has"
                   ELSE IF queueClosed THEN "done" ELSE "parked"
    /\ index' = IF index < Len(values) THEN index + 1 ELSE index
    /\ UNCHANGED <<lineVars, loopVars, userVars, session, values, queueClosed, rendered,
                   turn, approvals>>

-------------------------------------------------------------------------------
(***************************************************************************)
(* LineReader and BufferedLineReader                                       *)
(***************************************************************************)
\* question gives up at once; otherwise it takes a line that is there, or waits.
NoMoreLines == IF tty THEN closed ELSE queue = <<>>

LineThere == ~NoMoreLines /\ queue # <<>>

TakeLine ==
    /\ taken' = Append(taken, Head(queue))
    /\ queue' = Tail(queue)
    /\ UNCHANGED <<tty, typed, waiters, closed>>

Wait(who) ==
    /\ waiters' = Append(waiters, who)
    /\ UNCHANGED <<tty, typed, taken, queue, closed>>

\* Wrong: those who wait are told, and stay in the list.
ReleasedOnly ==
    /\ UNCHANGED waiters
    /\ main' = IF main = "waiting" THEN "leaving" ELSE main
    /\ consumer' = IF consumer = "asking" THEN "next" ELSE consumer
    /\ rendered' = IF consumer = "asking" THEN rendered + 1 ELSE rendered

\* Everyone who waits gets no line: runRepl leaves its loop, the approval prompt
\* counts as aborted and the renderer goes on.
Released ==
    /\ waiters' = <<>>
    /\ main' = IF main = "waiting" THEN "leaving" ELSE main
    /\ consumer' = IF consumer = "asking" THEN "next" ELSE consumer
    /\ rendered' = IF consumer = "asking" THEN rendered + 1 ELSE rendered

\* cancelPending.
Cancelled == IF tty THEN Released ELSE UNCHANGED <<waiters, main, consumer, rendered>>

\* Wrong: the list of waiters is left as it is.
FinishedOnly == closed' = tty /\ UNCHANGED <<waiters, main, consumer, rendered>>

\* close and finish.
Finished == closed' = tty /\ Cancelled

-------------------------------------------------------------------------------
(***************************************************************************)
(* The loop of runRepl                                                     *)
(***************************************************************************)
\* Wrong: interrupts are counted from the start.
HasLineStillCounting(line) ==
    /\ row' = 0
    /\ UNCHANGED <<exitRequested, idleInterrupts>>
    /\ IF exitRequested
       THEN main' = "leaving" /\ UNCHANGED <<given, pendingHostAction, turn>>
       ELSE IF KindOf[line] = "blank"
       THEN main' = "prompt" /\ UNCHANGED <<given, pendingHostAction, turn>>
       ELSE /\ main' = "submitting"
            /\ given' = KindOf[line]
            /\ pendingHostAction' = "none"
            /\ turn' = IF KindOf[line] = "text" THEN "running" ELSE "none"

\* Wrong: the host action of an earlier line is kept.
HasLineKeeping(line) ==
    /\ row' = 0 /\ idleInterrupts' = 0
    /\ UNCHANGED <<exitRequested, pendingHostAction>>
    /\ IF exitRequested
       THEN main' = "leaving" /\ UNCHANGED <<given, turn>>
       ELSE IF KindOf[line] = "blank"
       THEN main' = "prompt" /\ UNCHANGED <<given, turn>>
       ELSE /\ main' = "submitting"
            /\ given' = KindOf[line]
            /\ turn' = IF KindOf[line] = "text" THEN "running" ELSE "none"

\* question has answered with a line, which is submitted.
HasLine(line) ==
    /\ row' = 0
    /\ idleInterrupts' = IF exitRequested THEN idleInterrupts ELSE 0
    /\ UNCHANGED exitRequested
    /\ IF exitRequested
       THEN main' = "leaving" /\ UNCHANGED <<given, pendingHostAction, turn>>
       ELSE IF KindOf[line] = "blank"
       THEN main' = "prompt" /\ UNCHANGED <<given, pendingHostAction, turn>>
       ELSE /\ main' = "submitting"
            /\ given' = KindOf[line]
            /\ pendingHostAction' = "none"
            /\ turn' = IF KindOf[line] = "text" THEN "running" ELSE "none"

\* question("> ").
Prompt ==
    /\ main = "prompt"
    /\ \/ NoMoreLines /\ main' = "leaving"
          /\ UNCHANGED <<lineVars, given, exitRequested, idleInterrupts,
                         pendingHostAction, row, turn>>
       \/ LineThere /\ TakeLine /\ HasLine(Head(queue))
       \/ ~NoMoreLines /\ ~LineThere /\ Wait("main") /\ main' = "waiting"
          /\ UNCHANGED <<given, exitRequested, idleInterrupts, pendingHostAction, row,
                         turn>>
    /\ UNCHANGED <<userVars, session, eventVars, rendered, approvals>>

\* What a submit that has ended is followed by.
Onward(action, exit) ==
    IF action = "/clear" THEN "fresh" ELSE IF exit THEN "leaving" ELSE "prompt"

\* handleSlashCommand: the output event carries the action for the host.  runRepl
\* waits until the renderer hands the action over.
Output ==
    /\ main = "submitting" /\ given # "text"
    /\ Pushed(Plain(given))
    /\ main' = IF pendingHostAction = "none" THEN "hostWait"
               ELSE Onward(pendingHostAction, exitRequested)
    /\ UNCHANGED <<lineVars, given, exitRequested, idleInterrupts, pendingHostAction,
                   row, userVars, session, rendered, turn, approvals>>

\* The timer of waitForHostAction.
HostTimeout ==
    /\ main = "hostWait"
    /\ main' = Onward("none", exitRequested)
    /\ UNCHANGED <<lineVars, given, exitRequested, idleInterrupts, pendingHostAction,
                   row, userVars, session, eventVars, rendered, turn, approvals>>

\* createFresh, which may throw.
CreateFresh ==
    /\ main = "fresh"
    /\ \/ main' = "closing" /\ UNCHANGED excused
       \/ main' = "leaving" /\ excused' = TRUE
    /\ UNCHANGED <<lineVars, given, exitRequested, idleInterrupts, pendingHostAction,
                   row, interrupts, session, eventVars, rendered, turn, approvals>>

\* The finally block.
Leave ==
    /\ main = "leaving"
    /\ closed' = tty /\ waiters' = <<>> /\ main' = "closing last"
    /\ consumer' = IF tty /\ consumer = "asking" THEN "next" ELSE consumer
    /\ rendered' = IF tty /\ consumer = "asking" THEN rendered + 1 ELSE rendered
    /\ UNCHANGED <<tty, typed, taken, queue, given, exitRequested, idleInterrupts,
                   pendingHostAction, row, userVars, session, values, index,
                   queueClosed, turn, approvals>>

\* session.close, by switchSession or in the end.
CloseSession ==
    /\ \/ main = "closing" /\ main' = "draining"
       \/ main = "closing last" /\ main' = "draining last"
    /\ QueueCloses
    /\ UNCHANGED <<lineVars, given, exitRequested, idleInterrupts, pendingHostAction,
                   row, userVars, session, rendered, turn, approvals>>

NewSession ==
    /\ session' = session + 1
    /\ values' = <<>> /\ index' = 0 /\ rendered' = 0
    /\ queueClosed' = FALSE /\ consumer' = "next"
    /\ approvals' = [a \in Approvals |-> IF approvals[a] = "none" THEN "none"
                                          ELSE "settled"]
    /\ main' = IF exitRequested THEN "leaving" ELSE "prompt"
    /\ UNCHANGED <<lineVars, given, exitRequested, idleInterrupts, pendingHostAction,
                   row, userVars, turn>>

\* switchSession and startConsumer.
Switch == main = "draining" /\ consumer = "done" /\ NewSession

Exited ==
    /\ main = "draining last" /\ consumer = "done"
    /\ main' = "exited"
    /\ UNCHANGED <<lineVars, given, exitRequested, idleInterrupts, pendingHostAction,
                   row, userVars, session, eventVars, rendered, turn, approvals>>

-------------------------------------------------------------------------------
(***************************************************************************)
(* The turn of the session                                                 *)
(***************************************************************************)
Open == {a \in Approvals : approvals[a] \in {"writing", "pending"}}

Request(a) ==
    /\ turn = "running" /\ Open = {}
    /\ approvals[a] = "none"
    /\ approvals' = [approvals EXCEPT ![a] = "writing"]
    /\ UNCHANGED <<lineVars, loopVars, userVars, session, eventVars, rendered, turn>>

\* approval.requested is written and pushed, also when the turn was aborted
\* while it was written.
Requested(a) ==
    /\ approvals[a] \in {"writing", "stale"}
    /\ approvals' = [approvals EXCEPT ![a] = IF @ = "writing" THEN "pending"
                                              ELSE "settled"]
    /\ Pushed([kind |-> "approval", of |-> a])
    /\ UNCHANGED <<lineVars, loopVars, userVars, session, rendered, turn>>

\* Its submit returns.
TurnEnds ==
    /\ turn # "none" /\ Open = {}
    /\ turn' = "none"
    /\ Pushed(Plain("print"))
    /\ main' = Onward(pendingHostAction, exitRequested)
    /\ UNCHANGED <<lineVars, given, exitRequested, idleInterrupts, pendingHostAction,
                   row, userVars, session, rendered, approvals>>

\* abort: what waits for an approval is denied.
Aborted ==
    /\ turn' = IF turn = "none" THEN "none" ELSE "aborted"
    /\ approvals' = [a \in Approvals |->
           CASE approvals[a] = "writing" -> "stale"
             [] approvals[a] = "pending" -> "settled"
             [] OTHER -> approvals[a]]

-------------------------------------------------------------------------------
(***************************************************************************)
(* EventRenderer and ApprovalPrompt                                        *)
(***************************************************************************)
Rendering(kind) == consumer = "has" /\ values[index].kind = kind

Show ==
    /\ Rendering("print")
    /\ consumer' = "next" /\ rendered' = rendered + 1
    /\ UNCHANGED <<lineVars, loopVars, userVars, session, values, index, queueClosed,
                   turn, approvals>>

\* onHostAction.
HostAction(kind) ==
    /\ Rendering(kind)
    /\ consumer' = "next" /\ rendered' = rendered + 1
    /\ pendingHostAction' = kind
    /\ exitRequested' = (exitRequested \/ kind = "/quit")
    /\ main' = IF main = "hostWait" THEN Onward(kind, exitRequested') ELSE main
    /\ UNCHANGED <<lineVars, given, idleInterrupts, row, userVars, session, values,
                   index, queueClosed, turn, approvals>>

\* ask: without a line the decision is "aborted", and nothing is submitted.
Ask ==
    /\ Rendering("approval")
    /\ \/ NoMoreLines /\ consumer' = "next" /\ rendered' = rendered + 1 /\ UNCHANGED lineVars
       \/ LineThere /\ TakeLine /\ consumer' = "responding" /\ UNCHANGED rendered
       \/ ~NoMoreLines /\ ~LineThere /\ Wait("approval") /\ consumer' = "asking"
          /\ UNCHANGED rendered
    /\ UNCHANGED <<loopVars, userVars, session, values, index, queueClosed, turn,
                   approvals>>

\* approval.respond.  Whether the answer is yes or no is the same to the turn; one
\* that comes too late is an error event.
Respond ==
    /\ consumer = "responding"
    /\ consumer' = "next" /\ rendered' = rendered + 1
    /\ LET a == values[index].of IN
       IF approvals[a] = "pending"
       THEN approvals' = [approvals EXCEPT ![a] = "settled"] /\ UNCHANGED values
       ELSE /\ values' = IF queueClosed THEN values ELSE Append(values, Plain("print"))
            /\ UNCHANGED approvals
    /\ UNCHANGED <<lineVars, loopVars, userVars, session, index, queueClosed, turn>>

-------------------------------------------------------------------------------
(***************************************************************************)
(* The user                                                                *)
(***************************************************************************)
\* push of LineReader: the first who waits gets the line.
Type(line) ==
    /\ tty /\ ~closed
    /\ Len(typed) < MaxTyped /\ \A i \in 1..Len(typed) : typed[i] # line
    /\ typed' = Append(typed, line)
    /\ \/ /\ waiters = <<>>
          /\ queue' = Append(queue, line)
          /\ UNCHANGED <<taken, waiters, loopVars, consumer, turn>>
       \/ /\ waiters # <<>>
          /\ taken' = Append(taken, line) /\ waiters' = Tail(waiters)
          /\ UNCHANGED queue
          /\ \/ Head(waiters) = "main" /\ HasLine(line) /\ UNCHANGED consumer
             \/ Head(waiters) = "approval" /\ consumer' = "responding"
                /\ UNCHANGED <<loopVars, turn>>
    /\ UNCHANGED <<tty, closed, userVars, session, values, index, queueClosed, rendered,
                   approvals>>

\* The terminal is closed.
EndOfInput ==
    /\ tty /\ ~closed
    /\ excused' = TRUE
    /\ Finished
    /\ UNCHANGED <<tty, typed, taken, queue, given, exitRequested, idleInterrupts,
                   pendingHostAction, row, interrupts, session, values, index,
                   queueClosed, turn, approvals>>

IsActive == main \in Submitting \/ consumer = "asking"

\* onSigint while something goes on.  A prompt of runRepl that waits beside a
\* question nobody needs an answer to any more is withdrawn with it.
InterruptActive ==
    /\ IsActive
    /\ Cancelled
    /\ Aborted
    /\ excused' = (excused \/ main = "waiting")
    /\ UNCHANGED <<closed, exitRequested, idleInterrupts, row>>

\* onSigint otherwise: the second one in a row ends the loop.
InterruptIdle ==
    /\ ~IsActive
    /\ idleInterrupts' = idleInterrupts + 1 /\ row' = row + 1
    /\ IF idleInterrupts = 0
       THEN UNCHANGED <<exitRequested, closed, waiters, main, consumer, rendered>>
       ELSE exitRequested' = TRUE /\ Finished
    /\ UNCHANGED <<excused, turn, approvals>>

Interrupt ==
    /\ interrupts < MaxInterrupts
    /\ main \notin {"closing last", "draining last", "exited"}
    /\ interrupts' = interrupts + 1
    /\ InterruptActive \/ InterruptIdle
    /\ UNCHANGED <<tty, typed, taken, queue, given, pendingHostAction, session, values,
                   index, queueClosed>>

-------------------------------------------------------------------------------
Loop ==
    \/ Prompt \/ Output \/ HostTimeout \/ CreateFresh \/ Leave \/ CloseSession \/ Switch
    \/ Exited

Render ==
    \/ NextEvent \/ Show \/ HostAction("/clear") \/ HostAction("/quit") \/ Ask \/ Respond

Session == TurnEnds \/ \E a \in Approvals : Requested(a)

Next ==
    \/ Loop \/ Render \/ Session
    \/ \E a \in Approvals : Request(a)
    \/ \E line \in Lines : Type(line)
    \/ EndOfInput \/ Interrupt

Spec == Init /\ [][Next]_vars

\* The program goes on by itself; the user need not do anything.
FairSpec == Spec /\ WF_vars(Loop) /\ WF_vars(Render) /\ WF_vars(Session)

-------------------------------------------------------------------------------
\* A turn waits for an approval whose question was given up: nothing but Ctrl-C
\* gets it going.
Forgotten ==
    \E a \in Approvals :
        /\ approvals[a] = "pending"
        /\ \E i \in 1..rendered : values[i] = [kind |-> "approval", of |-> a]

\* Every line goes to one reader, in the order typed, type-ahead included; who
\* waits is in the list of waiters once, and who is in the list waits
\* (repl.ts:166-198).
LinesAreShared ==
    /\ TypeOK
    /\ typed = taken \o queue
    /\ main = "waiting" <=> \E i \in 1..Len(waiters) : waiters[i] = "main"
    /\ consumer = "asking" <=> \E i \in 1..Len(waiters) : waiters[i] = "approval"

\* The renderer takes no event before the one in hand is rendered, skips none and
\* ends only when none is left.
EventsShown ==
    /\ index = rendered + (IF consumer \in {"has", "asking", "responding"} THEN 1 ELSE 0)
    /\ consumer = "done" => index = Len(values)

\* "Press Ctrl-C again to exit.": without /quit, a failed switch or the end of the
\* input, the program ends only when Ctrl-C is pressed twice without a line in
\* between, or beside a question that no turn waits for.
ExitIsAsked ==
    main \in {"leaving", "closing last", "draining last", "exited"}
        => excused \/ row >= 2 \/ ~tty \/ \E i \in 1..Len(taken) : KindOf[taken[i]] = "/quit"

\* A session begins only when the one before is all rendered and its turn over,
\* and each /clear that runRepl had begins one at most (repl.ts:125-135).
SwitchesAreClean ==
    [][session' # session =>
          /\ rendered = Len(values) /\ turn = "none" /\ consumer = "done"
          /\ session <= Cardinality({i \in 1..Len(taken) : KindOf[taken[i]] = "/clear"})]_vars

\* The loop at a terminal loses no line and no event, switches sessions between
\* turns and ends when it is asked to (repl.ts:78-207, eventRenderer.ts,
\* AsyncEventQueue.ts).
ReplIsOrderly == [](LinesAreShared /\ EventsShown /\ ExitIsAsked) /\ SwitchesAreClean

\* A line that was submitted comes back, unless a question waits for the user or
\* was forgotten as the input had ended; and "Idle EOF exits the REPL cleanly": a
\* pipe, or a terminal that was closed, ends the program, unless a question was
\* forgotten.
LoopGoesOn ==
    /\ main \in Submitting
           ~> main \notin Submitting \/ consumer = "asking" \/ (Forgotten /\ NoMoreLines)
    /\ (~tty \/ closed) ~> (main = "exited" \/ Forgotten)
===============================================================================
