--------------------------------- MODULE Shell ---------------------------------
(***************************************************************************)
(* runtime/LocalRuntime.ts and runtime/sandbox/createRuntime.ts: shell     *)
(* commands, each a process group that exits, is timed out or aborted, run *)
(* plainly or wrapped by an OS sandbox that the first command initializes, *)
(* and the working directory one command leaves to the next.               *)
(*                                                                         *)
(* Commands of a turn run one after the other; one of an aborted turn goes *)
(* on beside those of the next.                                            *)
(***************************************************************************)
EXTENDS Naturals, FiniteSets

CONSTANTS
    Commands,    \* shell commands
    TurnOf,      \* the turn of each
    NumTurns,    \* bound: turns
    Dirs,        \* directories
    Inside,      \* those in the workspace
    Root,        \* the one the runtime starts in
    None         \* no directory

ASSUME ShellAssumption ==
    /\ NumTurns \in Nat \ {0}
    /\ TurnOf \in [Commands -> 1..NumTurns]
    /\ Inside \subseteq Dirs /\ Root \in Inside /\ None \notin Dirs

VARIABLES
    mode,        \* the configured sandbox mode
    finds,       \* what initializeState comes to
    sandbox,     \* state or statePromise of SandboxRuntimeWrapper
    backends,    \* sandbox backends initialized
    resets,      \* sandbox backends reset
    diagnostics, \* sandbox.status events not yet drained
    told,        \* those drained into a result that counts (for the properties)
    late,        \* the sandbox was asked for after close (for the properties)
    closing,     \* where close is
    cwd,         \* cwd of LocalRuntime
    sandboxCwd,  \* cwd of SandboxRuntimeWrapper
    left,        \* where the last command was in the end (for the properties)
    pc,          \* where a command is
    from,        \* the directory it is started in
    wrapped,     \* whether it has been wrapped
    group,       \* its living processes
    stubborn,    \* those of them that ignore SIGTERM
    listening,   \* whether its abort listener is registered
    timer,       \* whether its timeout is armed
    timedOut,    \* timedOut of executeShell
    killTimers,  \* force kill timers that are armed
    turn,        \* the latest turn
    aborted      \* turns whose signal is aborted

reportVars == <<diagnostics, told>>
sandboxVars == <<mode, finds, sandbox, backends, resets, late, closing>>
cwdVars == <<cwd, sandboxCwd, left>>
processVars == <<group, stubborn, listening, timer, timedOut, killTimers>>
turnVars == <<turn, aborted>>
vars ==
    <<sandboxVars, reportVars, cwdVars, pc, from, wrapped, processVars, turnVars>>

InFlight == {"state", "wrapping", "resolving", "writing", "running",
             "exiting", "reading", "wrapReading", "returned", "thrown"}
Ended == {"done", "failed"}
Processes == {"leader", "child"}

TypeOK ==
    /\ mode \in {"off", "auto", "required"}
    /\ finds \in {"backend", "nothing", "bad settings", "error"}
    /\ sandbox \in {"none", "pending", "active", "fallback", "unavailable", "rejected"}
    /\ backends \in 0..1 /\ resets \in 0..1 /\ late \in BOOLEAN
    /\ diagnostics \in 0..1 /\ told \in 0..1
    /\ closing \in {"open", "waiting", "closed"}
    /\ cwd \in Dirs /\ sandboxCwd \in Dirs /\ left \in Dirs
    /\ pc \in [Commands -> {"idle"} \union InFlight \union Ended]
    /\ from \in [Commands -> Dirs]
    /\ wrapped \in [Commands -> BOOLEAN]
    /\ group \in [Commands -> SUBSET Processes]
    /\ stubborn \in [Commands -> SUBSET Processes]
    /\ listening \in [Commands -> BOOLEAN]
    /\ timer \in [Commands -> BOOLEAN]
    /\ timedOut \in [Commands -> BOOLEAN]
    /\ killTimers \in [Commands -> 0..2]
    /\ turn \in 1..NumTurns /\ aborted \subseteq 1..NumTurns

Init ==
    /\ mode \in {"off", "auto", "required"}
    /\ finds \in {"backend", "nothing", "bad settings", "error"}
    /\ mode = "off" => finds = "nothing"
    /\ sandbox = "none" /\ backends = 0 /\ resets = 0 /\ late = FALSE
    /\ diagnostics = 0 /\ told = 0
    /\ closing = "open"
    /\ cwd = Root /\ sandboxCwd = Root /\ left = Root
    /\ pc = [c \in Commands |-> "idle"]
    /\ from = [c \in Commands |-> Root]
    /\ wrapped = [c \in Commands |-> FALSE]
    /\ group = [c \in Commands |-> {}]
    /\ stubborn = [c \in Commands |-> {}]
    /\ listening = [c \in Commands |-> FALSE]
    /\ timer = [c \in Commands |-> FALSE]
    /\ timedOut = [c \in Commands |-> FALSE]
    /\ killTimers = [c \in Commands |-> 0]
    /\ turn = 1 /\ aborted = {}

IsAborted(c) == TurnOf[c] \in aborted
Goto(c, label) == pc' = [pc EXCEPT ![c] = label]

-------------------------------------------------------------------------------
(***************************************************************************)
(* SandboxRuntimeWrapper                                                   *)
(***************************************************************************)
\* Wrong: the directory of the plain runtime, whoever ran the last command.
LocalCwd == cwd

GetCwd == IF sandbox = "active" THEN sandboxCwd ELSE cwd

\* getState: the first command has the sandbox initialized for all.
Asked == IF sandbox = "none" THEN "pending" ELSE sandbox

\* executeShell of the bash tool's runtime, up to its first await.  A command
\* that is aborted already goes to LocalRuntime, which does not start it.
Start(c) ==
    /\ pc[c] = "idle"
    /\ TurnOf[c] = turn \/ IsAborted(c)
    /\ \A d \in Commands : TurnOf[d] = TurnOf[c] => pc[d] \notin InFlight
    /\ from' = [from EXCEPT ![c] = GetCwd]
    /\ IF mode = "off" \/ IsAborted(c)
       THEN Goto(c, "resolving") /\ UNCHANGED <<sandbox, late>>
       ELSE /\ Goto(c, "state")
            /\ sandbox' = Asked
            /\ late' = (late \/ (sandbox = "none" /\ closing # "open"))
    /\ UNCHANGED <<mode, finds, backends, resets, closing, reportVars, cwdVars,
                   wrapped, processVars, turnVars>>

\* Wrong: settings of the user that are no good count as no sandbox.
FallBackInAuto ==
    IF mode = "auto" THEN "fallback" ELSE "unavailable"

\* unavailableState: explicit settings that cannot be used fail closed.
Unavailable ==
    IF mode = "auto" /\ finds # "bad settings" THEN "fallback" ELSE "unavailable"

\* initializeState.  A check that throws where nothing catches it leaves a
\* rejected promise that is never replaced.
Initialized ==
    /\ sandbox = "pending"
    /\ sandbox' = CASE finds = "backend" -> "active"
                    [] finds = "error" -> "rejected"
                    [] OTHER -> Unavailable
    /\ backends' = IF finds = "backend" THEN backends + 1 ELSE backends
    /\ diagnostics' = IF finds = "error" THEN diagnostics ELSE diagnostics + 1
    /\ UNCHANGED <<mode, finds, resets, late, closing, told, cwdVars, pc, from,
                   wrapped, processVars, turnVars>>

HaveState(c) ==
    /\ pc[c] = "state"
    /\ \/ sandbox \in {"unavailable", "rejected"} /\ Goto(c, "thrown")
       \/ sandbox = "fallback" /\ Goto(c, "resolving")
       \/ sandbox = "active" /\ Goto(c, "wrapping")
    /\ UNCHANGED <<sandboxVars, reportVars, cwdVars, from, wrapped, processVars,
                   turnVars>>

\* The marker file is written, then wrapWithSandbox ends, one way or the other.
Wrap(c) ==
    /\ pc[c] = "wrapping"
    /\ \/ Goto(c, "resolving") /\ wrapped' = [wrapped EXCEPT ![c] = TRUE]
       \/ Goto(c, "thrown") /\ UNCHANGED wrapped
    /\ UNCHANGED <<sandboxVars, reportVars, cwdVars, from, processVars,
                   turnVars>>

\* The wrapped command has ended: the marker holds where it was in the end, or
\* nothing when it was killed; cleanupAfterCommand follows.
MarkerRead(c) ==
    /\ pc[c] = "wrapReading"
    /\ \E dir \in Dirs \union {None} :
          /\ sandboxCwd' = IF dir \in Inside THEN dir ELSE sandboxCwd
          /\ left' = IF dir \in Inside THEN dir ELSE left
    /\ Goto(c, "returned")
    /\ UNCHANGED <<sandboxVars, reportVars, cwd, from, wrapped, processVars,
                   turnVars>>

\* Wrong: resets what is there and does not wait for what is on its way.
CloseAtOnce ==
    /\ closing = "open"
    /\ closing' = "closed"
    /\ resets' = IF sandbox = "active" THEN resets + 1 ELSE resets
    /\ UNCHANGED <<mode, finds, sandbox, backends, late, reportVars, cwdVars,
                   pc, from, wrapped, processVars, turnVars>>

\* close waits for an initialization under way, then resets the backend.
Close ==
    /\ \/ closing = "open"
       \/ closing = "waiting" /\ sandbox # "pending"
    /\ IF sandbox = "pending"
       THEN closing' = "waiting" /\ UNCHANGED resets
       ELSE /\ closing' = "closed"
            /\ resets' = IF sandbox = "active" THEN resets + 1 ELSE resets
    /\ UNCHANGED <<mode, finds, sandbox, backends, late, reportVars, cwdVars,
                   pc, from, wrapped, processVars, turnVars>>

-------------------------------------------------------------------------------
(***************************************************************************)
(* LocalRuntime.executeShell                                               *)
(***************************************************************************)
\* What the result of a command that ran is handed to.  The marker of one that
\* never ran is empty.
After(c) == IF wrapped[c] THEN "wrapReading" ELSE "returned"

\* resolveCwd, and the one look at the signal.
Resolved(c) ==
    /\ pc[c] = "resolving"
    /\ \/ from[c] \in Inside /\ Goto(c, IF IsAborted(c) THEN "returned" ELSE "writing")
       \/ Goto(c, "thrown")
    /\ UNCHANGED <<sandboxVars, reportVars, cwdVars, from, wrapped, processVars,
                   turnVars>>

\* The directory file is written and bash spawned, with processes in the
\* background and any of them deaf to SIGTERM; the abort listener and the
\* timeout are set.  An abort that came meanwhile is never heard of.  Writing or
\* spawn throws, or the child has its error event before anything else happens.
Spawn(c) ==
    /\ pc[c] = "writing"
    /\ \/ /\ Goto(c, "running")
          /\ \E g \in {{"leader"}, Processes} :
                /\ group' = [group EXCEPT ![c] = g]
                /\ \E deaf \in SUBSET g : stubborn' = [stubborn EXCEPT ![c] = deaf]
          /\ listening' = [listening EXCEPT ![c] = ~IsAborted(c)]
          /\ timer' = [timer EXCEPT ![c] = TRUE]
       \/ /\ Goto(c, "thrown") \/ Goto(c, "returned")
          /\ UNCHANGED <<group, stubborn, listening, timer>>
    /\ UNCHANGED <<sandboxVars, reportVars, cwdVars, from, wrapped, timedOut,
                   killTimers, turnVars>>

\* Wrong: asks the group to go and leaves it at that.
TermOnly(cs) ==
    /\ group' = [c \in Commands |-> IF c \in cs THEN group[c] \intersect stubborn[c]
                                    ELSE group[c]]
    /\ UNCHANGED killTimers

\* scheduleKill: SIGTERM to the group, SIGKILL after a grace.
ScheduleKill(cs) ==
    /\ group' = [c \in Commands |-> IF c \in cs THEN group[c] \intersect stubborn[c]
                                    ELSE group[c]]
    /\ killTimers' = [c \in Commands |-> IF c \in cs THEN killTimers[c] + 1
                                         ELSE killTimers[c]]

Timeout(c) ==
    /\ timer[c]
    /\ timer' = [timer EXCEPT ![c] = FALSE]
    /\ timedOut' = [timedOut EXCEPT ![c] = TRUE]
    /\ ScheduleKill({c})
    /\ UNCHANGED <<sandboxVars, reportVars, cwdVars, pc, from, wrapped,
                   stubborn, listening, turnVars>>

ForceKill(c) ==
    /\ killTimers[c] > 0
    /\ killTimers' = [killTimers EXCEPT ![c] = @ - 1]
    /\ group' = [group EXCEPT ![c] = {}]
    /\ stubborn' = [stubborn EXCEPT ![c] = {}]
    /\ UNCHANGED <<sandboxVars, reportVars, cwdVars, pc, from, wrapped,
                   listening, timer, timedOut, turnVars>>

\* The shell or a process in its background ends by itself.
Ends(c) ==
    /\ \E p \in group[c] :
          /\ group' = [group EXCEPT ![c] = @ \ {p}]
          /\ stubborn' = [stubborn EXCEPT ![c] = @ \ {p}]
    /\ UNCHANGED <<sandboxVars, reportVars, cwdVars, pc, from, wrapped,
                   listening, timer, timedOut, killTimers, turnVars>>

\* Wrong: what the shell leaves in the background is let be.
ExitQuietly(c) ==
    /\ pc[c] = "running" /\ "leader" \notin group[c]
    /\ Goto(c, "exiting")
    /\ UNCHANGED <<sandboxVars, reportVars, cwdVars, from, wrapped, processVars,
                   turnVars>>

\* The exit event of the shell: what it left in the background is told to go.
Exit(c) ==
    /\ pc[c] = "running" /\ "leader" \notin group[c]
    /\ Goto(c, "exiting")
    /\ group' = [group EXCEPT ![c] = @ \intersect stubborn[c]]
    /\ UNCHANGED <<sandboxVars, reportVars, cwdVars, from, wrapped, stubborn,
                   listening, timer, timedOut, killTimers, turnVars>>

\* finish: the timeout and the latest force kill are cancelled.
Finish(c) ==
    /\ pc[c] = "exiting"
    /\ Goto(c, "reading")
    /\ listening' = [listening EXCEPT ![c] = FALSE]
    /\ timer' = [timer EXCEPT ![c] = FALSE]
    /\ killTimers' = [killTimers EXCEPT ![c] = IF @ = 2 THEN 1 ELSE 0]
    /\ UNCHANGED <<sandboxVars, reportVars, cwdVars, from, wrapped, group,
                   stubborn, timedOut, turnVars>>

\* Wrong: the directory is taken as it comes.
CwdReadAnywhere(c) ==
    /\ pc[c] = "reading"
    /\ \E dir \in (IF wrapped[c] THEN {from[c]} ELSE Dirs) \union {None} :
          /\ cwd' = IF dir # None THEN dir ELSE cwd
          /\ left' = IF ~wrapped[c] /\ dir \in Inside THEN dir ELSE left
    /\ Goto(c, After(c))
    /\ UNCHANGED <<sandboxVars, reportVars, sandboxCwd, from, wrapped,
                   processVars, turnVars>>

\* readFinalCwd.  A wrapped command changes directory in a process of its own.
CwdRead(c) ==
    /\ pc[c] = "reading"
    /\ \E dir \in (IF wrapped[c] THEN {from[c]} ELSE Dirs) \union {None} :
          /\ cwd' = IF dir \in Inside THEN dir ELSE cwd
          /\ left' = IF ~wrapped[c] /\ dir \in Inside THEN dir ELSE left
    /\ Goto(c, After(c))
    /\ UNCHANGED <<sandboxVars, reportVars, sandboxCwd, from, wrapped,
                   processVars, turnVars>>

\* The diagnostics are drained into the tool result, error or not; that of an
\* aborted turn is thrown away, and they with it.
Report(c) ==
    /\ pc[c] \in {"returned", "thrown"}
    /\ Goto(c, IF pc[c] = "returned" THEN "done" ELSE "failed")
    /\ diagnostics' = 0
    /\ told' = IF IsAborted(c) THEN told ELSE told + diagnostics
    /\ UNCHANGED <<sandboxVars, cwdVars, from, wrapped, processVars, turnVars>>

-------------------------------------------------------------------------------
\* The turn is aborted: the listeners of its commands run at once.
Abort ==
    /\ turn \notin aborted
    /\ aborted' = aborted \union {turn}
    /\ ScheduleKill({c \in Commands : listening[c] /\ TurnOf[c] = turn})
    /\ listening' = [c \in Commands |-> listening[c] /\ TurnOf[c] # turn]
    /\ UNCHANGED <<sandboxVars, reportVars, cwdVars, pc, from, wrapped,
                   stubborn, timer, timedOut, turn>>

NextTurn ==
    /\ turn < NumTurns
    /\ turn \in aborted \/ \A c \in Commands : TurnOf[c] = turn => pc[c] \notin InFlight
    /\ turn' = turn + 1
    /\ UNCHANGED <<sandboxVars, reportVars, cwdVars, pc, from, wrapped,
                   processVars, aborted>>

\* What the runtime does by itself, and its timers.
Step(c) ==
    \/ HaveState(c) \/ Wrap(c) \/ MarkerRead(c)
    \/ Resolved(c) \/ Spawn(c) \/ Exit(c) \/ Finish(c) \/ CwdRead(c) \/ Report(c)

Next ==
    \/ \E c \in Commands :
          Start(c) \/ Step(c) \/ Timeout(c) \/ ForceKill(c) \/ Ends(c)
    \/ Initialized \/ Close \/ Abort \/ NextTurn

Spec == Init /\ [][Next]_vars

\* Commands need not end by themselves.
FairSpec ==
    /\ Spec
    /\ WF_vars(Initialized)
    /\ \A c \in Commands : WF_vars(Step(c)) /\ WF_vars(Timeout(c)) /\ WF_vars(ForceKill(c))

-------------------------------------------------------------------------------
\* A command runs outside the sandbox only where the user does not ask for one,
\* or takes what there is, there is none, and the settings are not at fault.
Sandboxed ==
    \A c \in Commands : group[c] # {} /\ ~wrapped[c]
        => mode = "off" \/ (mode = "auto" /\ sandbox = "fallback" /\ finds = "nothing")

\* "Tracks cwd only when final cwd stays inside workspace": wherever commands
\* go, none is started outside, and while nothing is aborted each is started
\* where the one before it was in the end, sandboxed or not.
CwdTracked ==
    /\ {cwd, sandboxCwd} \subseteq Inside
    /\ \A c \in Commands : group[c] # {} => from[c] \in Inside
    /\ aborted = {} /\ (\A c \in Commands : pc[c] \notin InFlight) => GetCwd = left

\* "Background child is cleaned up even when parent exits immediately": what
\* outlives a command are processes that ignore SIGTERM; and no SIGKILL goes off
\* when a command has ended, unless it was timed out and aborted at once.
SignalsAreAimed ==
    \A c \in Commands :
        /\ pc[c] # "running" => group[c] \subseteq stubborn[c] \ {"leader"}
        /\ killTimers[c] > 0 /\ pc[c] \notin {"running", "exiting"}
               => timedOut[c] /\ IsAborted(c)

\* How the sandbox came out is told once, with the first command that needed it,
\* also one that was refused for it; and "Session close resets an active sandbox
\* runtime", one it has to wait for too (createRuntime.ts:386-402).
SandboxAccounted ==
    /\ TypeOK
    /\ aborted = {} /\ (\A c \in Commands : pc[c] \notin InFlight)
        => told = IF sandbox \in {"active", "fallback", "unavailable"} THEN 1 ELSE 0
    /\ closing = "closed" /\ ~late /\ sandbox # "pending" => resets = backends

\* A command runs in the sandbox the user asks for and in the directory the one
\* before it went to, and a sandbox is told of and given back
\* (createRuntime.ts:60-402, LocalRuntime.ts).
CommandsAreContained == Sandboxed /\ CwdTracked /\ SandboxAccounted

\* Every command ends, though its processes ignore SIGTERM and its abort was
\* not heard of.
CommandsEnd == \A c \in Commands : pc[c] \in InFlight ~> pc[c] \in Ended
===============================================================================
