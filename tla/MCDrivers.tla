------------------------------- MODULE MCDrivers -------------------------------
(***************************************************************************)
(* The programs around a session, one of them at a time while the others   *)
(* rest: the loop at a terminal, a run with one prompt, the profile of a   *)
(* session, series of such runs, and the programs of evals/.               *)
(***************************************************************************)
EXTENDS MatrixRuns, ProviderProxy, SwebenchRun, TerminalBenchRun, SelfEval,
        Repl, OneShot, LiveRuns, Profiling

VARIABLE part

-----------------------------------------------------------------------------
(* The matrix: a ready coder and a draft, up to two tasks for swebench, one  *)
(* for terminal-bench, doubled names, one or two workers.                    *)
TwoAdapters ==
    [lightcc |-> [status |-> "ready", targets |-> Benchmarks],
     draft   |-> [status |-> "draft", targets |-> {"swebench"}]]
OneRequest ==
    [coders |-> <<"lightcc">>, benchmarks |-> <<>>,
     tasks |-> [b \in Benchmarks |-> <<"x">>], generic |-> <<>>,
     mode |-> "run", allowDraftReal |-> FALSE, allowLargeRun |-> FALSE, maxJobs |-> 3,
     concurrency |-> 2, proxy |-> TRUE, baseUrl |-> FALSE, profileCoders |-> {}]
SomeRequests == UNION {
    {[OneRequest EXCEPT !.coders = c, !.allowDraftReal = d, !.mode = m] :
        c \in {<<>>, <<"lightcc", "lightcc">>, <<"lightcc", "draft">>},
        d \in BOOLEAN, m \in {"run", "dry-run"}},
    {[OneRequest EXCEPT !.benchmarks = b, !.tasks["swebench"] = s,
                        !.tasks["terminal-bench"] = <<>>, !.generic = g] :
        b \in {<<>>, <<"swebench", "swebench">>, <<"terminal-bench">>},
        s \in {<<>>, <<"x", "y">>}, g \in {<<>>, <<"z", "x">>}},
    {[OneRequest EXCEPT !.proxy = p, !.baseUrl = u, !.profileCoders = f, !.concurrency = n] :
        p, u \in BOOLEAN, f \in {{}, {"lightcc"}}, n \in {0, 1, 2}}}

\* Streams that end their lines with LF or with CR LF.
StreamEvent(u, t, e) == [usage |-> u, token |-> t, ends |-> e]
TwoStreams == {<<StreamEvent(0, TRUE, e), StreamEvent(2, FALSE, e)>> : e \in {"lf", "crlf"}}

-----------------------------------------------------------------------------
(* swebench: six instances of two repositories.                              *)
SixInstances == [a |-> "r1", b |-> "r1", c |-> "r2", d |-> "r1", e |-> "r1", f |-> "r1"]
Tasksets == {[kind |-> "none", ids |-> <<>>], [kind |-> "instances", ids |-> <<"b", "a">>],
             [kind |-> "instances", ids |-> <<"a", "b", "c", "d", "e", "f">>],
             [kind |-> "ids", ids |-> <<"a">>]}
OneSwebench ==
    [dryRun |-> FALSE, runAgent |-> FALSE, evaluate |-> FALSE, gold |-> FALSE,
     predictionsGiven |-> FALSE, preflight |-> FALSE,
     coder |-> [status |-> "ready", targets |-> {"swebench"}],
     taskset |-> [kind |-> "instances", ids |-> <<"b", "a">>], instances |-> {}, limit |-> 0,
     allowLargeRun |-> FALSE, cache |-> Absent, offline |-> FALSE, timeout |-> TRUE,
     keep |-> FALSE, defaultDir |-> TRUE, leftover |-> {}]
SomeSwebench == UNION {
    {[OneSwebench EXCEPT !.dryRun = d, !.runAgent = r, !.evaluate = v, !.gold = g,
                         !.predictionsGiven = p, !.preflight = f] : d, r, v, g, p, f \in BOOLEAN},
    {[OneSwebench EXCEPT !.runAgent = r, !.preflight = f, !.taskset = t, !.offline = o, !.cache = h] :
        r, f, o \in BOOLEAN, t \in Tasksets, h \in {Absent, {"r1"}, {"r1", "r2"}}},
    {[OneSwebench EXCEPT !.taskset = t, !.instances = i, !.limit = n, !.allowLargeRun = l,
                         !.evaluate = TRUE, !.predictionsGiven = TRUE] :
        t \in Tasksets, i \in {{}, {"a"}, {"c"}}, n \in 0..1, l \in BOOLEAN},
    {[OneSwebench EXCEPT !.runAgent = TRUE, !.keep = k, !.defaultDir = d, !.leftover = l] :
        k, d \in BOOLEAN, l \in {{}, {"b"}}},
    {[OneSwebench EXCEPT !.runAgent = TRUE, !.coder = c] :
        c \in {[status |-> "draft", targets |-> {"swebench"}], [status |-> "ready", targets |-> {}]}}}

-----------------------------------------------------------------------------
(* terminal-bench.                                                           *)
OneTbench ==
    [dryRun |-> FALSE, runHarbor |-> TRUE, tasks |-> <<"x">>, tasksFile |-> Missing, limit |-> 0,
     preflight |-> FALSE, allowLargeRun |-> FALSE, install |-> "online", mounts |-> <<>>,
     runtimeInstalled |-> FALSE, allowUnverified |-> FALSE, attempts |-> 1, hosts |-> {},
     baseUrl |-> Missing,
     coder |-> [id |-> "lightcc", status |-> "ready", targets |-> {"terminal-bench"}, fromPath |-> FALSE]]
SomeTbench == UNION {
    {[OneTbench EXCEPT !.dryRun = d, !.runHarbor = r, !.preflight = p, !.allowLargeRun = l,
                       !.tasks = t, !.limit = n] :
        d, r, p, l \in BOOLEAN, t \in {<<>>, <<"x", "y", "x">>}, n \in {0, 2, 6}},
    {[OneTbench EXCEPT !.tasksFile = <<"y", "x">>, !.attempts = n, !.allowLargeRun = l] :
        n \in {2, 3}, l \in BOOLEAN},
    {[OneTbench EXCEPT !.runHarbor = r, !.install = i, !.mounts = m, !.runtimeInstalled = x,
                       !.preflight = p, !.allowUnverified = u, !.coder.id = c] :
        r, x, p, u \in BOOLEAN, i \in {"online", "mounted"}, m \in {<<>>, <<"runtime">>},
        c \in {"lightcc", "openhands", "other"}},
    {[OneTbench EXCEPT !.coder.status = s, !.coder.targets = t, !.coder.fromPath = f, !.baseUrl = "h"] :
        s \in {"draft", "ready"}, t \in {{}, {"terminal-bench"}}, f \in BOOLEAN}}

-----------------------------------------------------------------------------
(* self: a fixture that asks for approval, with and without an answer, and   *)
(* one of two steps.                                                         *)
OneFixture ==
    [order |-> 1, script |-> <<<<"write", "bash">>, <<>>>>, asking |-> {"bash"},
     autoApprove |-> "deny", initialFiles |-> {"seed"},
     expect |-> [files |-> {"seed", "write"}, missing |-> {"bash"}, paired |-> TRUE,
                 exactly |-> [toolErrors |-> 1, denials |-> 1], atLeast |-> [toolCalls |-> 1]]]
TwoFixtures ==
    [denied |-> OneFixture,
     edits |-> [OneFixture EXCEPT !.order = 0, !.script = <<<<"write">>, <<"edit">>>>,
                    !.autoApprove = "none", !.expect.files = {"write", "edit"},
                    !.expect.exactly = [toolResults |-> 2, toolErrors |-> 0]],
     waits |-> [OneFixture EXCEPT !.order = 2, !.autoApprove = "none"]]
SomeSelf ==
    {[bad |-> b, list |-> l, keep |-> k, fixture |-> f] :
        b, l, k \in BOOLEAN, f \in DOMAIN TwoFixtures \union {NoFixture, "unknown"}}

-----------------------------------------------------------------------------
(* What is typed, and transcripts.                                          *)

\* What is typed: two messages, a blank line, /clear and /quit; or a pipe.
MCLines == {"hi", "y", "", "/clear", "/quit"}
MCKindOf ==
    [line \in MCLines |-> CASE line \in {"hi", "y"} -> "text"
                            [] line = "" -> "blank"
                            [] OTHER -> line]
MCPipes == {<<>>, <<"hi", "y">>, <<"hi", "/clear", "y", "/quit">>, <<"", "/quit", "hi">>}

\* Transcripts without spans, of a quick run and of a slow one that uses a tool.
Span(id, cat, name, start, dur, attrs) ==
    [type |-> "profile.span", id |-> id, name |-> name, category |-> cat, status |-> "ok",
     start |-> start, dur |-> dur, attrs |-> attrs]
TurnStarted == [type |-> "turn.started"]
WriteSpan(n, ms) ==
    Span(9, "transcript", "transcript.write", 9, ms,
         [writes |-> n, ms |-> ms, maxMs |-> ms, profilerWrites |-> 2, profilerMs |-> 1])
WithoutSpans == <<TurnStarted>>
QuickRun == <<TurnStarted, Span(1, "provider", "provider.step", 0, 2, [firstTokenMs |-> 1, tokens |-> 5]),
              WriteSpan(1, 1)>>
SlowRun == <<TurnStarted, Span(1, "provider", "provider.step", 0, 5, [firstTokenMs |-> 4, tokens |-> 5]),
             Span(2, "tool", "tool.execute", 5, 2, [toolName |-> "bash"]),
             [type |-> "permission.decision", decision |-> "deny", tool |-> "bash"],
             [type |-> "bash.observation", dur |-> 2, exit |-> 1, timedOut |-> FALSE, truncated |-> TRUE],
             [type |-> "context.step", tokens |-> 9], WriteSpan(1, 4)>>
MCTranscripts == {WithoutSpans, QuickRun, SlowRun}
MCLeftovers == {QuickRun}
Gate(f) == [comparable |-> 2, warn |-> 150, fail |-> f, warnDelta |-> 1, failDelta |-> 3]
MCThresholds == [duration |-> Gate(200), runtime |-> Gate(300), writes |-> Gate(300),
                 tokens |-> [warn |-> 125, delta |-> 2]]

MCSpanKinds ==
    {[name |-> "provider.step", category |-> "provider", attrs |-> [tokens |-> 3],
      marked |-> "firstTokenMs", statuses |-> {"ok"}],
     [name |-> "tool.execute", category |-> "tool", attrs |-> [toolName |-> "bash"],
      marked |-> None, statuses |-> {"error"}]}
MCDiagnostics == {[type |-> "bash.observation", dur |-> 1, exit |-> 1, timedOut |-> FALSE, truncated |-> TRUE]}

-------------------------------------------------------------------------------
Suites == <<matrixVars, proxyVars>>
Harnesses == <<swVars, tbVars, selfVars>>
Profiles == <<liveVars, profilingVars>>

\* A loop that was left, and a run that has ended.
ReplRests ==
    /\ tty = TRUE /\ typed = <<>> /\ taken = <<>> /\ queue = <<>> /\ waiters = <<>> /\ closed = FALSE
    /\ main = "exited" /\ given = "text" /\ exitRequested = FALSE
    /\ idleInterrupts = 0 /\ row = 2 /\ pendingHostAction = "none"
    /\ interrupts = 2 /\ excused = FALSE
    /\ session = 1 /\ values = <<>> /\ index = 0 /\ rendered = 0
    /\ queueClosed = TRUE /\ consumer = "done"
    /\ turn = "none" /\ approvals = [a \in Approvals |-> "none"]
OneShotRests ==
    /\ stage = "done" /\ mode = Nobody
    /\ servers = 0 /\ emitted = 0 /\ counted = 0 /\ queueShut = TRUE
    /\ files = <<>> /\ directory = FALSE
    /\ current = Nobody /\ exitCode = 0
    /\ runFaults = 0 /\ missed = [close |-> FALSE, artifacts |-> 0]

Rest(p, condition) == part = p \/ condition

DInit ==
    /\ part \in {"repl", "oneshot", "matrix", "proxy", "swebench", "terminal-bench", "self", "live", "profile"}
    /\ IF part = "repl" THEN Init ELSE ReplRests
    /\ IF part = "oneshot" THEN OneShotInit ELSE OneShotRests
    /\ Rest("matrix", request = OneRequest) /\ MatrixInit
    /\ ProxyInit
    /\ Rest("swebench", opts = OneSwebench) /\ SwebenchInit
    /\ Rest("terminal-bench", tb = OneTbench /\ resultFile = Missing) /\ TbenchInit
    /\ Rest("self", options = CHOOSE o \in SomeSelf : o.list /\ ~o.bad) /\ SelfInit
    /\ Rest("live", left = <<>>) /\ LiveInit
    /\ Rest("profile", enabled = TRUE) /\ ProfilingInit

InRepl == part = "repl" /\ Next /\ UNCHANGED <<part, oneShotVars, Suites, Harnesses, Profiles>>

InOneShot == part = "oneshot" /\ OneShotNext /\ UNCHANGED <<part, vars, Suites, Harnesses, Profiles>>

InSuites ==
    /\ UNCHANGED <<part, vars, oneShotVars, Harnesses, Profiles>>
    /\ \/ part = "matrix" /\ MatrixNext /\ UNCHANGED proxyVars
       \/ part = "proxy" /\ ProxyNext /\ UNCHANGED matrixVars

InHarnesses ==
    /\ UNCHANGED <<part, vars, oneShotVars, Suites, Profiles>>
    /\ \/ part = "swebench" /\ SwebenchNext /\ UNCHANGED <<tbVars, selfVars>>
       \/ part = "terminal-bench" /\ TbenchNext /\ UNCHANGED <<swVars, selfVars>>
       \/ part = "self" /\ SelfNext /\ UNCHANGED <<swVars, tbVars>>

InProfiles ==
    /\ UNCHANGED <<part, vars, oneShotVars, Suites, Harnesses>>
    /\ \/ part = "live" /\ LiveNext /\ UNCHANGED profilingVars
       \/ part = "profile" /\ ProfilingNext /\ UNCHANGED liveVars

DNext == InRepl \/ InOneShot \/ InSuites \/ InHarnesses \/ InProfiles

driverVars == <<part, vars, oneShotVars, Suites, Harnesses, Profiles>>

\* The fairness of Repl and OneShot: what promises and timers are due is done.
DSpec ==
    /\ DInit /\ [][DNext]_driverVars
    /\ WF_vars(Loop) /\ WF_vars(Render) /\ WF_vars(Session)
    /\ WF_oneShotVars(OneShotNext)

-------------------------------------------------------------------------------
(* Of the program that runs.                                                *)

\* A run with one prompt ends, and the loop at a terminal goes on (main.ts:226-270,
\* repl.ts:78-164).
ProgramsGoOn == LoopGoesOn /\ OneShotEnds

\* What a run of an evaluation reports of its instances, tasks or fixtures is what has
\* happened, whichever step of it fails (evals/swebench, evals/terminal-bench,
\* evals/self); a profile is that of the session, the summary of repeated runs that of
\* the runs that count, and two reports are compared as they are (profiling/profiler.ts,
\* profiling/report, profiling/liveRuns).
ReportsAreTrue ==
    /\ part = "swebench" => SwebenchRunIsTrue /\ PreflightForesees
    /\ part = "terminal-bench" => TerminalBenchRunIsTrue
    /\ part = "self" => SelfEvalIsTrue
    /\ part = "profile" => ReportIsTheSession
    /\ part = "live" => LiveSummaryIsTrue /\ ComparisonIsFair
===============================================================================
