------------------------------- MODULE SelfEval -------------------------------
(***************************************************************************)
(* evals/self/run.ts: fixtures, each a scripted provider in a workspace of  *)
(* its own, are run one after the other; a second loop reads the session's  *)
(* events and answers its approval requests.  What the log says is counted  *)
(* and compared with what the fixture expects.  A failure inside a fixture  *)
(* is its result, one outside ends the run without a summary.               *)
(***************************************************************************)
EXTENDS Integers, Sequences, SequencesExt, FiniteSets, FiniteSetsExt

CONSTANTS
    Fixtures,      \* [name -> fixture]
    SelfOptions,   \* command lines
    NoFixture,
    MaxSelfFaults  \* bound: failures of files and log writes

ASSUME SelfAssumption ==
    /\ MaxSelfFaults \in Nat
    /\ NoFixture \notin DOMAIN Fixtures

\* A fixture's script is one sequence of calls per step; a call's name says
\* whether it asks for approval, and the answer is autoApprove.
Calls(f, s) == Fixtures[f].script[s]

-----------------------------------------------------------------------------
(* Metrics (buildMetrics).                                                  *)

EventsOf(log, type) == SelectSeq(log, LAMBDA e : e.type = type)

\* validateToolEventPairing: each step has its calls and its results in the
\* order of its message, and no step has any without a message.
ToolEventsPaired(log) ==
    LET asking == {m \in Range(EventsOf(log, "assistant.message")) : m.calls # <<>>}
        within(s, type) == SelectSeq(EventsOf(log, type), LAMBDA e : e.step = s)
        ids(events) == [k \in DOMAIN events |-> events[k].id]
    IN  /\ \A m \in asking : \A type \in {"tool.call", "tool.result"} :
              ids(within(m.step, type)) = m.calls
        /\ \A e \in Range(EventsOf(log, "tool.call") \o EventsOf(log, "tool.result")) :
              \E m \in asking : m.step = e.step

\* canReplay is Transcript's business; the other counters are alike.
BuildMetrics(log) ==
    [toolCalls |-> Len(EventsOf(log, "tool.call")),
     toolResults |-> Len(EventsOf(log, "tool.result")),
     toolErrors |-> Len(SelectSeq(EventsOf(log, "tool.result"), LAMBDA e : e.error)),
     denials |-> Len(SelectSeq(EventsOf(log, "approval.responded"), LAMBDA e : e.error)),
     paired |-> ToolEventsPaired(log)]

\* verifyFixture: `expect` gives an exact number, a least number or nothing for
\* each counter, and the files that must be there or must not.
Verified(f, metrics, files) ==
    LET expect == Fixtures[f].expect IN
    /\ expect.files \subseteq files /\ expect.missing \intersect files = {}
    /\ \A c \in DOMAIN expect.exactly : metrics[c] = expect.exactly[c]
    /\ \A c \in DOMAIN expect.atLeast : metrics[c] >= expect.atLeast[c]
    /\ expect.paired => metrics.paired

-----------------------------------------------------------------------------
VARIABLES
    selfStage,
    options,
    waiting,     \* the fixtures still to run, sorted
    fixture,     \* the one that runs, or NoFixture
    fixtureSession,     \* its step, its next call and what it waits for
    events,      \* its log, which is also its event queue
    read,        \* events the collector has taken
    collector,   \* "off", "reads", "ended" or "rejected"
    onDisk,      \* its workspace: files, or NoFixture
    leftovers,   \* workspaces nobody removed
    fixtureResults,
    metricsFile, \* [fixture -> status in metrics.json]
    selfSummary, \* summary.json
    selfExit,
    selfFaults

selfVars == <<selfStage, options, waiting, fixture, fixtureSession, events, read, collector,
              onDisk, leftovers, fixtureResults, metricsFile, selfSummary, selfExit, selfFaults>>

SelfFault == selfFaults < MaxSelfFaults /\ selfFaults' = selfFaults + 1

FirstCall == [step |-> 1, call |-> 0, waits |-> FALSE]

sessionVars == <<fixtureSession, events, read, collector>>

\* parseArgs, loadFixtures and the selection.
Select ==
    /\ selfStage = "start"
    /\ \/ /\ \/ options.bad
             \/ ~options.list /\ options.fixture \notin DOMAIN Fixtures \union {NoFixture}
          /\ selfStage' = "done" /\ selfExit' = 2 /\ UNCHANGED waiting
       \/ /\ ~options.bad /\ options.list
          /\ selfStage' = "done" /\ selfExit' = 0 /\ UNCHANGED waiting
       \/ /\ ~options.bad /\ ~options.list
          /\ options.fixture \in DOMAIN Fixtures \union {NoFixture}
          /\ waiting' = SelectSeq(SetToSortSeq(DOMAIN Fixtures,
                                      LAMBDA f, g : Fixtures[f].order < Fixtures[g].order),
                                  LAMBDA f : options.fixture \in {f, NoFixture})
          /\ selfStage' = "next" /\ UNCHANGED selfExit
    /\ UNCHANGED <<options, fixture, sessionVars, onDisk, leftovers, fixtureResults,
                   metricsFile, selfSummary, selfFaults>>

\* An error outside the fixture's try rejects main.
Reject == selfStage' = "rejected" /\ selfExit' = 1

\* The artifact directory and the workspace; an earlier metrics.json goes.
StartFixture ==
    /\ selfStage = "next" /\ waiting # <<>>
    /\ LET f == Head(waiting) IN
       \/ /\ fixture' = f /\ waiting' = Tail(waiting)
          /\ metricsFile' = [metricsFile EXCEPT ![f] = "none"]
          /\ onDisk' = {} /\ fixtureSession' = FirstCall /\ events' = <<>> /\ read' = 0
          /\ selfStage' = "prepare" /\ UNCHANGED <<selfExit, selfFaults>>
       \/ SelfFault /\ Reject /\ UNCHANGED <<fixture, waiting, metricsFile, onDisk, fixtureSession, events, read>>
    /\ UNCHANGED <<options, collector, leftovers, fixtureResults, selfSummary>>

\* writeInitialFiles, the session and its collector.
PrepareFixture ==
    /\ selfStage = "prepare"
    /\ \/ /\ onDisk' = Fixtures[fixture].initialFiles
          /\ collector' = "reads" /\ selfStage' = "fixtureSession" /\ UNCHANGED selfFaults
       \/ SelfFault /\ selfStage' = "caught" /\ UNCHANGED <<onDisk, collector>>
    /\ UNCHANGED <<options, waiting, fixture, fixtureSession, events, read, leftovers,
                   fixtureResults, metricsFile, selfSummary, selfExit>>

-----------------------------------------------------------------------------
(* The session, which AgentSession and ToolBatch model, at the granularity  *)
(* of what this program sees of it.                                         *)

Asks(c) == c \in Fixtures[fixture].asking

SessionMoves(log, s) ==
    /\ events' = log /\ fixtureSession' = s
    /\ UNCHANGED <<options, waiting, fixture, read, collector, leftovers,
                   fixtureResults, metricsFile, selfSummary, selfExit>>

Log(type, c, error) == Append(events, [type |-> type, step |-> fixtureSession.step, id |-> c,
                                       calls |-> <<>>, error |-> error])

AnswerOfProvider ==
    /\ selfStage = "fixtureSession" /\ fixtureSession.call = 0 /\ fixtureSession.step <= Len(Fixtures[fixture].script)
    /\ SessionMoves(Append(events, [type |-> "assistant.message", step |-> fixtureSession.step,
                                    id |-> NoFixture, calls |-> Calls(fixture, fixtureSession.step),
                                    error |-> FALSE]),
                    IF Calls(fixture, fixtureSession.step) = <<>>
                    THEN [fixtureSession EXCEPT !.step = @ + 1] ELSE [fixtureSession EXCEPT !.call = 1])
    /\ UNCHANGED <<selfStage, onDisk, selfFaults>>

Current == Calls(fixture, fixtureSession.step)[fixtureSession.call]

CallLogged == \E e \in Range(events) : e.type = "tool.call" /\ e.step = fixtureSession.step /\ e.id = Current

CallTool ==
    /\ selfStage = "fixtureSession" /\ fixtureSession.call > 0 /\ ~CallLogged
    /\ SessionMoves(Log("tool.call", Current, FALSE)
                       \o IF Asks(Current)
                          THEN <<[type |-> "approval.requested", step |-> fixtureSession.step,
                                  id |-> Current, calls |-> <<>>, error |-> FALSE]>> ELSE <<>>,
                    [fixtureSession EXCEPT !.waits = Asks(Current)])
    /\ UNCHANGED <<selfStage, onDisk, selfFaults>>

ToolEnds ==
    /\ selfStage = "fixtureSession" /\ fixtureSession.call > 0 /\ CallLogged /\ ~fixtureSession.waits
    /\ LET denied == Asks(Current) /\ Fixtures[fixture].autoApprove = "deny"
           next == IF fixtureSession.call < Len(Calls(fixture, fixtureSession.step))
                   THEN [fixtureSession EXCEPT !.call = @ + 1]
                   ELSE [fixtureSession EXCEPT !.call = 0, !.step = @ + 1]
       IN  \/ /\ SessionMoves(Log("tool.result", Current, denied), next)
              /\ onDisk' = IF denied THEN onDisk ELSE onDisk \union {Current}
              /\ UNCHANGED <<selfStage, selfFaults>>
           \/ SelfFault /\ selfStage' = "caught" /\ SessionMoves(events, fixtureSession) /\ UNCHANGED onDisk

-----------------------------------------------------------------------------
\* collectEvents: an approval that fails to be given rejects the collector.
Collect ==
    /\ collector = "reads" /\ read < Len(events)
    /\ LET e == events[read + 1] IN
       IF e.type = "approval.requested" /\ Fixtures[fixture].autoApprove # "none"
       THEN \/ /\ fixtureSession' = [fixtureSession EXCEPT !.waits = FALSE]
               /\ events' = Append(events, [e EXCEPT !.type = "approval.responded",
                                               !.error = Fixtures[fixture].autoApprove = "deny"])
               /\ UNCHANGED <<collector, selfFaults>>
            \/ SelfFault /\ collector' = "rejected" /\ UNCHANGED <<fixtureSession, events>>
       ELSE UNCHANGED <<fixtureSession, events, collector, selfFaults>>
    /\ read' = read + 1
    /\ UNCHANGED <<selfStage, options, waiting, fixture, onDisk, leftovers, fixtureResults,
                   metricsFile, selfSummary, selfExit>>

CloseFixtureSession ==
    /\ selfStage = "fixtureSession" /\ fixtureSession.step > Len(Fixtures[fixture].script)
    /\ selfStage' = "closed"
    /\ UNCHANGED <<options, waiting, fixture, sessionVars, onDisk, leftovers, fixtureResults,
                   metricsFile, selfSummary, selfExit, selfFaults>>

\* await collect.
Collected ==
    /\ selfStage = "closed"
    /\ \/ collector = "reads" /\ read = Len(events) /\ collector' = "ended" /\ selfStage' = "verify"
       \/ collector = "rejected" /\ selfStage' = "caught" /\ UNCHANGED collector
    /\ UNCHANGED <<options, waiting, fixture, fixtureSession, events, read, onDisk, leftovers,
                   fixtureResults, metricsFile, selfSummary, selfExit, selfFaults>>

\* The result is written, then returned; the workspace goes in the finally.
Finish(status) ==
    /\ metricsFile' = [metricsFile EXCEPT ![fixture] = status]
    /\ fixtureResults' = Append(fixtureResults, [name |-> fixture, status |-> status, log |-> events])
    /\ selfStage' = "next"

RemoveWorkspace ==
    /\ leftovers' = IF options.keep THEN leftovers \union {fixture} ELSE leftovers
    /\ onDisk' = {} /\ fixture' = NoFixture /\ collector' = "off"
    /\ UNCHANGED <<options, waiting, fixtureSession, events, read, selfSummary>>

Verify ==
    /\ selfStage = "verify"
    /\ \/ /\ Finish(IF Verified(fixture, BuildMetrics(events), onDisk) THEN "passed" ELSE "failed")
          /\ RemoveWorkspace /\ UNCHANGED <<selfExit, selfFaults>>
       \/ /\ SelfFault /\ selfStage' = "caught"
          /\ UNCHANGED <<options, waiting, fixture, sessionVars, onDisk, leftovers,
                         fixtureResults, metricsFile, selfSummary, selfExit>>

CatchFixture ==
    /\ selfStage = "caught"
    /\ \/ Finish("failed") /\ UNCHANGED <<selfExit, selfFaults>>
       \/ SelfFault /\ Reject /\ UNCHANGED <<metricsFile, fixtureResults>>
    /\ RemoveWorkspace

\* Wrong: a fixture that is not listed as failed has passed.
SummarizeOptimistically ==
    /\ selfStage = "next" /\ waiting = <<>>
    /\ LET failed == Len(SelectSeq(fixtureResults, LAMBDA r : r.status = "failed")) IN
       /\ selfSummary' = [passed |-> Cardinality(DOMAIN Fixtures) - failed, failed |-> failed]
       /\ selfExit' = IF failed = 0 THEN 0 ELSE 1
    /\ selfStage' = "done"
    /\ UNCHANGED <<options, waiting, fixture, sessionVars, onDisk, leftovers, fixtureResults,
                   metricsFile, selfFaults>>

SummarizeFixtures ==
    /\ selfStage = "next" /\ waiting = <<>>
    /\ LET with(status) == Len(SelectSeq(fixtureResults, LAMBDA r : r.status = status)) IN
       \/ /\ selfSummary' = [passed |-> with("passed"), failed |-> with("failed")]
          /\ selfExit' = IF with("failed") = 0 THEN 0 ELSE 1
          /\ selfStage' = "done" /\ UNCHANGED selfFaults
       \/ SelfFault /\ Reject /\ UNCHANGED selfSummary
    /\ UNCHANGED <<options, waiting, fixture, sessionVars, onDisk, leftovers, fixtureResults,
                   metricsFile>>

SelfInit ==
    /\ selfStage = "start" /\ options \in SelfOptions
    /\ waiting = <<>> /\ fixture = NoFixture /\ fixtureSession = FirstCall /\ events = <<>>
    /\ read = 0 /\ collector = "off" /\ onDisk = {} /\ leftovers = {}
    /\ fixtureResults = <<>> /\ metricsFile = [f \in DOMAIN Fixtures |-> "old"]
    /\ selfSummary = [passed |-> 0, failed |-> 0] /\ selfExit = -1 /\ selfFaults = 0

SelfNext ==
    \/ Select \/ StartFixture \/ PrepareFixture \/ AnswerOfProvider \/ CallTool \/ ToolEnds
    \/ Collect \/ CloseFixtureSession \/ Collected \/ Verify \/ CatchFixture \/ SummarizeFixtures

-----------------------------------------------------------------------------
\* A fixture passes only if its own log has for every message a call and a
\* result for each of its calls, as the fixture asks, in this step and in
\* order, and the expectations are met; metrics.json and summary agree with the
\* results, and exit code 0 means that all that were selected have passed
\* (evals/self/run.ts:155-173, 230-272).
SelfEvalIsTrue ==
    /\ \A i \in DOMAIN fixtureResults :
          LET r == fixtureResults[i]
              of(type, s) == SelectSeq(r.log, LAMBDA e : e.type = type /\ e.step = s)
          IN  /\ r.status = metricsFile[r.name]
              /\ r.status = "passed" /\ Fixtures[r.name].expect.paired =>
                    \A s \in DOMAIN Fixtures[r.name].script :
                        \A type \in {"tool.call", "tool.result"} :
                            LET logged == of(type, s) IN
                            [k \in DOMAIN logged |-> logged[k].id] = Calls(r.name, s)
    /\ selfStage = "done" /\ selfExit \in {0, 1} /\ ~options.list =>
          /\ selfSummary.passed + selfSummary.failed = Len(fixtureResults)
          /\ (selfExit = 0) = (\A i \in DOMAIN fixtureResults : fixtureResults[i].status = "passed")
          /\ {fixtureResults[i].name : i \in DOMAIN fixtureResults} =
                IF options.fixture = NoFixture THEN DOMAIN Fixtures ELSE {options.fixture}
    /\ ~options.keep => leftovers = {}
=============================================================================
