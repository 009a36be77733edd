-------------------------------- MODULE OneShot --------------------------------
(***************************************************************************)
(* main and its one-shot command: a prompt is submitted, the session is    *)
(* closed, the renderer consumes what is left in the event queue, and the  *)
(* summary of the run goes to the artifact directory and to the output.    *)
(* A write to the transcript or to an artifact may fail at any point; the  *)
(* failure path closes, consumes and summarises once more.                 *)
(***************************************************************************)
EXTENDS Naturals, Sequences

CONSTANTS
    Nobody,
    MaxEmitted,    \* bound: events submit emits
    MaxRunFaults     \* bound: failed writes

ASSUME OneShotAssumption ==
    /\ MaxEmitted \in Nat /\ MaxRunFaults \in Nat
    /\ Nobody \notin [summary : [exitCode : 0..2, events : Nat], next : Nat]

VARIABLES
    stage,     \* the await main is at
    mode,      \* the command, once the arguments are parsed
    servers,   \* the MCP clients close still has to stop
    emitted,   \* the events pushed to the queue
    counted,   \* the events the renderer has recorded
    queueShut,    \* the event queue is closed
    files,     \* the artifact directory: what each file tells
    directory, \* whether --artifact-dir was given
    current,   \* the summary being written
    exitCode,
    runFaults,
    missed     \* history: artifacts not written, a failed close that is not repeated

oneShotVars == <<stage, mode, servers, emitted, counted, queueShut, files, directory, current,
          exitCode, runFaults, missed>>

Modes == {"help", "profile", "doctor", "sessions", "dry-run", "resume", "repl", "one-shot"}

\* What is written, in this order.
Artifacts == <<"run.json", "summary.json", "stdout.log", "stderr.log">>

\* The exit codes of the commands that run no one-shot session.
ExitCodes(m) ==
    CASE m \in {"help", "sessions", "dry-run"} -> {0}
      [] OTHER                                -> {0, 1}

Fault == runFaults < MaxRunFaults /\ runFaults' = runFaults + 1

Ends(code) == stage' = "done" /\ exitCode' = code

-----------------------------------------------------------------------------
ParseArgs ==
    /\ stage = "args"
    /\ \/ \E m \in Modes : mode' = m /\ stage' = "config" /\ UNCHANGED exitCode
       \/ Ends(2) /\ UNCHANGED mode
    /\ UNCHANGED <<directory, servers, emitted, counted, queueShut, files, current, runFaults, missed>>

\* resolveConfig, which help and profile go without, and the other commands.
Dispatch ==
    /\ stage = "config"
    /\ \/ mode # "one-shot" /\ \E code \in ExitCodes(mode) : Ends(code)
       \/ mode \notin {"help", "profile"} /\ Ends(2)
       \/ mode = "one-shot" /\ stage' = "prepare" /\ UNCHANGED exitCode
    /\ UNCHANGED <<directory, mode, servers, emitted, counted, queueShut, files, current, runFaults, missed>>

Summary(code) == [exitCode |-> code, events |-> counted]

\* writeRunArtifacts from its n-th file on.
StartArtifacts(code) ==
    /\ stage' = "artifacts"
    /\ current' = [summary |-> Summary(code), next |-> 1]

\* A session that was created has emitted session.started and context.session;
\* it may have started an MCP server.
PrepareRun ==
    /\ stage = "prepare"
    /\ \/ /\ stage' = "submit"
          /\ emitted' = 2
          /\ servers' \in {0, 1}
          /\ UNCHANGED current
       \/ StartArtifacts(2) /\ UNCHANGED <<emitted, servers>>
    /\ UNCHANGED <<directory, mode, counted, queueShut, files, exitCode, runFaults, missed>>

SubmitEmits ==
    /\ stage = "submit"
    /\ emitted < 2 + MaxEmitted
    /\ emitted' = emitted + 1
    /\ UNCHANGED <<directory, stage, mode, servers, counted, queueShut, files, current, exitCode, runFaults, missed>>

\* A failed write still queues an error event.
SubmitFails ==
    /\ stage = "submit"
    /\ Fault
    /\ emitted' = emitted + 1
    /\ stage' = "closeAgain"
    /\ UNCHANGED <<directory, mode, servers, counted, queueShut, files, current, exitCode, missed>>

SubmitReturns ==
    /\ stage = "submit"
    /\ stage' = "close"
    /\ UNCHANGED <<directory, mode, servers, emitted, counted, queueShut, files, current, exitCode, runFaults, missed>>

Closing(here, after) == stage = here /\ stage' = after

\* Wrong: with no server to stop there is nothing to close.
CloseServers ==
    /\ Closing("close", "consume") \/ Closing("closeAgain", "consumeAgain")
    /\ emitted' = IF queueShut THEN emitted ELSE emitted + servers
    /\ servers' = 0
    /\ queueShut' = (queueShut \/ servers > 0)
    /\ UNCHANGED <<directory, mode, counted, files, current, exitCode, runFaults, missed>>

\* AgentSession.close stops the servers and closes the queue last.
Close ==
    /\ Closing("close", "consume") \/ Closing("closeAgain", "consumeAgain")
    /\ emitted' = IF queueShut THEN emitted ELSE emitted + servers
    /\ servers' = 0
    /\ queueShut' = TRUE
    /\ UNCHANGED <<directory, mode, counted, files, current, exitCode, runFaults, missed>>

\* The write of mcp.server.stopped fails: the queue stays open.
CloseFails ==
    /\ servers > 0
    /\ Closing("close", "closeAgain") \/ Closing("closeAgain", "consumeAgain")
    /\ Fault
    /\ emitted' = emitted + 1
    /\ missed' = [missed EXCEPT !.close = (stage = "closeAgain")]
    /\ UNCHANGED <<directory, mode, servers, counted, queueShut, files, current, exitCode>>

\* EventRenderer.consume and recordEvent, beside all of the above.
Consume ==
    /\ counted < emitted
    /\ counted' = counted + 1
    /\ UNCHANGED <<directory, stage, mode, servers, emitted, queueShut, files, current, exitCode, runFaults, missed>>

\* Wrong: the summary is built without waiting for the renderer.
ConsumedAnyway ==
    /\ stage \in {"consume", "consumeAgain"}
    /\ StartArtifacts(IF stage = "consume" THEN 0 ELSE 1)
    /\ UNCHANGED <<directory, mode, servers, emitted, counted, queueShut, files, exitCode, runFaults, missed>>

\* await consume: the renderer ends when the closed queue is empty.
Consumed ==
    /\ stage \in {"consume", "consumeAgain"}
    /\ queueShut /\ counted = emitted
    /\ StartArtifacts(IF stage = "consume" THEN 0 ELSE 1)
    /\ UNCHANGED <<directory, mode, servers, emitted, counted, queueShut, files, exitCode, runFaults, missed>>

WriteArtifact ==
    /\ stage = "artifacts" /\ directory /\ current.next <= Len(Artifacts)
    /\ files' = [files EXCEPT ![Artifacts[current.next]] = current.summary]
    /\ current' = [current EXCEPT !.next = @ + 1]
    /\ UNCHANGED <<directory, stage, mode, servers, emitted, counted, queueShut, exitCode, runFaults, missed>>

\* The rest is not written.  After a completed run this fails the run; on the
\* failure path it is only reported.
WriteArtifactFails ==
    /\ stage = "artifacts" /\ directory /\ current.next <= Len(Artifacts)
    /\ Fault
    /\ missed' = [missed EXCEPT !.artifacts = @ + 1]
    /\ IF current.summary.exitCode = 0 THEN stage' = "closeAgain" /\ UNCHANGED exitCode
       ELSE Ends(current.summary.exitCode)
    /\ UNCHANGED <<directory, mode, servers, emitted, counted, queueShut, files, current>>

\* Without an artifact directory nothing is written.
ArtifactsWritten ==
    /\ stage = "artifacts"
    /\ directory => current.next > Len(Artifacts)
    /\ Ends(current.summary.exitCode)
    /\ UNCHANGED <<directory, mode, servers, emitted, counted, queueShut, files, current, runFaults, missed>>

-----------------------------------------------------------------------------
OneShotInit ==
    /\ stage = "args" /\ mode = Nobody
    /\ servers = 0 /\ emitted = 0 /\ counted = 0 /\ queueShut = FALSE
    /\ files = [f \in {Artifacts[i] : i \in DOMAIN Artifacts} |-> Nobody]
    /\ directory \in BOOLEAN
    /\ current = Nobody /\ exitCode = Nobody
    /\ runFaults = 0 /\ missed = [close |-> FALSE, artifacts |-> 0]

OneShotNext ==
    \/ ParseArgs \/ Dispatch \/ PrepareRun
    \/ SubmitEmits \/ SubmitFails \/ SubmitReturns
    \/ Close \/ CloseFails \/ Consume \/ Consumed
    \/ WriteArtifact \/ WriteArtifactFails \/ ArtifactsWritten

\* Promises that are settled go on; a provider that does not answer is not
\* waited for here.
OneShotSpec == OneShotInit /\ [][OneShotNext]_oneShotVars /\ WF_oneShotVars(OneShotNext)

-----------------------------------------------------------------------------
\* A one-shot run that ends tells one story: the summary it prints, the files
\* it leaves and its exit code agree, and the events it counts are all the
\* session emitted, however often the run fell into its failure path.  A second
\* artifact that cannot be written is excepted: run.json may then still tell of
\* a completed run (main.ts:226-270, 428-439).
SummaryIsTrue ==
    stage = "done" /\ current # Nobody =>
        /\ current.summary = [exitCode |-> exitCode, events |-> emitted]
        /\ missed.artifacts <= 1 =>
            \A f \in DOMAIN files : files[f] \in {Nobody, current.summary}

\* A run ends, unless closing the session fails on the failure path: that is
\* ignored, the queue stays open and the wait for the renderer does not end
\* (main.ts:246-249).
OneShotEnds == <>(stage = "done" \/ missed.close)
===============================================================================
