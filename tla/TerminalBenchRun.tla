--------------------------- MODULE TerminalBenchRun ---------------------------
(***************************************************************************)
(* evals/terminal-bench/run.ts: tasks are selected and given to harbor as   *)
(* one command; what came of it is read from harbor's exit code and from    *)
(* the result file of its job, which may be missing, unfinished or left by  *)
(* an earlier run of the same name.                                         *)
(***************************************************************************)
EXTENDS Integers, Sequences, SequencesExt, FiniteSets

CONSTANTS
    TbenchOptions,   \* command lines, as records
    Missing,         \* nothing there
    MaxTbenchFaults

ASSUME TbenchAssumption == MaxTbenchFaults \in Nat

LightccRuntimes == {"lightcc"}
SmokeRuntimes == {"lightcc", "openhands", "aider", "opencode"}

-----------------------------------------------------------------------------
(* What the options decide.                                                 *)

\* normalizeOptions.
RefusedOptions(o) ==
    \/ o.dryRun /\ o.runHarbor
    \/ ~o.allowLargeRun /\ o.tasks = <<>> /\ o.tasksFile = Missing /\ o.limit = 0 /\ ~o.preflight
    \/ ~o.allowLargeRun /\ o.limit > 5

\* The runtime's directory is mounted unless a mount of it was asked for.
Mounts(o) ==
    IF o.install # "mounted" \/ Contains(o.mounts, "runtime") THEN o.mounts
    ELSE Append(o.mounts, "runtime")

IsReadyRuntime(o) ==
    /\ ~o.coder.fromPath /\ o.coder.status = "ready"
    /\ o.coder.id \in LightccRuntimes \/ (o.allowUnverified /\ o.coder.id \in SmokeRuntimes)

RunStatus(o) ==
    IF ~IsReadyRuntime(o) THEN "dry-run-only"
    ELSE IF o.coder.id \in LightccRuntimes THEN "ready" ELSE "smoke-unverified"

RefusedCoder(o) ==
    \/ "terminal-bench" \notin o.coder.targets
    \/ o.runHarbor /\ ~IsReadyRuntime(o)

NoRepeats(seq) == FoldLeft(LAMBDA found, x : IF Contains(found, x) THEN found
                                             ELSE Append(found, x), <<>>, seq)

\* With nothing but a limit the tasks are placeholders.
SelectTasks(o) ==
    LET named == NoRepeats((IF o.tasksFile = Missing THEN <<>> ELSE o.tasksFile) \o o.tasks)
    IN  IF named # <<>> THEN named ELSE [n \in 1..o.limit |-> <<"limit", n>>]

TooManyAttempts(o, tasks) == o.runHarbor /\ ~o.allowLargeRun /\ Len(tasks) * o.attempts > 5

\* buildTerminalBenchCommand: what harbor is told to include, and the agent's
\* environment as far as the coder decides it.
HarborCommand(o, tasks) ==
    [include |-> Range(tasks), attempts |-> o.attempts, limit |-> o.limit,
     mounts |-> Mounts(o), coder |-> o.coder.id, status |-> RunStatus(o),
     hosts |-> o.hosts \union (IF o.baseUrl = Missing THEN {} ELSE {o.baseUrl})]

\* runPreflight: the checks that look at the coder.
FailedCoderChecks(o) ==
    (IF "terminal-bench" \in o.coder.targets THEN {} ELSE {"coder-target"}) \union
    (IF o.install = "mounted" /\ o.coder.id \notin LightccRuntimes /\ ~o.runtimeInstalled
     THEN {"external-mounted-runtime"} ELSE {})

-----------------------------------------------------------------------------
(* What harbor leaves: the trials of its job by state, any of them unknown. *)

Known(n) == n # Missing

HasUnfinishedOrFailedTrials(job) ==
    \/ \E s \in {"errored", "cancelled", "running", "pending"} : Known(job[s]) /\ job[s] > 0
    \/ Known(job.total) /\ Known(job.completed) /\ job.completed < job.total

Counts(n) == {Missing} \union 0..n

-----------------------------------------------------------------------------
VARIABLES
    tbStage,
    tb,          \* the options
    tasks,
    command,
    harborExit,
    resultFile,  \* the job's result file: [job, of], or Missing
    jobSummary,  \* what was read of it
    tbSummary,   \* summary.json
    tbExit,
    tbFaults

tbVars == <<tbStage, tb, tasks, command, harborExit, resultFile, jobSummary,
            tbSummary, tbExit, tbFaults>>

TbFault == tbFaults < MaxTbenchFaults /\ tbFaults' = tbFaults + 1

TbEnds(code) == tbStage' = "done" /\ tbExit' = code

\* Every step may fail, the start of harbor too, and main then ends with 1.
StepFails ==
    /\ tbStage \in {"load", "preflight", "select", "prepare", "harbor", "read", "summary"}
    /\ TbFault /\ TbEnds(1)
    /\ UNCHANGED <<tb, tasks, command, harborExit, resultFile, jobSummary, tbSummary>>

NormalizeTbench ==
    /\ tbStage = "options"
    /\ IF RefusedOptions(tb) THEN TbEnds(1) ELSE tbStage' = "load" /\ UNCHANGED tbExit
    /\ UNCHANGED <<tb, tasks, command, harborExit, resultFile, jobSummary, tbSummary, tbFaults>>

LoadTbenchCoder ==
    /\ tbStage = "load"
    /\ IF RefusedCoder(tb) THEN TbEnds(1)
       ELSE tbStage' = (IF tb.preflight THEN "preflight" ELSE "select") /\ UNCHANGED tbExit
    /\ UNCHANGED <<tb, tasks, command, harborExit, resultFile, jobSummary, tbSummary, tbFaults>>

TbenchPreflight ==
    /\ tbStage = "preflight"
    /\ \E others \in BOOLEAN :
          LET failed == ~others \/ FailedCoderChecks(tb) # {}
          IN  TbEnds(IF failed THEN 1 ELSE 0)
    /\ tbSummary' = [selected |-> 0, prepared |-> 0, completed |-> 0, failed |-> 0]
    /\ UNCHANGED <<tb, tasks, command, harborExit, resultFile, jobSummary, tbFaults>>

SelectAndValidate ==
    /\ tbStage = "select"
    /\ LET found == SelectTasks(tb)
       IN  IF TooManyAttempts(tb, found) THEN TbEnds(1) /\ UNCHANGED tasks
           ELSE tasks' = found /\ tbStage' = "prepare" /\ UNCHANGED tbExit
    /\ UNCHANGED <<tb, command, harborExit, resultFile, jobSummary, tbSummary, tbFaults>>

\* The tasks' files, harbor-command.json and run.json.
PrepareTasks ==
    /\ tbStage = "prepare"
    /\ command' = HarborCommand(tb, tasks)
    /\ tbStage' = IF tb.runHarbor THEN "harbor" ELSE "summary"
    /\ UNCHANGED <<tb, tasks, harborExit, resultFile, jobSummary, tbSummary, tbExit, tbFaults>>

\* Harbor's result file, if it gets to write it, tells of its trials.
RunHarbor ==
    /\ tbStage = "harbor"
    /\ harborExit' \in {0, 1}
    /\ \/ \E n, e, r, t \in Counts(1) :
             resultFile' = [of |-> "this run",
                job |-> [completed |-> n, errored |-> e, running |-> r, pending |-> Missing,
                         cancelled |-> Missing, total |-> t]]
       \/ UNCHANGED resultFile
    /\ tbStage' = "read"
    /\ UNCHANGED <<tb, tasks, command, jobSummary, tbSummary, tbExit, tbFaults>>

ReadHarborJobSummary ==
    /\ tbStage = "read"
    /\ jobSummary' = IF resultFile = Missing THEN Missing ELSE resultFile.job
    /\ tbStage' = "summary"
    /\ UNCHANGED <<tb, tasks, command, harborExit, resultFile, tbSummary, tbExit, tbFaults>>

HarborFailed == harborExit # Missing
            /\ (harborExit # 0 \/ (jobSummary # Missing /\ HasUnfinishedOrFailedTrials(jobSummary)))

\* Wrong: only harbor's exit code decides.
WriteTbenchSummaryByExit ==
    /\ tbStage = "summary"
    /\ tbSummary' = [selected |-> Len(tasks), prepared |-> Len(tasks), completed |-> 0, failed |-> 0]
    /\ TbEnds(IF harborExit = 1 THEN 1 ELSE 0)
    /\ UNCHANGED <<tb, tasks, command, harborExit, resultFile, jobSummary, tbFaults>>

WriteTbenchSummary ==
    /\ tbStage = "summary"
    /\ LET of(s) == IF jobSummary # Missing /\ Known(jobSummary[s]) THEN jobSummary[s] ELSE 0
       IN  tbSummary' = [selected |-> Len(tasks), prepared |-> Len(tasks),
                         completed |-> of("completed"), failed |-> of("errored")]
    /\ TbEnds(IF HarborFailed THEN 1 ELSE 0)
    /\ UNCHANGED <<tb, tasks, command, harborExit, resultFile, jobSummary, tbFaults>>

-----------------------------------------------------------------------------
TbenchInit ==
    /\ tbStage = "options" /\ tb \in TbenchOptions
    /\ tasks = <<>> /\ command = Missing /\ harborExit = Missing
    /\ resultFile \in {Missing, [of |-> "an earlier run",
            job |-> [completed |-> 1, errored |-> 0, running |-> 0, pending |-> 0,
                     cancelled |-> 0, total |-> 1]]}
    /\ jobSummary = Missing /\ tbSummary = Missing /\ tbExit = Missing /\ tbFaults = 0

TbenchNext ==
    \/ NormalizeTbench \/ LoadTbenchCoder \/ TbenchPreflight \/ SelectAndValidate
    \/ PrepareTasks \/ RunHarbor \/ ReadHarborJobSummary \/ WriteTbenchSummary \/ StepFails

-----------------------------------------------------------------------------
\* A real run that exits with 0 ran a coder whose runtime is known to work, on
\* at most five attempts unless more were allowed, harbor itself succeeded, and
\* if it left a result no trial of it is known to have failed, to be unfinished
\* or to be missing; a dry run never starts harbor (main,
\* harborJobHasUnfinishedOrFailedTrials).
TerminalBenchRunIsTrue ==
    /\ harborExit # Missing => tb.runHarbor /\ ~tb.dryRun /\ command.status # "dry-run-only"
    /\ tbStage = "done" /\ tbExit = 0 /\ tb.runHarbor /\ ~tb.preflight =>
          /\ harborExit = 0
          /\ tb.allowLargeRun \/ Cardinality(command.include) * command.attempts <= 5
          /\ resultFile # Missing /\ resultFile.of = "this run" =>
                LET job == resultFile.job
                IN  /\ job.errored \in {0, Missing} /\ job.running \in {0, Missing}
                    /\ Known(job.total) /\ Known(job.completed) => job.completed >= job.total
    /\ tbSummary # Missing /\ ~tb.preflight =>
          tbSummary.selected = Cardinality(command.include)
=============================================================================
