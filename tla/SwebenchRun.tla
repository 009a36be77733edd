----------------------------- MODULE SwebenchRun -----------------------------
(***************************************************************************)
(* evals/swebench/run.ts: instances are loaded and selected, each is        *)
(* checked out, given to an agent and its diff kept as the prediction; then *)
(* the predictions are written, evaluated and summarised.  Commands fail or *)
(* time out, files cannot be written; a failure inside an instance is its   *)
(* result, one outside ends the run.                                        *)
(***************************************************************************)
EXTENDS Integers, Sequences, SequencesExt, FiniteSets

CONSTANTS
    SwebenchOptions, \* command lines, as records
    Repo,            \* [instance -> its repository]
    Absent,          \* nothing there
    MaxSwebenchFaults

ASSUME SwebenchAssumption == MaxSwebenchFaults \in Nat

Ids == DOMAIN Repo

-----------------------------------------------------------------------------
(* What the options decide.                                                 *)

IsDryRun(o) == o.dryRun \/ ~(o.runAgent \/ o.evaluate \/ o.gold)

\* normalizeOptions: --gold implies --evaluate.
Evaluates(o) == o.evaluate \/ o.gold

BadOptions(o) ==
    \/ o.dryRun /\ (o.runAgent \/ o.evaluate \/ o.gold)
    \/ Evaluates(o) /\ ~o.runAgent /\ ~o.gold /\ ~o.predictionsGiven

ShouldWritePredictions(o) == o.runAgent \/ IsDryRun(o)

BadCoder(o) == "swebench" \notin o.coder.targets \/ (o.runAgent /\ o.coder.status # "ready")

\* A taskset file holds instance records or only ids; without one everything
\* comes from the dataset.
TasksetKinds == {"none", "instances", "ids"}

NothingAskedFor(o) == o.taskset.kind = "none" /\ o.instances = {} /\ o.limit = 0

NeedsDataset(o) == o.taskset.kind # "instances"

\* selectInstances: the requested ones of those there are, in their order.
SelectInstances(o, loaded) ==
    LET wanted == IF o.taskset.kind = "ids" THEN Range(o.taskset.ids) \union o.instances
                  ELSE o.instances
        found == SelectSeq(loaded, LAMBDA i : wanted = {} \/ i \in wanted)
    IN  IF ~(wanted \subseteq Range(loaded)) \/ found = <<>> THEN Absent
        ELSE IF o.limit = 0 THEN found
        ELSE SubSeq(found, 1, IF o.limit < Len(found) THEN o.limit ELSE Len(found))

TooLarge(o, selected) ==
    /\ ~o.allowLargeRun
    /\ \/ (o.runAgent \/ Evaluates(o)) /\ Len(selected) > 5
       \/ o.gold /\ Len(selected) # 1

\* findRepoMirror, and where a checkout comes from.
MirrorOf(o, i) == o.cache # Absent /\ Repo[i] \in o.cache
CheckoutSource(o, i) == IF MirrorOf(o, i) THEN "mirror" ELSE IF o.offline THEN Absent ELSE "network"

\* Wrong: without a cache there are no mirrors to look for.
FailedChecksOfCache(o) ==
    LET taskset == IF o.taskset.kind = "instances" THEN Range(o.taskset.ids) ELSE {}
    IN  IF o.cache # Absent /\ \E i \in taskset : ~MirrorOf(o, i)
        THEN {"repo-cache-mirrors"} ELSE {}

\* runLocalReadinessChecks: the checks that fail.
FailedChecks(o) ==
    LET taskset == IF o.taskset.kind = "instances" THEN Range(o.taskset.ids) ELSE {}
    IN  (IF o.offline /\ o.taskset.kind # "instances" THEN {"swebench-taskset"} ELSE {})
        \union
        (IF o.cache # Absent
         THEN IF \A i \in taskset : MirrorOf(o, i) THEN {} ELSE {"repo-cache-mirrors"}
         ELSE IF o.offline /\ o.runAgent THEN {"repo-cache-dir"} ELSE {})

-----------------------------------------------------------------------------
VARIABLES
    swStage,
    opts,
    selected,     \* the instances of the run, in order
    outcomes,     \* their results so far
    task,         \* the instance being worked on
    workspaces,   \* the instances whose workspace is on disk
    metrics,      \* [Ids -> status in metrics.json, or Absent]
    predictions,  \* the predictions file, or Absent
    swSummary,    \* summary.json, or Absent
    swExit,
    blamed,       \* why the run failed
    swFaults

swVars == <<swStage, opts, selected, outcomes, task, workspaces, metrics,
            predictions, swSummary, swExit, blamed, swFaults>>

Untouched == [at |-> "prepare", command |-> FALSE, exit |-> 0, patch |-> "", error |-> FALSE]

SwFault == swFaults < MaxSwebenchFaults /\ swFaults' = swFaults + 1

Instance == selected[Len(outcomes) + 1]

\* The catch of main.
Fails(why) == swStage' = "failing" /\ blamed' = why

-----------------------------------------------------------------------------
Normalize ==
    /\ swStage = "options"
    /\ IF BadOptions(opts) THEN swStage' = "done" /\ swExit' = 2
       ELSE swStage' = "coder" /\ UNCHANGED swExit
    /\ UNCHANGED <<opts, selected, outcomes, task, workspaces, metrics, predictions, swSummary, blamed, swFaults>>

LoadCoder ==
    /\ swStage = "coder"
    /\ IF BadCoder(opts) THEN Fails("coder")
       ELSE swStage' = (IF opts.preflight THEN "preflight" ELSE "load") /\ UNCHANGED blamed
    /\ UNCHANGED <<opts, selected, outcomes, task, workspaces, metrics, predictions, swSummary, swExit, swFaults>>

\* Python, the packages, docker and the disk are looked at as well.
Preflight ==
    /\ swStage = "preflight"
    /\ \E others \in BOOLEAN :
          LET passed == others /\ FailedChecks(opts) = {}
          IN  /\ swSummary' = [status |-> IF passed THEN "passed" ELSE "failed"]
              /\ swExit' = IF passed THEN 0 ELSE 1
    /\ swStage' = "done"
    /\ UNCHANGED <<opts, selected, outcomes, task, workspaces, metrics, predictions, blamed, swFaults>>

LoadInstances ==
    /\ swStage = "load"
    /\ IF NothingAskedFor(opts) THEN Fails("nothing asked for") /\ UNCHANGED <<selected, swFaults>>
       ELSE IF NeedsDataset(opts) /\ opts.offline THEN Fails("no dataset") /\ UNCHANGED <<selected, swFaults>>
       ELSE \/ /\ NeedsDataset(opts) /\ SwFault
               /\ Fails("loader") /\ UNCHANGED selected
            \/ LET loaded == IF NeedsDataset(opts) THEN SetToSeq(Ids) ELSE opts.taskset.ids
                   found == SelectInstances(opts, loaded)
               IN  /\ IF found = Absent \/ TooLarge(opts, found)
                      THEN Fails("selection") /\ UNCHANGED selected
                      ELSE selected' = found /\ swStage' = "instances" /\ UNCHANGED blamed
                   /\ UNCHANGED swFaults
    /\ UNCHANGED <<opts, outcomes, task, workspaces, metrics, predictions, swSummary, swExit>>

-----------------------------------------------------------------------------
(* One instance.                                                            *)

Working(at) == swStage = "instances" /\ Len(outcomes) < Len(selected) /\ task.at = at

TaskResult(status) == [id |-> Instance, status |-> status, patch |-> task.patch, exit |-> task.exit]

\* The prompt, an empty patch and the metrics "prepared"; a failure here is not
\* caught for the instance.
Prepare ==
    /\ Working("prepare")
    /\ \/ /\ metrics' = [metrics EXCEPT ![Instance] = "prepared"]
          /\ IF opts.runAgent THEN task' = [task EXCEPT !.at = "checkout"] /\ UNCHANGED outcomes
             ELSE outcomes' = Append(outcomes, TaskResult("prepared")) /\ task' = Untouched
          /\ UNCHANGED <<swStage, blamed, swFaults>>
       \/ SwFault /\ Fails("files") /\ UNCHANGED <<metrics, outcomes, task>>
    /\ UNCHANGED <<opts, selected, workspaces, predictions, swSummary, swExit>>

\* A workspace that is there already is refused; git may leave half of one.
Checkout ==
    /\ Working("checkout")
    /\ IF Instance \in workspaces \/ CheckoutSource(opts, Instance) = Absent
       THEN task' = [task EXCEPT !.at = "caught"] /\ UNCHANGED <<workspaces, swFaults>>
       ELSE /\ workspaces' = workspaces \union {Instance}
            /\ \/ task' = [task EXCEPT !.at = "agent", !.command = TRUE] /\ UNCHANGED swFaults
               \/ SwFault /\ task' = [task EXCEPT !.at = "caught"]
    /\ blamed' = IF Instance \notin workspaces /\ CheckoutSource(opts, Instance) = Absent
                 THEN "no mirror" ELSE blamed
    /\ UNCHANGED <<swStage, opts, selected, outcomes, metrics, predictions, swSummary, swExit>>

\* runCommand: the agent ends by itself, or is terminated when its time is up
\* and then counts as failed even if it exits with 0; or it cannot be started,
\* or its output not be kept.
RunAgent ==
    /\ Working("agent")
    /\ \/ \E exit \in {0, 1}, timedOut \in {FALSE, opts.timeout} :
             task' = [task EXCEPT !.at = "diff", !.exit = IF timedOut /\ exit = 0 THEN 124 ELSE exit]
          /\ UNCHANGED swFaults
       \/ SwFault /\ task' = [task EXCEPT !.at = "caught"]
    /\ UNCHANGED <<swStage, opts, selected, outcomes, workspaces, metrics, predictions, swSummary, swExit, blamed>>

\* git add -N and git diff; the agent may have changed nothing.
Diff ==
    /\ Working("diff")
    /\ \/ \E patch \in {"", "diff"} : task' = [task EXCEPT !.at = "write", !.patch = patch]
          /\ UNCHANGED swFaults
       \/ SwFault /\ task' = [task EXCEPT !.at = "write", !.error = TRUE]
    /\ UNCHANGED <<swStage, opts, selected, outcomes, workspaces, metrics, predictions, swSummary, swExit, blamed>>

\* finally: the workspace goes unless it is to be kept or was put elsewhere.
WorkspacesLeft == IF opts.keep \/ ~opts.defaultDir THEN workspaces ELSE workspaces \ {Instance}

\* Wrong: the agent's exit code is not looked at.
WriteInstanceWhateverExit ==
    /\ Working("write")
    /\ LET status == IF task.error THEN "failed" ELSE "completed"
       IN  /\ metrics' = [metrics EXCEPT ![Instance] = status]
           /\ outcomes' = Append(outcomes, TaskResult(status))
           /\ workspaces' = WorkspacesLeft
           /\ task' = Untouched
    /\ UNCHANGED <<swStage, opts, selected, predictions, swSummary, swExit, blamed, swFaults>>

\* patch.diff, the wrapper profile and the metrics, then the result.
WriteInstance ==
    /\ Working("write")
    /\ \/ LET status == IF task.error \/ task.exit # 0 THEN "failed" ELSE "completed"
          IN  /\ metrics' = [metrics EXCEPT ![Instance] = status]
              /\ outcomes' = Append(outcomes, TaskResult(status))
              /\ workspaces' = WorkspacesLeft
              /\ task' = Untouched
              /\ UNCHANGED swFaults
       \/ SwFault /\ task' = [task EXCEPT !.at = "caught"] /\ UNCHANGED <<metrics, outcomes, workspaces>>
    /\ UNCHANGED <<swStage, opts, selected, predictions, swSummary, swExit, blamed>>

\* The catch of the instance writes the same files; if it fails, so does the run.
CatchInstance ==
    /\ Working("caught")
    /\ workspaces' = WorkspacesLeft
    /\ \/ /\ metrics' = [metrics EXCEPT ![Instance] = "failed"]
          /\ outcomes' = Append(outcomes, TaskResult("failed"))
          /\ task' = Untouched
          /\ UNCHANGED <<swStage, blamed, swFaults>>
       \/ SwFault /\ Fails("files") /\ UNCHANGED <<metrics, outcomes, task>>
    /\ UNCHANGED <<opts, selected, predictions, swSummary, swExit>>

-----------------------------------------------------------------------------
(* After the instances.                                                     *)

\* Wrong: the predictions of failed instances are left out.
WritePredictionsOfCompleted ==
    /\ swStage = "instances" /\ Len(outcomes) = Len(selected)
    /\ predictions' = IF ShouldWritePredictions(opts) THEN SelectSeq(outcomes, LAMBDA r : r.status = "completed")
                      ELSE predictions
    /\ swStage' = "evaluate"
    /\ UNCHANGED <<opts, selected, outcomes, task, workspaces, metrics, swSummary, swExit, blamed, swFaults>>

WritePredictions ==
    /\ swStage = "instances" /\ Len(outcomes) = Len(selected)
    /\ \/ /\ ShouldWritePredictions(opts)
          /\ predictions' = outcomes
          /\ swStage' = "evaluate" /\ UNCHANGED <<blamed, swFaults>>
       \/ /\ ShouldWritePredictions(opts) /\ SwFault
          /\ Fails("files") /\ UNCHANGED predictions
       \/ /\ ~ShouldWritePredictions(opts)
          /\ IF Evaluates(opts) /\ ~opts.gold /\ predictions = Absent THEN Fails("no predictions")
             ELSE swStage' = "evaluate" /\ UNCHANGED blamed
          /\ UNCHANGED <<predictions, swFaults>>
    /\ UNCHANGED <<opts, selected, outcomes, task, workspaces, metrics, swSummary, swExit>>

RunEvaluator ==
    /\ swStage = "evaluate"
    /\ \/ swStage' = "summary" /\ UNCHANGED <<blamed, swFaults>>
       \/ Evaluates(opts) /\ SwFault /\ Fails("evaluator")
    /\ UNCHANGED <<opts, selected, outcomes, task, workspaces, metrics, predictions, swSummary, swExit>>

CountOf(status) == Len(SelectSeq(outcomes, LAMBDA r : r.status = status))

BuildSummary(status) ==
    [status |-> status, selected |-> Len(selected), prepared |-> CountOf("prepared"),
     completed |-> CountOf("completed"), failed |-> CountOf("failed")]

\* run.json and summary.json; a write that fails takes the run to the catch,
\* and one that fails there ends it without a summary.
WriteRunFiles ==
    /\ swStage \in {"summary", "failing"}
    /\ LET s == BuildSummary(IF swStage = "summary" THEN "completed" ELSE "failed")
       IN  \/ /\ swSummary' = s
              /\ swExit' = IF s.status = "completed" /\ s.failed = 0 THEN 0 ELSE 1
              /\ swStage' = "done"
              /\ UNCHANGED <<blamed, swFaults>>
           \/ /\ SwFault
              /\ IF swStage = "summary" THEN Fails("files") /\ UNCHANGED swExit
                 ELSE swStage' = "done" /\ swExit' = 1 /\ UNCHANGED blamed
              /\ UNCHANGED swSummary
    /\ UNCHANGED <<opts, selected, outcomes, task, workspaces, metrics, predictions>>

-----------------------------------------------------------------------------
SwebenchInit ==
    /\ swStage = "options" /\ opts \in SwebenchOptions
    /\ selected = <<>> /\ outcomes = <<>> /\ task = Untouched
    /\ workspaces = opts.leftover
    /\ metrics = [i \in Ids |-> Absent]
    /\ predictions \in IF opts.predictionsGiven THEN {<<>>, Absent} ELSE {Absent}
    /\ swSummary = Absent /\ swExit = Absent /\ blamed = Absent /\ swFaults = 0

SwebenchNext ==
    \/ Normalize \/ LoadCoder \/ Preflight \/ LoadInstances
    \/ Prepare \/ Checkout \/ RunAgent \/ Diff \/ WriteInstance \/ CatchInstance
    \/ WritePredictions \/ RunEvaluator \/ WriteRunFiles

-----------------------------------------------------------------------------
\* What a finished run leaves is whole: predictions are written for all the
\* selected instances or for none, in order and with the patch of the agent's
\* own run; the summary counts every result, and only a run none of whose
\* instances failed, none of whose agents timed out, exits with 0.  Workspaces
\* it made are gone unless they were to be kept (main, runAgentInstance).
SwebenchRunIsTrue ==
    /\ ShouldWritePredictions(opts) /\ predictions \notin {Absent, <<>>} =>
          /\ [n \in DOMAIN predictions |-> predictions[n].id] = selected
          /\ \A n \in DOMAIN predictions : predictions[n].patch = outcomes[n].patch
    /\ swStage = "done" /\ swSummary # Absent /\ ~opts.preflight =>
          swSummary.prepared + swSummary.completed + swSummary.failed = Len(outcomes)
    /\ swStage = "done" /\ swExit = 0 /\ ~opts.preflight =>
          /\ Len(outcomes) = Len(selected) /\ blamed = Absent
          /\ opts.runAgent => \A i \in Range(selected) : metrics[i] = "completed"
    /\ \A n \in DOMAIN outcomes : outcomes[n].status = "completed" => outcomes[n].exit = 0
    /\ swStage = "done" /\ ~opts.keep /\ opts.defaultDir => workspaces \subseteq opts.leftover

\* If the preflight finds nothing wrong with an offline set-up, a run with the
\* same options misses neither the instances nor a mirror, whatever of the
\* taskset it selects (runLocalReadinessChecks, loadInstances, findRepoMirror).
PreflightForesees ==
    opts.offline /\ FailedChecks(opts) = {} => blamed \notin {"no dataset", "no mirror"}
=============================================================================
