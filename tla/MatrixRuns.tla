------------------------------ MODULE MatrixRuns ------------------------------
(***************************************************************************)
(* evals/matrix/run.ts: a request names coders, benchmarks and tasks; their *)
(* product is planned as jobs and a few workers run them, each job as one   *)
(* command behind a provider proxy of its own.  Every await of a job may    *)
(* fail; a job's failure is its result, unless reporting it fails as well,  *)
(* which rejects the run while the other workers go on.                     *)
(***************************************************************************)
EXTENDS Integers, Sequences, SequencesExt, FiniteSets

CONSTANTS
    Requests,       \* requests of the command line
    Adapters,       \* [coder -> its adapter: status and targets]
    Ports,          \* ports the system hands out
    NoPort,
    MaxMatrixFaults \* bound: failures of files and commands

Benchmarks == {"swebench", "terminal-bench"}

MatrixRequest ==
    [coders : Seq(DOMAIN Adapters), benchmarks : Seq(Benchmarks),
     tasks : [Benchmarks -> Seq(STRING)], generic : Seq(STRING), mode : {"run", "dry-run"},
     allowDraftReal : BOOLEAN, allowLargeRun : BOOLEAN, maxJobs : Int, concurrency : Int,
     proxy : BOOLEAN, baseUrl : BOOLEAN, profileCoders : SUBSET DOMAIN Adapters]

ASSUME MatrixAssumption ==
    /\ Requests \subseteq MatrixRequest /\ "lightcc" \in DOMAIN Adapters
    /\ MaxMatrixFaults \in Nat /\ NoPort \notin Ports

-----------------------------------------------------------------------------
(* Planning.                                                                *)

\* new Set: the first of every value, in order.
Unique(seq) ==
    LET kept[n \in 0..Len(seq)] ==
            IF n = 0 THEN <<>>
            ELSE IF seq[n] \in Range(kept[n - 1]) THEN kept[n - 1]
            ELSE Append(kept[n - 1], seq[n])
    IN  kept[Len(seq)]

InferBenchmarks(tasks, generic) ==
    LET named == (IF tasks["swebench"] = <<>> THEN <<>> ELSE <<"swebench">>)
                   \o (IF tasks["terminal-bench"] = <<>> THEN <<>> ELSE <<"terminal-bench">>)
    IN  IF named = <<>> /\ generic # <<>> THEN <<"terminal-bench">> ELSE named

Normalized(r) ==
    LET benchmarks == Unique(IF r.benchmarks # <<>> THEN r.benchmarks
                             ELSE InferBenchmarks(r.tasks, r.generic))
    IN  [r EXCEPT
            !.coders = Unique(IF @ = <<>> THEN <<"lightcc">> ELSE @),
            !.benchmarks = benchmarks,
            !.tasks = [b \in Benchmarks |->
                Unique(@[b] \o IF Contains(benchmarks, b) THEN r.generic ELSE <<>>)]]

Product(o) ==
    LET Of(c, b) == [i \in DOMAIN o.tasks[b] |-> <<c, b, o.tasks[b][i]>>]
        Each(c) == FlattenSeq([i \in DOMAIN o.benchmarks |-> Of(c, o.benchmarks[i])])
    IN  FlattenSeq([i \in DOMAIN o.coders |-> Each(o.coders[i])])

\* What normalizeRequest, validateAdapter and createMatrixPlan throw for.
Refused(o) ==
    \/ o.benchmarks = <<>>
    \/ \E b \in Range(o.benchmarks) : o.tasks[b] = <<>>
    \/ \E c \in Range(o.coders) :
          \/ ~(Range(o.benchmarks) \subseteq Adapters[c].targets)
          \/ o.mode = "run" /\ Adapters[c].status = "draft" /\ ~o.allowDraftReal
    \/ Len(Product(o)) > o.maxJobs
    \/ o.mode = "run" /\ Len(Product(o)) > 5 /\ ~o.allowLargeRun
    \/ o.concurrency < 1 \/ o.maxJobs < 1

\* The arguments of a job's command, as the flags that depend on the request.
SwebenchFlags(o, c) ==
    {IF o.mode = "run" THEN "--run-agent" ELSE "--dry-run"}
        \union (IF o.baseUrl /\ ~o.proxy THEN {"--base-url"} ELSE {})
        \union (IF c \in o.profileCoders THEN {"--agent-profile"} ELSE {})
        \union (IF o.allowLargeRun THEN {"--allow-large-run"} ELSE {})

TerminalBenchFlags(o, c) ==
    {IF o.mode = "run" THEN "--run" ELSE "--dry-run"}
        \union (SwebenchFlags(o, c) \ {"--run-agent"})

BuildJob(o, i) ==
    LET job == Product(o)[i]
    IN  [index |-> i, coder |-> job[1], benchmark |-> job[2], task |-> job[3],
         proxy |-> o.proxy /\ o.mode = "run",
         flags |-> IF job[2] = "swebench" THEN SwebenchFlags(o, job[1])
                   ELSE TerminalBenchFlags(o, job[1])]

-----------------------------------------------------------------------------
VARIABLES
    phase,      \* the await of runMatrix
    request,
    plan,       \* the planned jobs
    nextIndex,
    worker,     \* [1..concurrency -> what the worker does]
    results,    \* [1..jobs -> the job's result or its absence]
    listening,  \* [Ports -> the job whose proxy listens there, or 0]
    orphans,    \* jobs whose proxy nobody holds the handle of
    runs,       \* history: [1..jobs -> commands run for the job]
    mishaps     \* failures so far

matrixVars == <<phase, request, plan, nextIndex, worker, results, listening,
                orphans, runs, mishaps>>

NoResult == [status |-> "none"]
Idle == [job |-> 0, at |-> "take", port |-> NoPort, held |-> FALSE, exit |-> 0]

Mishap == mishaps < MaxMatrixFaults /\ mishaps' = mishaps + 1

CreatePlan ==
    /\ phase = "plan"
    /\ LET o == Normalized(request)
       IN  IF Refused(o) THEN phase' = "rejected" /\ UNCHANGED <<plan, worker, results, runs>>
           ELSE LET n == Len(Product(o))
                IN  /\ plan' = [i \in 1..n |-> BuildJob(o, i)]
                    /\ worker' = [w \in 1..(IF o.concurrency < n THEN o.concurrency ELSE n) |-> Idle]
                    /\ results' = [i \in 1..n |-> NoResult]
                    /\ runs' = [i \in 1..n |-> 0]
                    /\ phase' = "plan.json"
    /\ UNCHANGED <<request, nextIndex, listening, orphans, mishaps>>

WritePlan ==
    /\ phase = "plan.json"
    /\ \/ phase' = "jobs" /\ UNCHANGED mishaps
       \/ phase' = "rejected" /\ Mishap
    /\ UNCHANGED <<request, plan, nextIndex, worker, results, listening, orphans, runs>>

\* The workers, whose promises Promise.all waits for; one that was rejected
\* does not stop the others.
Running == phase = "jobs" \/ (phase = "rejected" /\ worker # <<>> /\ nextIndex > 0)

\* Wrong: the index is advanced when the job is done.
TakeJobLate(w) ==
    /\ Running /\ worker[w].at = "take"
    /\ worker' = [worker EXCEPT ![w] =
            IF nextIndex >= Len(plan) THEN [Idle EXCEPT !.at = "done"]
            ELSE [Idle EXCEPT !.job = nextIndex + 1, !.at = "mkdir"]]
    /\ nextIndex' = IF worker[w].job # 0 THEN nextIndex + 1 ELSE nextIndex
    /\ UNCHANGED <<phase, request, plan, results, listening, orphans, runs, mishaps>>

TakeJob(w) ==
    /\ Running /\ worker[w].at = "take"
    /\ nextIndex' = nextIndex + 1
    /\ worker' = [worker EXCEPT ![w] =
            IF nextIndex >= Len(plan) THEN [Idle EXCEPT !.at = "done"]
            ELSE [Idle EXCEPT !.job = nextIndex + 1, !.at = "mkdir"]]
    /\ UNCHANGED <<phase, request, plan, results, listening, orphans, runs, mishaps>>

\* A failure outside the try rejects the worker, and with it the run.
MakeDirs(w) ==
    /\ Running /\ worker[w].at = "mkdir"
    /\ \/ /\ worker' = [worker EXCEPT ![w].at =
                IF plan[worker[w].job].proxy THEN "port" ELSE "run"]
          /\ UNCHANGED <<phase, mishaps>>
       \/ /\ Mishap
          /\ worker' = [worker EXCEPT ![w].at = "done"]
          /\ phase' = "rejected"
    /\ UNCHANGED <<request, plan, nextIndex, results, listening, orphans, runs>>

\* getFreePort: the port is free when it is looked up, and given back.
GetFreePort(w) ==
    /\ Running /\ worker[w].at = "port"
    /\ \E port \in Ports :
          /\ listening[port] = 0
          /\ worker' = [worker EXCEPT ![w].port = port, ![w].at = "listen"]
    /\ UNCHANGED <<phase, request, plan, nextIndex, results, listening, orphans, runs, mishaps>>

\* startProviderProxy: the port may have been taken meanwhile; the first
\* snapshot may fail, and then nobody holds the server that listens already.
StartProxy(w) ==
    /\ Running /\ worker[w].at = "listen"
    /\ LET port == worker[w].port
       IN  \/ /\ listening[port] # 0
              /\ worker' = [worker EXCEPT ![w].at = "failed"]
              /\ UNCHANGED <<listening, orphans, mishaps>>
           \/ /\ listening[port] = 0
              /\ listening' = [listening EXCEPT ![port] = worker[w].job]
              /\ \/ /\ worker' = [worker EXCEPT ![w].at = "run", ![w].held = TRUE]
                    /\ UNCHANGED <<orphans, mishaps>>
                 \/ /\ Mishap
                    /\ orphans' = orphans \union {worker[w].job}
                    /\ worker' = [worker EXCEPT ![w].at = "failed"]
    /\ UNCHANGED <<phase, request, plan, nextIndex, results, runs>>

\* runCommand: it ends with an exit code, or cannot be started.
RunCommand(w) ==
    /\ Running /\ worker[w].at = "run"
    /\ \/ /\ \E code \in {0, 1} : worker' = [worker EXCEPT ![w].at = "stop", ![w].exit = code]
          /\ runs' = [runs EXCEPT ![worker[w].job] = @ + 1]
          /\ UNCHANGED mishaps
       \/ Mishap /\ worker' = [worker EXCEPT ![w].at = "failed"] /\ UNCHANGED runs
    /\ UNCHANGED <<phase, request, plan, nextIndex, results, listening, orphans>>

\* The server a worker holds, if it still listens, gives its port back.
Stopped(w) ==
    listening' = IF worker[w].held /\ listening[worker[w].port] = worker[w].job
                 THEN [listening EXCEPT ![worker[w].port] = 0] ELSE listening

\* providerProxy.stop: the server stops, then its last snapshot may fail.
StopProxy(w) ==
    /\ Running /\ worker[w].at = "stop"
    /\ Stopped(w)
    /\ \/ worker' = [worker EXCEPT ![w].held = FALSE, ![w].at = "report"] /\ UNCHANGED mishaps
       \/ worker[w].held /\ Mishap /\ worker' = [worker EXCEPT ![w].at = "failed"]
    /\ UNCHANGED <<phase, request, plan, nextIndex, results, orphans, runs>>

JobResult(w, status) == [status |-> status, index |-> plan[worker[w].job].index,
                      task |-> plan[worker[w].job].task]

\* stdout.log, stderr.log and command.json, then the result.
Report(w) ==
    /\ Running /\ worker[w].at = "report"
    /\ \/ /\ results' = [results EXCEPT ![worker[w].job] =
                JobResult(w, IF worker[w].exit = 0 THEN "completed" ELSE "failed")]
          /\ worker' = [worker EXCEPT ![w].at = "take"]
          /\ UNCHANGED mishaps
       \/ Mishap /\ worker' = [worker EXCEPT ![w].at = "failed"] /\ UNCHANGED results
    /\ UNCHANGED <<phase, request, plan, nextIndex, listening, orphans, runs>>

\* Wrong: the failure path leaves the proxy to itself.
ReportFailureOnly(w) ==
    /\ Running /\ worker[w].at = "failed"
    /\ results' = [results EXCEPT ![worker[w].job] = JobResult(w, "failed")]
    /\ worker' = [worker EXCEPT ![w].at = "take", ![w].held = FALSE]
    /\ UNCHANGED <<phase, request, plan, nextIndex, listening, orphans, runs, mishaps>>

\* The catch block: the proxy, if held, is stopped whatever comes of it.
ReportFailure(w) ==
    /\ Running /\ worker[w].at = "failed"
    /\ Stopped(w)
    /\ \/ /\ results' = [results EXCEPT ![worker[w].job] = JobResult(w, "failed")]
          /\ worker' = [worker EXCEPT ![w].at = "take", ![w].held = FALSE]
          /\ UNCHANGED <<phase, mishaps>>
       \/ /\ Mishap
          /\ worker' = [worker EXCEPT ![w].at = "done", ![w].held = FALSE]
          /\ phase' = "rejected"
          /\ UNCHANGED results
    /\ UNCHANGED <<request, plan, nextIndex, orphans, runs>>

\* jobs.jsonl and summary.json, which counts the failed jobs.
Summarize ==
    /\ phase = "jobs" /\ \A w \in DOMAIN worker : worker[w].at = "done"
    /\ \/ /\ phase' = IF \E i \in DOMAIN results : results[i].status = "failed"
                      THEN "failed" ELSE "completed"
          /\ UNCHANGED mishaps
       \/ phase' = "rejected" /\ Mishap
    /\ UNCHANGED <<request, plan, nextIndex, worker, results, listening, orphans, runs>>

-----------------------------------------------------------------------------
MatrixInit ==
    /\ phase = "plan" /\ request \in Requests
    /\ plan = <<>> /\ nextIndex = 0 /\ worker = <<>> /\ results = <<>>
    /\ listening = [p \in Ports |-> 0] /\ orphans = {}
    /\ runs = <<>> /\ mishaps = 0

MatrixNext ==
    \/ CreatePlan \/ WritePlan \/ Summarize
    \/ \E w \in DOMAIN worker :
          \/ TakeJob(w) \/ MakeDirs(w) \/ GetFreePort(w) \/ StartProxy(w)
          \/ RunCommand(w) \/ StopProxy(w) \/ Report(w) \/ ReportFailure(w)

MatrixSpec == MatrixInit /\ [][MatrixNext]_matrixVars

-----------------------------------------------------------------------------
(* Properties.                                                              *)

\* A summary is written for the jobs of the request, each run once at most and
\* reported in its own place: a run is completed exactly if every task of every
\* benchmark was run by every coder and none of the commands failed, in
\* whatever order the workers ended (runJobsWithConcurrency, runMatrix).
SummaryCoversThePlan ==
    /\ \A i \in DOMAIN runs : runs[i] <= 1
    /\ phase \in {"completed", "failed"} =>
          /\ \A c \in Range(Normalized(request).coders), b \in Range(Normalized(request).benchmarks) :
                \A t \in Range(Normalized(request).tasks[b]) :
                    Cardinality({i \in DOMAIN plan : <<plan[i].coder, plan[i].benchmark, plan[i].task>> = <<c, b, t>>}) = 1
          /\ \A i \in DOMAIN plan :
                /\ results[i].status # "none"
                /\ results[i].index = i /\ results[i].task = plan[i].task
                /\ phase = "completed" => runs[i] = 1

\* A command that is to go through a proxy runs while its own job's proxy
\* listens at the port it is given, although the port was free for a moment
\* before; otherwise it is not given one.  When every worker has ended, by its
\* last job or by a rejection, no proxy it started is left listening, except
\* one whose first snapshot failed: its handle was never returned
\* (runMatrixJob, getFreePort, startProviderProxy).
ProxiesServeTheirJob ==
    /\ \A w \in DOMAIN worker : worker[w].at = "run" =>
          LET job == plan[worker[w].job]
          IN  IF job.proxy THEN listening[worker[w].port] = job.index /\ "--base-url" \notin job.flags
              ELSE "--base-url" \in job.flags => request.baseUrl
    /\ worker # <<>> /\ (\A w \in DOMAIN worker : worker[w].at = "done") =>
          \A port \in Ports : listening[port] = 0 \/ listening[port] \in orphans

\* A matrix run is true to its request: its summary covers the plan, and every job ran
\* behind the proxy that records it (matrix/run.ts: runMatrix, runMatrixJob).
MatrixRunIsTrue == SummaryCoversThePlan /\ ProxiesServeTheirJob
=============================================================================
