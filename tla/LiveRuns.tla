------------------------------- MODULE LiveRuns -------------------------------
(***************************************************************************)
(* One prompt run several times with the profiler on                       *)
(* (profiling/liveRuns/runner.ts): the command line spawned once per run,  *)
(* its transcript reduced to a report, the reports of the measured runs    *)
(* put together (aggregate.ts); and one report set against another         *)
(* (compareReports.ts).                                                    *)
(*                                                                         *)
(* A child writes one of `Transcripts` before it ends, after the lines an  *)
(* earlier batch may have left in the same directory: the session appends. *)
(* The parsing of the options and the rendering are left out; ratios are   *)
(* in hundredths, medians and quartiles doubled.                           *)
(***************************************************************************)
EXTENDS Reports

CONSTANTS
    Transcripts,    \* what a run may log, sequences of events
    Leftovers,      \* what its file may hold before
    Warmups,        \* options.warmup
    Runs,           \* options.runs
    Thresholds,     \* [duration, runtime, writes : [comparable, warn, fail, warnDelta, failDelta],
                    \*  tokens : [warn, delta]]
    Unread          \* a transcript that cannot be read

VARIABLES
    child,          \* "none", "running", or "killed" by the timer and not closed yet
    left,           \* what the directory held
    fates,          \* what became of each run so far: [ended, log, reduced]
    runRecords,        \* LiveRunRecord of each run so far
    summary         \* live-runs.summary.json, or None

liveVars == <<child, left, fates, runRecords, summary>>

-------------------------------------------------------------------------------
(* Statistics                                                               *)

\* Doubled: the mean of the middle two, or the middle one.
Median2(sorted) ==
    LET n == Len(sorted) IN
    IF n = 0 THEN 0
    ELSE IF n % 2 = 0 THEN sorted[n \div 2] + sorted[n \div 2 + 1]
    ELSE 2 * sorted[n \div 2 + 1]

\* Tukey's hinges: the median of an odd sample is in neither half.
InterQuartile2(sorted) ==
    LET n == Len(sorted)
        half == n \div 2
    IN  IF n = 1 THEN 0
        ELSE Median2(SubSeq(sorted, n - half + 1, n)) - Median2(SubSeq(sorted, 1, half))

ComputeStats(values) ==
    LET sorted == Ascending(values) IN
    IF values = <<>> THEN None
    ELSE [count |-> Len(sorted), median2 |-> Median2(sorted), min |-> sorted[1],
          max |-> sorted[Len(sorted)], iqr2 |-> InterQuartile2(sorted)]

CollectNumbers(reports, Pick(_)) ==
    SelectSeq([i \in DOMAIN reports |-> Pick(reports[i])], LAMBDA v : v # None)

CategoriesOf(report) == {report.totals[i].category : i \in DOMAIN report.totals}
ToolsOf(report) == {report.tools[i].tool : i \in DOMAIN report.tools}
CategoryMs(report, c) ==
    IF c \in CategoriesOf(report)
    THEN LET i == CHOOSE i \in DOMAIN report.totals : report.totals[i].category = c
         IN  report.totals[i].ms
    ELSE None
ToolEntry(report, t) == CHOOSE e \in ToSet(report.tools) : e.tool = t

OrZero(v) == IF v = None THEN 0 ELSE v

\* A category a run never entered took it no time.
CategoryStats(reports) ==
    [c \in UNION {CategoriesOf(r) : r \in ToSet(reports)} |->
        ComputeStats([i \in DOMAIN reports |-> OrZero(CategoryMs(reports[i], c))])]

\* A tool counts in the runs that used it only.
ToolAggregates(reports) ==
    [t \in UNION {ToolsOf(r) : r \in ToSet(reports)} |->
        LET those == SelectSeq(reports, LAMBDA r : t \in ToolsOf(r))
            entries == [i \in DOMAIN those |-> ToolEntry(those[i], t)]
            Sum(Pick(_)) == Total([i \in DOMAIN entries |-> Pick(entries[i])])
        IN  [count |-> Sum(LAMBDA e : e.count), runs |-> Len(those),
             errors |-> Sum(LAMBDA e : e.errors), denied |-> Sum(LAMBDA e : e.denied),
             timeouts |-> Sum(LAMBDA e : e.timeouts),
             p50 |-> ComputeStats(CollectNumbers(entries, LAMBDA e : e.p50)),
             max |-> ComputeStats(CollectNumbers(entries, LAMBDA e : e.max))]]

BottleneckFrequency(reports) ==
    [c \in {r.bottleneck : r \in ToSet(reports)} \ {None} |->
        Len(SelectSeq(reports, LAMBDA r : r.bottleneck = c))]

\* The sections of one report that are numbers, each with its statistics.
SectionStats(reports) ==
    LET Stats(Pick(_)) == ComputeStats(CollectNumbers(reports, Pick))
        Sum(Pick(_)) == Total([i \in DOMAIN reports |-> Pick(reports[i])])
    IN  [observed |-> Stats(LAMBDA r : r.observed),
         firstToken |-> Stats(LAMBDA r : r.provider.firstTokenP50),
         stream |-> Stats(LAMBDA r : r.provider.streamP50),
         provider |-> Stats(LAMBDA r : r.provider.ms),
         retries |-> Stats(LAMBDA r : r.provider.retries),
         tokens |-> Stats(LAMBDA r : r.provider.tokens),
         contextTokens |-> Stats(LAMBDA r : r.context.maxTokens),
         context |-> Stats(LAMBDA r : r.context.ms),
         runtime |-> Stats(LAMBDA r : r.runtime.p50),
         bash |-> Sum(LAMBDA r : r.runtime.count), nonzero |-> Sum(LAMBDA r : r.runtime.nonzero),
         compacts |-> Sum(LAMBDA r : r.compact.count),
         failedCompacts |-> Sum(LAMBDA r : r.compact.failed),
         compact |-> Stats(LAMBDA r : r.compact.ms),
         writeMs |-> Stats(LAMBDA r : r.writes.ms),
         sumWriteMs |-> AddOptional(CollectNumbers(reports, LAMBDA r : r.writes.ms))]

-------------------------------------------------------------------------------
(* aggregateLiveRuns                                                        *)

HasData(record) == record.report # None /\ record.report.spans > 0

\* Wrong: the warm-up runs are measured too.
IncludedWarm(record) == record.status = "ok" /\ HasData(record)

Included(record) == record.status = "ok" /\ ~record.warmup /\ HasData(record)

AggregateLiveRuns(runs) ==
    LET included == SelectSeq(runs, Included)
        reports == [i \in DOMAIN included |-> included[i].report]
        Which(Test(_)) == Len(SelectSeq(runs, Test))
    IN  [total |-> Len(runs), included |-> Len(included),
         warmup |-> Which(LAMBDA r : r.warmup),
         failed |-> Which(LAMBDA r : r.status = "failed"),
         noData |-> Which(LAMBDA r : r.status = "ok" /\ ~r.warmup /\ ~HasData(r)),
         entries |-> [i \in DOMAIN runs |->
                        [status |-> runs[i].status, included |-> Included(runs[i]),
                         error |-> runs[i].error]],
         failures |-> {i \in DOMAIN runs : runs[i].status = "failed"},
         sections |-> SectionStats(reports), categories |-> CategoryStats(reports),
         tools |-> ToolAggregates(reports), bottlenecks |-> BottleneckFrequency(reports)]

-------------------------------------------------------------------------------
(* The runner                                                               *)

LiveInit ==
    /\ child = "none"
    /\ left \in {<<>>} \cup Leftovers
    /\ fates = <<>>
    /\ runRecords = <<>>
    /\ summary = None

CountRuns == Len(runRecords)

FailedRecord(error) ==
    [warmup |-> CountRuns < Warmups, status |-> "failed", report |-> None, error |-> error]

Note(fate, record) ==
    /\ fates' = Append(fates, fate)
    /\ runRecords' = Append(runRecords, record)
    /\ child' = "none"

Spawn ==
    /\ child = "none"
    /\ CountRuns < Warmups + Runs
    /\ child' = "running"
    /\ UNCHANGED <<left, fates, runRecords, summary>>

\* The command is not there: the spawn throws, or the child emits an error.
SpawnFails ==
    /\ child = "running"
    /\ Note([ended |-> "never", log |-> <<>>, reduced |-> FALSE], FailedRecord("spawn failed"))
    /\ UNCHANGED <<left, summary>>

\* The timer kills the child; the promise waits for its close all the same.
Timeout ==
    /\ child = "running"
    /\ child' = "killed"
    /\ UNCHANGED <<left, fates, runRecords, summary>>

KilledCloses ==
    /\ child = "killed"
    /\ \E log \in Transcripts :
         Note([ended |-> "late", log |-> log, reduced |-> FALSE], FailedRecord("timed out"))
    /\ UNCHANGED <<left, summary>>

ExitsNonzero ==
    /\ child = "running"
    /\ \E log \in Transcripts :
         Note([ended |-> "failed", log |-> log, reduced |-> FALSE], FailedRecord("CLI exited"))
    /\ UNCHANGED <<left, summary>>

\* The child is done: its transcript, whatever the file held before it included,
\* is reduced and the report written; either may fail.
ExitsZero ==
    /\ child = "running"
    /\ \E log \in Transcripts \cup {Unread}, written \in BOOLEAN :
         Note([ended |-> "done", log |-> log, reduced |-> log # Unread /\ written],
              IF log = Unread THEN FailedRecord("report reduction failed")
              ELSE IF ~written THEN FailedRecord("report write failed")
              ELSE [warmup |-> CountRuns < Warmups, status |-> "ok",
                    report |-> SummarizeProfile(left \o log), error |-> None])
    /\ UNCHANGED <<left, summary>>

WriteLiveSummary ==
    /\ child = "none"
    /\ CountRuns = Warmups + Runs
    /\ summary = None
    /\ summary' = AggregateLiveRuns(runRecords)
    /\ UNCHANGED <<child, left, fates, runRecords>>

LiveNext ==
    \/ Spawn \/ SpawnFails \/ Timeout \/ KilledCloses \/ ExitsNonzero \/ ExitsZero
    \/ WriteLiveSummary

LiveSpec == LiveInit /\ [][LiveNext]_liveVars

-------------------------------------------------------------------------------
(* compareReports                                                           *)

Check(metric, severity) == {[metric |-> metric, severity |-> severity]}

Strict(metric, b, c) == Check(metric, IF b = c THEN "pass" ELSE "fail")

\* Absent on both sides, a counter is not compared at all.
StrictUsage(metric, b, c) == IF b = None /\ c = None THEN {} ELSE Strict(metric, b, c)

MissingProfileData(b, c) ==
    Check(<<"profileData", "present">>,
          IF b.spans > 0 THEN IF c.spans > 0 THEN "pass" ELSE "fail" ELSE "warn")

\* Wrong: a report is as much off when it is faster.
DurationEitherWay(metric, b, c, gate) ==
    IF b = None /\ c = None THEN {}
    ELSE Check(metric,
        CASE b = None \/ c = None -> "info"
          [] b # None /\ c # None ->
               LET slow == Max({b, c})
                   fast == Min({b, c})
               IN  IF b < gate.comparable THEN "info"
                   ELSE IF 100 * slow >= fast * gate.fail /\ slow - fast >= gate.failDelta THEN "fail"
                   ELSE IF 100 * slow >= fast * gate.warn /\ slow - fast >= gate.warnDelta THEN "warn"
                   ELSE "pass")

\* Both the ratio and the difference have to be large, and the baseline long enough.
DurationCheck(metric, b, c, gate) ==
    LET Slower(ratio, delta) == 100 * c >= b * ratio /\ c - b >= delta
    IN  IF b = None /\ c = None THEN {}
        ELSE Check(metric,
            IF b = None \/ c = None THEN "info"
            ELSE IF b < gate.comparable THEN "info"
            ELSE IF Slower(gate.fail, gate.failDelta) THEN "fail"
            ELSE IF Slower(gate.warn, gate.warnDelta) THEN "warn" ELSE "pass")

TokenGrowth(metric, b, c) ==
    IF b = None /\ c = None THEN {}
    ELSE Check(metric,
        IF b = None \/ c = None THEN "info"
        ELSE IF 100 * c > b * Thresholds.tokens.warn /\ c - b >= Thresholds.tokens.delta
        THEN "warn" ELSE "pass")

StrictChecks(b, c) ==
    Strict(<<"session", "turns">>, b.turns, c.turns)
      \cup Strict(<<"session", "steps">>, b.steps, c.steps)
      \cup Strict(<<"provider", "calls">>, b.provider.calls, c.provider.calls)
      \cup Strict(<<"context", "assembled">>, b.context.assembled, c.context.assembled)
      \cup Strict(<<"runtime", "count">>, b.runtime.count, c.runtime.count)
      \cup Strict(<<"compact", "count">>, b.compact.count, c.compact.count)
      \cup Strict(<<"mcp", "calls">>, b.mcp.calls, c.mcp.calls)
      \cup StrictUsage(<<"provider", "tokens">>, b.provider.tokens, c.provider.tokens)
      \cup UNION {LET Uses(r) == IF t \in ToolsOf(r) THEN ToolEntry(r, t).count ELSE 0
                  IN  Strict(<<"tool count", t>>, Uses(b), Uses(c))
                  : t \in ToolsOf(b) \cup ToolsOf(c)}

\* Shells and file writes are noisier and have gates of their own.
DurationChecks(b, c) ==
    LET Timed(metric, x, y) == DurationCheck(metric, x, y, Thresholds.duration)
        Shell(metric, x, y) == DurationCheck(metric, x, y, Thresholds.runtime)
        Write(metric, x, y) == DurationCheck(metric, x, y, Thresholds.writes)
    IN  Timed(<<"summary", "observed">>, b.observed, c.observed)
          \cup UNION {Timed(<<"category", k>>, CategoryMs(b, k), CategoryMs(c, k))
                      : k \in CategoriesOf(b) \cup CategoriesOf(c)}
          \cup Timed(<<"provider", "ms">>, b.provider.ms, c.provider.ms)
          \cup Timed(<<"provider", "first">>, b.provider.firstTokenP50, c.provider.firstTokenP50)
          \cup Timed(<<"provider", "stream">>, b.provider.streamP50, c.provider.streamP50)
          \cup Timed(<<"context", "ms">>, b.context.ms, c.context.ms)
          \cup UNION {LET x == ToolEntry(b, t)
                          y == ToolEntry(c, t)
                      IN  Timed(<<"tool p50", t>>, x.p50, y.p50)
                            \cup Timed(<<"tool max", t>>, x.max, y.max)
                      : t \in ToolsOf(b) \cap ToolsOf(c)}
          \cup Shell(<<"runtime", "p50">>, b.runtime.p50, c.runtime.p50)
          \cup Shell(<<"runtime", "max">>, b.runtime.max, c.runtime.max)
          \cup Timed(<<"compact", "ms">>, b.compact.ms, c.compact.ms)
          \cup Write(<<"writes", "ms">>, b.writes.ms, c.writes.ms)
          \cup Write(<<"writes", "max">>, b.writes.maxMs, c.writes.maxMs)
          \cup Write(<<"writes", "own">>, b.writes.profilerMs, c.writes.profilerMs)

Checks(b, c) ==
    StrictChecks(b, c) \cup MissingProfileData(b, c) \cup DurationChecks(b, c)
      \cup TokenGrowth(<<"context", "tokens">>, b.context.maxTokens, c.context.maxTokens)

Severity(checks, s) == {k \in checks : k.severity = s}

CompareStatus(checks) ==
    IF Severity(checks, "fail") # {} THEN "fail"
    ELSE IF Severity(checks, "warn") # {} THEN "warn" ELSE "pass"

-------------------------------------------------------------------------------
(* Properties                                                               *)

StatsInRange(stats) ==
    stats # None =>
        /\ 2 * stats.min <= stats.median2
        /\ stats.median2 <= 2 * stats.max
        /\ 0 <= stats.iqr2
        /\ stats.iqr2 <= 2 * (stats.max - stats.min)

\* The runs whose numbers count: measured, done in time, reduced, with spans in the log.
Measured ==
    {i \in DOMAIN fates : i > Warmups /\ fates[i].reduced
                            /\ Of(left \o fates[i].log, "profile.span") # <<>>}

\* The summary accounts for every run it was asked for, once, takes its numbers
\* from the measured runs whose child ended well and in time and from no other,
\* and in a directory of its own each of those reports is of that run alone;
\* the statistics lie among the values they were taken from
\* (aggregate.ts:156-247, 428-452, runner.ts:197-256).
LiveSummaryIsTrue ==
    summary # None =>
        /\ summary.total = Warmups + Runs
        /\ summary.included = Cardinality(Measured)
        /\ \A i \in DOMAIN summary.entries : summary.entries[i].included <=> i \in Measured
        /\ summary.failures = {i \in DOMAIN fates : ~fates[i].reduced}
        /\ left = <<>> => \A i \in Measured : runRecords[i].report.turns = Len(Of(fates[i].log, "turn.started"))
        /\ StatsInRange(summary.sections.observed)
        /\ \A c \in DOMAIN summary.categories :
             /\ StatsInRange(summary.categories[c])
             /\ summary.categories[c].count = summary.included
        /\ Total([i \in 1..Cardinality(DOMAIN summary.bottlenecks) |->
                    SetToSeq({<<c, summary.bottlenecks[c]>> : c \in DOMAIN summary.bottlenecks})[i][2]])
             = summary.included
        /\ \A t \in DOMAIN summary.tools : summary.tools[t].runs <= summary.included

Reduced == {runRecords[i].report : i \in {j \in DOMAIN runRecords : runRecords[j].report # None}}

\* A report set against itself is never worse; of two reports no duration is a
\* regression of each against the other; what is compared exactly is as wrong
\* one way as the other, and reports that fail neither way are of sessions of
\* the same shape (compareReports.ts:118-205, 305-360).
ComparisonIsFair ==
    \A b, c \in Reduced :
        LET there == Checks(b, c)
            back == Checks(c, b)
        IN  /\ CompareStatus(Checks(b, b)) = (IF b.spans > 0 THEN "pass" ELSE "warn")
            /\ \A k \in DurationChecks(b, c), j \in DurationChecks(c, b) :
                 j.metric = k.metric => {j.severity, k.severity} \cap {"info", "pass"} # {}
            /\ StrictChecks(b, c) = StrictChecks(c, b)
            /\ "fail" \notin {CompareStatus(there), CompareStatus(back)}
                 => b.turns = c.turns /\ ToolsOf(b) = ToolsOf(c)
===============================================================================
