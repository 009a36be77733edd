------------------------------- MODULE Reports -------------------------------
(***************************************************************************)
(* What is read off a profiled transcript: the report of one session       *)
(* (profiling/report/summarize.ts).  A pure function of the log.           *)
(*                                                                         *)
(* A log is a sequence of records with a `type`; a span has besides its    *)
(* name, category, status, start, duration and attributes, a function from *)
(* attribute names.  Times are whole milliseconds, so that rounding to a   *)
(* thousandth changes nothing.                                             *)
(* `parentSpanId`, which no caller passes, and the wording of warnings are *)
(* left out.                                                               *)
(***************************************************************************)
EXTENDS Integers, Sequences, FiniteSets, SequencesExt

CONSTANTS
    None,           \* null in a report
    TopLimit        \* topSlowSpanLimit

-------------------------------------------------------------------------------
(* Selections and sums                                                      *)

Of(log, type) == SelectSeq(log, LAMBDA e : e.type = type)

Named(spans, category, name) ==
    SelectSeq(spans, LAMBDA s : s.category = category /\ s.name = name)

Durations(spans) == [i \in DOMAIN spans |-> spans[i].dur]

Attribute(e, key) == IF key \in DOMAIN e.attrs THEN e.attrs[key] ELSE None

Attributes(es, key) ==
    SelectSeq([i \in DOMAIN es |-> Attribute(es[i], key)], LAMBDA v : v # None)

Total(values) == FoldLeft(LAMBDA sum, v : sum + v, 0, values)

\* addOptional, maxOptional, lastOptional over a whole list: nothing seen is null.
AddOptional(values) == IF values = <<>> THEN None ELSE Total(values)
MaxOptional(values) == IF values = <<>> THEN None ELSE Max(ToSet(values))
LastOptional(values) == IF values = <<>> THEN None ELSE values[Len(values)]

Ascending(values) == SortSeq(values, LAMBDA a, b : a < b)

\* p50: the lower median, one of the values.
P50(values) ==
    IF values = <<>> THEN None ELSE Ascending(values)[1 + (Len(values) - 1) \div 2]

\* A stable sort, the largest first.
Descending(items, Key(_)) ==
    LET order == SetToSortSeq(DOMAIN items,
                    LAMBDA i, j : \/ Key(items[i]) > Key(items[j])
                                  \/ Key(items[i]) = Key(items[j]) /\ i < j)
    IN  [n \in DOMAIN items |-> items[order[n]]]

\* What a Map keeps: each key once, in the order of the first.
KeysOf(items, Key(_)) ==
    LET firsts == {i \in DOMAIN items : \A j \in 1..(i - 1) : Key(items[j]) # Key(items[i])}
        order == SetToSortSeq(firsts, LAMBDA i, j : i < j)
    IN  [n \in DOMAIN order |-> Key(items[order[n]])]

-------------------------------------------------------------------------------
(* The report of one log                                                    *)

\* The aggregated write span is the first of its kind, and only that one.
TranscriptAggregate(spans) ==
    LET sums == Named(spans, "transcript", "transcript.write")
    IN  IF sums = <<>> THEN None ELSE sums[1]

\* Wrong: the profiler's aggregate is observed like any other span.
ObservedDurationOfAll(spans) ==
    IF spans = <<>> THEN 0
    ELSE Max({s.start + s.dur : s \in ToSet(spans)}) - Min({s.start : s \in ToSet(spans)})

ObservedDuration(spans) ==
    LET lifecycle == SelectSeq(spans, LAMBDA s : s # TranscriptAggregate(spans))
    IN  IF lifecycle = <<>> THEN 0
        ELSE Max({s.start + s.dur : s \in ToSet(lifecycle)}) - Min({s.start : s \in ToSet(lifecycle)})

CategoryTotals(spans) ==
    LET OfCategory(c) == SelectSeq(spans, LAMBDA s : s.category = c)
        keys == KeysOf(spans, LAMBDA s : s.category)
    IN  Descending([n \in DOMAIN keys |->
                      [category |-> keys[n], ms |-> Total(Durations(OfCategory(keys[n]))),
                       spans |-> Len(OfCategory(keys[n]))]],
                   LAMBDA t : t.ms)

TopBottleneck(spans) == IF spans = <<>> THEN None ELSE CategoryTotals(spans)[1].category

TopSlowSpans(spans) ==
    LET slow == Descending(spans, LAMBDA s : s.dur)
    IN  SubSeq(slow, 1, Min({TopLimit, Len(slow)}))

ProviderSummary(spans, log) ==
    LET steps == Named(spans, "provider", "provider.step")
        failures == Of(log, "provider.failure")
        classes == KeysOf(failures, LAMBDA f : f.class)
    IN  [calls |-> Len(steps), ms |-> Total(Durations(steps)),
         firstTokenP50 |-> P50(Attributes(steps, "firstTokenMs")),
         firstTokenMax |-> MaxOptional(Attributes(steps, "firstTokenMs")),
         streamP50 |-> P50(Durations(steps)), streamMax |-> MaxOptional(Durations(steps)),
         retries |-> Len(Of(log, "provider.retry")),
         failures |-> Descending([n \in DOMAIN classes |->
                          [class |-> classes[n],
                           count |-> Len(SelectSeq(failures, LAMBDA f : f.class = classes[n]))]],
                        LAMBDA c : c.count),
         tokens |-> AddOptional(Attributes(steps, "tokens"))]

ContextSummary(spans, log) ==
    LET assembled == Named(spans, "context", "context.assemble_step")
        snapshots == Of(log, "context.step")
    IN  [assembled |-> Len(assembled), ms |-> Total(Durations(assembled)),
         maxTokens |-> MaxOptional(Attributes(assembled, "estimatedTokens")
                                     \o [i \in DOMAIN snapshots |-> snapshots[i].tokens])]

\* One entry for each tool with a span; a refusal counts for a tool listed.
ToolSummary(spans, log) ==
    LET executed == Named(spans, "tool", "tool.execute")
        names == KeysOf(executed, LAMBDA s : Attribute(s, "toolName"))
        denied == SelectSeq(Of(log, "permission.decision"), LAMBDA d : d.decision = "deny")
        Spans(t) == SelectSeq(executed, LAMBDA s : Attribute(s, "toolName") = t)
        Count(t, status) == Len(SelectSeq(Spans(t), LAMBDA s : s.status = status))
    IN  Descending([n \in DOMAIN names |->
            [tool |-> names[n], count |-> Len(Spans(names[n])),
             p50 |-> P50(Durations(Spans(names[n]))),
             max |-> MaxOptional(Durations(Spans(names[n]))),
             errors |-> Count(names[n], "error"), timeouts |-> Count(names[n], "timeout"),
             denied |-> Len(SelectSeq(denied, LAMBDA d : d.tool = names[n]))]],
          LAMBDA t : t.count)

ApprovalSummary(spans, log) ==
    LET waits == Durations(Named(spans, "approval", "approval.wait"))
        Said(decision) == Len(SelectSeq(Of(log, "approval.responded"),
                                        LAMBDA r : r.decision = decision))
    IN  [count |-> Len(Of(log, "approval.requested")),
         allowed |-> Said("allow"), denied |-> Said("deny"),
         waitMs |-> AddOptional(waits), waitMax |-> MaxOptional(waits)]

RuntimeSummary(log) ==
    LET ran == Of(log, "bash.observation")
        Which(Test(_)) == Len(SelectSeq(ran, Test))
    IN  [count |-> Len(ran),
         p50 |-> P50([i \in DOMAIN ran |-> ran[i].dur]),
         max |-> MaxOptional([i \in DOMAIN ran |-> ran[i].dur]),
         nonzero |-> Which(LAMBDA r : r.exit \notin {None, 0}),
         timeouts |-> Which(LAMBDA r : r.timedOut),
         truncated |-> Which(LAMBDA r : r.truncated)]

McpSummary(log) ==
    [started |-> Len(Of(log, "mcp.server.started")), ready |-> Len(Of(log, "mcp.server.ready")),
     failed |-> Len(Of(log, "mcp.server.failed")),
     calls |-> Len(SelectSeq(Of(log, "tool.call"), LAMBDA c : c.mcp))]

CompactSummary(spans, log) ==
    LET ended == Of(log, "compact.ended")
        durations == Durations(Named(spans, "compact", "compact.run"))
        Sizes(key) == Attributes(ended, key)
    IN  [count |-> Len(Of(log, "compact.started")),
         failed |-> Len(SelectSeq(ended, LAMBDA e : e.status = "failed")),
         ms |-> AddOptional(durations),
         before |-> LastOptional(Sizes("before")), after |-> LastOptional(Sizes("after"))]

\* All of it is read from the aggregate, whose attributes the profiler wrote.
TranscriptWriteSummary(aggregate) ==
    IF aggregate = None
    THEN [writes |-> 0, ms |-> None, maxMs |-> None, profilerWrites |-> 0, profilerMs |-> None]
    ELSE [writes |-> aggregate.attrs.writes, ms |-> aggregate.attrs.ms,
          maxMs |-> aggregate.attrs.maxMs,
          profilerWrites |-> aggregate.attrs.profilerWrites,
          profilerMs |-> aggregate.attrs.profilerMs]

\* summarizeProfile
SummarizeProfile(log) ==
    LET spans == Of(log, "profile.span")
        aggregate == TranscriptAggregate(spans)
    IN  [turns |-> Len(Of(log, "turn.started")), steps |-> Len(Of(log, "step.started")),
         observed |-> ObservedDuration(spans), spans |-> Len(spans),
         bottleneck |-> TopBottleneck(spans), totals |-> CategoryTotals(spans),
         slowest |-> TopSlowSpans(spans),
         provider |-> ProviderSummary(spans, log), context |-> ContextSummary(spans, log),
         tools |-> ToolSummary(spans, log), approval |-> ApprovalSummary(spans, log),
         runtime |-> RuntimeSummary(log), mcp |-> McpSummary(log),
         compact |-> CompactSummary(spans, log),
         writes |-> TranscriptWriteSummary(aggregate),
         warnings |-> {w \in {"no spans", "no write span"} :
                         IF w = "no spans" THEN spans = <<>> ELSE aggregate = None}]
===============================================================================
