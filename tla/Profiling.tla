------------------------------ MODULE Profiling ------------------------------
(***************************************************************************)
(* The profiler of a session (src/profiling/profiler.ts): spans started    *)
(* and ended around the work, each end a line of the transcript like every *)
(* other event; the cost of each write added up, the profiler's own apart; *)
(* the sum written as the last span when the session closes; and the       *)
(* report read off the log afterwards (module Reports).                    *)
(*                                                                         *)
(* Writes overlap (tools run side by side), take time and may fail; a      *)
(* caller whose end() throws ends the same span again from its catch.  The *)
(* bounds on the attributes (24 of them, 256 bytes) are never reached.     *)
(***************************************************************************)
EXTENDS Reports

CONSTANTS
    SpanKinds,      \* records [name, category, attrs, marked, statuses]
    Diagnostics,    \* the other events of a session, records with a type
    MaxSpans,       \* bounds: spans started,
    MaxLines,       \* events emitted,
    MaxClock,       \* milliseconds,
    MaxInflight,    \* writes at a time
    MaxProfilerFaults       \* and writes that fail

VARIABLES
    enabled,        \* options.enabled; otherwise the profiler is the no-op one
    clock,          \* performance.now()
    spans,          \* the handles, by number: spanId is the place
    inflight,       \* writes begun, in order: [event, began]
    transcript,     \* the lines written
    writes,         \* writeCount, writeDurationMs, writeMaxMs
    ownWrites,      \* profilerWriteCount, profilerWriteDurationMs
    flushed,        \* 0, or 1 + the lines written when the sum was taken
    profilerFaults

profilingVars == <<enabled, clock, spans, inflight, transcript, writes, ownWrites, flushed, profilerFaults>>

Emit(event) == inflight' = Append(inflight, [event |-> event, began |-> clock])

MayEmit ==
    /\ Len(inflight) < MaxInflight
    /\ Len(inflight) + Len(transcript) + profilerFaults < MaxLines

OpenSpans(h) == spans[h].state = "open"

ProfilingInit ==
    /\ enabled \in BOOLEAN
    /\ clock = 0
    /\ spans = <<>>
    /\ inflight = <<>>
    /\ transcript = <<>>
    /\ writes = [count |-> 0, ms |-> 0, maxMs |-> 0]
    /\ ownWrites = [count |-> 0, ms |-> 0]
    /\ flushed = 0
    /\ profilerFaults = 0

\* Time matters only to a span not ended yet and to a write begun.
Tick ==
    /\ clock < MaxClock
    /\ inflight # <<>> \/ \E h \in DOMAIN spans : OpenSpans(h)
    /\ clock' = clock + 1
    /\ UNCHANGED <<enabled, spans, inflight, transcript, writes, ownWrites, flushed, profilerFaults>>

\* An event of the session itself.
SaySomething ==
    /\ flushed = 0
    /\ MayEmit
    /\ \E event \in Diagnostics : Emit(event)
    /\ UNCHANGED <<enabled, clock, spans, transcript, writes, ownWrites, flushed, profilerFaults>>

StartSpan ==
    /\ enabled
    /\ flushed = 0
    /\ Len(spans) < MaxSpans
    /\ \E kind \in SpanKinds :
         spans' = Append(spans, [kind |-> kind, start |-> clock, attrs |-> kind.attrs,
                                 state |-> "open"])
    /\ UNCHANGED <<enabled, clock, inflight, transcript, writes, ownWrites, flushed, profilerFaults>>

\* mark: the time since the start, under a name
Mark(h) ==
    /\ OpenSpans(h)
    /\ spans[h].kind.marked # None
    /\ spans[h].kind.marked \notin DOMAIN spans[h].attrs
    /\ spans' = [spans EXCEPT ![h].attrs =
                    [key \in DOMAIN @ \cup {spans[h].kind.marked} |->
                        IF key \in DOMAIN @ THEN @[key] ELSE clock - spans[h].start]]
    /\ UNCHANGED <<enabled, clock, inflight, transcript, writes, ownWrites, flushed, profilerFaults>>

SpanEvent(h, status) ==
    [type |-> "profile.span", id |-> h, name |-> spans[h].kind.name,
     category |-> spans[h].kind.category, status |-> status,
     start |-> spans[h].start, dur |-> clock - spans[h].start, attrs |-> spans[h].attrs]

\* end: once only, and the flag is set before the write.
EndOnce(h, status) ==
    IF OpenSpans(h)
    THEN /\ spans' = [spans EXCEPT ![h].state = "ending"]
         /\ Emit(SpanEvent(h, status))
    ELSE UNCHANGED <<spans, inflight>>

EndSpan(h) ==
    /\ OpenSpans(h)
    /\ MayEmit
    /\ \E status \in spans[h].kind.statuses : EndOnce(h, status)
    /\ UNCHANGED <<enabled, clock, transcript, writes, ownWrites, flushed, profilerFaults>>

\* Wrong: what the caller's catch ends is written again.
EndFromCatchTwice(h) ==
    /\ spans[h].state = "failed"
    /\ spans' = [spans EXCEPT ![h].state = "caught"]
    /\ Emit(SpanEvent(h, "error"))
    /\ UNCHANGED <<enabled, clock, transcript, writes, ownWrites, flushed, profilerFaults>>

\* The write failed, end() threw, and the caller's catch calls end("error").
EndFromCatch(h) ==
    /\ spans[h].state = "failed"
    /\ LET again == [spans EXCEPT ![h].state = "caught"]
       IN  IF OpenSpans(h)
           THEN /\ spans' = [again EXCEPT ![h].state = "ending"]
                /\ Emit(SpanEvent(h, "error"))
           ELSE spans' = again /\ inflight' = inflight
    /\ UNCHANGED <<enabled, clock, transcript, writes, ownWrites, flushed, profilerFaults>>

\* recordTranscriptWrite
RecordSpan(event, took) ==
    IF event.type = "profile.span"
    THEN /\ ownWrites' = [count |-> ownWrites.count + 1, ms |-> ownWrites.ms + took]
         /\ writes' = writes
    ELSE /\ writes' = [count |-> writes.count + 1, ms |-> writes.ms + took,
                       maxMs |-> Max({writes.maxMs, took})]
         /\ ownWrites' = ownWrites

SpanState(event, state) ==
    IF event.type = "profile.span" /\ event.id \in DOMAIN spans
    THEN [spans EXCEPT ![event.id].state = state] ELSE spans

FinishWrite ==
    \E i \in DOMAIN inflight :
        LET w == inflight[i] IN
        /\ inflight' = RemoveAt(inflight, i)
        /\ transcript' = Append(transcript, w.event)
        /\ spans' = SpanState(w.event, "written")
        /\ IF enabled THEN RecordSpan(w.event, clock - w.began) ELSE UNCHANGED <<writes, ownWrites>>
        /\ UNCHANGED <<enabled, clock, flushed, profilerFaults>>

\* A failed write is not counted, though its line may have come into the file.
FailWrite ==
    /\ profilerFaults < MaxProfilerFaults
    /\ profilerFaults' = profilerFaults + 1
    /\ \E i \in DOMAIN inflight, there \in BOOLEAN :
         /\ inflight' = RemoveAt(inflight, i)
         /\ transcript' = IF there THEN Append(transcript, inflight[i].event) ELSE transcript
         /\ spans' = SpanState(inflight[i].event, "failed")
    /\ UNCHANGED <<enabled, clock, writes, ownWrites, flushed>>

\* flushTranscriptWriteSpan, when the session closes; its own write is in no sum.
Flush ==
    /\ enabled
    /\ flushed = 0
    /\ writes.count > 0
    /\ flushed' = 1 + Len(transcript)
    /\ Emit([type |-> "profile.span", id |-> Len(spans) + 1, name |-> "transcript.write",
             category |-> "transcript", status |-> "ok", start |-> clock, dur |-> writes.ms,
             attrs |-> [writes |-> writes.count, ms |-> writes.ms, maxMs |-> writes.maxMs,
                        profilerWrites |-> ownWrites.count, profilerMs |-> ownWrites.ms]])
    /\ UNCHANGED <<enabled, clock, spans, transcript, writes, ownWrites, profilerFaults>>

ProfilingNext ==
    \/ Tick
    \/ SaySomething
    \/ StartSpan
    \/ \E h \in DOMAIN spans : Mark(h) \/ EndSpan(h) \/ EndFromCatch(h)
    \/ FinishWrite
    \/ FailWrite
    \/ Flush

ProfilingSpec == ProfilingInit /\ [][ProfilingNext]_profilingVars

-------------------------------------------------------------------------------
(* The report against the session                                           *)

Written == {h \in DOMAIN spans : spans[h].state = "written"}

FirstLines(n) == SubSeq(transcript, 1, n)

\* Every span that was ended and written is in the report, and none is twice.
SpansOnce(report) ==
    LET others == SelectSeq(Of(transcript, "profile.span"), LAMBDA s : s.category # "transcript")
        ids == {s.id : s \in ToSet(others)}
    IN  /\ Len(others) = Cardinality(ids)
        /\ Written \subseteq ids
        /\ \A h \in ids : ~OpenSpans(h)
        /\ report.spans = Len(others) + (IF "no write span" \in report.warnings THEN 0 ELSE 1)
        /\ Total([i \in DOMAIN report.tools |-> report.tools[i].count])
             = Cardinality({h \in ids : spans[h].kind.name = "tool.execute"})
        /\ Total([i \in DOMAIN report.totals |-> report.totals[i].spans]) = report.spans

\* The sum splits the lines that were there when it was taken, the session's and the
\* profiler's, but for those whose write had failed.
WritesSplit(report) ==
    "no write span" \notin report.warnings =>
        LET own == Len(Of(FirstLines(flushed - 1), "profile.span"))
            uncounted == flushed - 1 - report.writes.writes - report.writes.profilerWrites
        IN  /\ uncounted \in 0..profilerFaults
            /\ own - report.writes.profilerWrites \in 0..uncounted
            /\ report.writes.maxMs <= report.writes.ms

\* The durations lie in the session, the medians among their values.
DurationsFit(report) ==
    /\ report.observed <= clock
    /\ \A h \in Written : \E s \in ToSet(Of(transcript, "profile.span")) :
         s.id = h /\ s.dur <= report.observed
    /\ report.provider.firstTokenP50 # None =>
         /\ report.provider.firstTokenP50 <= report.provider.firstTokenMax
         /\ report.provider.firstTokenMax <= report.provider.streamMax
    /\ \A i \in DOMAIN report.tools : report.tools[i].p50 <= report.tools[i].max
    /\ \A i \in DOMAIN report.totals : report.totals[i].ms <= report.totals[1].ms

\* The report of a log, whenever it is read, is about the session that wrote
\* it: each span that was written once, none ended twice although a caller whose
\* end() threw ends it again, the lines there were at the close split between
\* the session and the profiler, the durations within the session
\* (profiler.ts:102-175, summarize.ts:33-158).
ReportIsTheSession ==
    LET report == SummarizeProfile(transcript)
    IN  /\ ~enabled => Of(transcript, "profile.span") = <<>>
        /\ SpansOnce(report)
        /\ WritesSplit(report)
        /\ DurationsFit(report)
===============================================================================
