---------------------------- MODULE ProviderProxy ----------------------------
(***************************************************************************)
(* evals/provider-proxy/run.ts: requests are passed on to a provider, and   *)
(* what is known of each answer - never its text - is recorded in a profile *)
(* that is rewritten after every record.  The writes form a chain: one that *)
(* fails rejects all that come after it.  Requests overlap, answers may be  *)
(* streamed, clients may go away and the proxy may be stopped at any point. *)
(***************************************************************************)
EXTENDS Integers, Sequences, SequencesExt, FiniteSets

CONSTANTS
    Clients,       \* requests, by the client that makes them
    Streams,       \* event streams a provider may answer with
    Statuses,      \* HTTP statuses it may answer with
    MaxProxyFaults \* bound: failed writes and broken connections

ASSUME ProxyAssumption ==
    /\ MaxProxyFaults \in Nat /\ Statuses \subseteq Nat
    /\ IsFiniteSet(Clients) /\ "stop" \notin Clients
    /\ Streams \subseteq Seq([usage : Nat, token : BOOLEAN, ends : {"lf", "crlf"}])

VARIABLES
    serving,     \* "no", "yes" or "stopped"
    exchange,    \* [Clients -> the request's state]
    requestSeq,
    records,     \* the records in memory
    writeQueue,  \* what each snapshot of the chain is written for, in order
    broken,      \* a write of the chain has failed
    profile,     \* the records in the file
    proxyFaults

proxyVars == <<serving, exchange, requestSeq, records, writeQueue, broken,
               profile, proxyFaults>>

NotSent == [at |-> "idle", id |-> 0, status |-> 0, usage |-> 0, token |-> FALSE,
            stream |-> <<>>, text |-> <<>>]

ProxyFault == proxyFaults < MaxProxyFaults /\ proxyFaults' = proxyFaults + 1

-----------------------------------------------------------------------------
(* What is read from an answer.  An event of a stream is [usage, token]:    *)
(* the usage it reports, 0 for none, and whether it brings a first token;   *)
(* it ends with a blank line, "lf" or "crlf".  A piece of the stream may    *)
(* end anywhere, so that events are complete only at their blank line.      *)

IsRetryableStatus(s) == s \in {408, 409, 425, 429} \/ s \in 500..599

HttpError(s) == IF s \in 200..299 THEN [kind |-> "none", retryable |-> FALSE]
                ELSE [kind |-> "upstream_http_error", retryable |-> IsRetryableStatus(s)]
BrokenOff == [kind |-> "proxy_error", retryable |-> TRUE]

\* parseRawEvent: several events that were not split are no JSON together.
ParseRawEvent(x, events) ==
    IF Len(events) # 1 THEN x
    ELSE [x EXCEPT !.usage = IF events[1].usage # 0 THEN events[1].usage ELSE @,
                   !.token = @ \/ events[1].token]

\* SseMetadataParser.feed and drain look for LF LF only: a stream that ends its
\* lines with CR LF is buffered as a whole.
Feed(x, event) ==
    IF event.ends = "lf" THEN [ParseRawEvent(x, Append(x.text, event)) EXCEPT !.text = <<>>]
    ELSE [x EXCEPT !.text = Append(@, event)]

FinishParsing(x) == [ParseRawEvent(x, x.text) EXCEPT !.text = <<>>]

Record(x, error) == [id |-> x.id, status |-> x.status, usage |-> x.usage,
                     token |-> x.token, error |-> error]

\* The totals of a snapshot.
SnapshotTotals(rs) ==
    LET usage[n \in 0..Len(rs)] == IF n = 0 THEN 0 ELSE usage[n - 1] + rs[n].usage
    IN  [requests  |-> Len(rs),
         successes |-> Cardinality({i \in DOMAIN rs : rs[i].error.kind = "none"}),
         errors    |-> Cardinality({i \in DOMAIN rs : rs[i].error.kind # "none"}),
         retryable |-> Cardinality({i \in DOMAIN rs : rs[i].error.retryable}),
         usage     |-> usage[Len(rs)]]

-----------------------------------------------------------------------------
\* startProviderProxy, which waits for its first snapshot.
StartServing ==
    /\ serving = "no"
    /\ serving' = "yes"
    /\ UNCHANGED <<exchange, requestSeq, records, writeQueue, broken, profile, proxyFaults>>

\* handleProxyRequest up to the fetch, and proxyResponse up to the body: there
\* is no answer, or one of a status with a plain body or a stream.
Arrive(c) ==
    /\ serving = "yes" /\ exchange[c].at = "idle"
    /\ requestSeq' = requestSeq + 1
    /\ exchange' = [exchange EXCEPT ![c] = [NotSent EXCEPT !.at = "upstream", !.id = requestSeq + 1]]
    /\ UNCHANGED <<serving, records, writeQueue, broken, profile, proxyFaults>>

ProxyResponse(c) ==
    /\ exchange[c].at = "upstream"
    /\ \E s \in Statuses :
          \/ \E usage \in 0..1 :
                exchange' = [exchange EXCEPT ![c].at = "body", ![c].status = s, ![c].usage = usage]
          \/ \E events \in Streams :
                exchange' = [exchange EXCEPT ![c].at = "stream", ![c].status = s, ![c].stream = events]
    /\ UNCHANGED <<serving, requestSeq, records, writeQueue, broken, profile, proxyFaults>>

\* One event of the stream passes.
Chunk(c) ==
    /\ exchange[c].at = "stream" /\ exchange[c].stream # <<>>
    /\ exchange' = [exchange EXCEPT ![c] =
            [Feed(exchange[c], Head(exchange[c].stream)) EXCEPT !.stream = Tail(exchange[c].stream)]]
    /\ UNCHANGED <<serving, requestSeq, records, writeQueue, broken, profile, proxyFaults>>

\* ProfileRecorder.record: the record is kept, and a snapshot is chained.
Recording(c, x, error, next) ==
    /\ records' = Append(records, Record(x, error))
    /\ writeQueue' = Append(writeQueue, c)
    /\ exchange' = [exchange EXCEPT ![c] = [x EXCEPT !.at = next]]

\* The end of a stream (flush), or of a plain body.
EndOfStream(c) ==
    /\ exchange[c].at = "stream" /\ exchange[c].stream = <<>>
    /\ Recording(c, FinishParsing(exchange[c]), HttpError(exchange[c].status), "flushing")
    /\ UNCHANGED <<serving, requestSeq, broken, profile, proxyFaults>>

EndOfBody(c) ==
    /\ exchange[c].at = "body"
    /\ Recording(c, exchange[c], HttpError(exchange[c].status), "recording")
    /\ UNCHANGED <<serving, requestSeq, broken, profile, proxyFaults>>

\* The fetch fails, which records 502; so does the reading of a body, with the
\* status of the answer; a stream that breaks off never reaches flush.
BreakOff(c) ==
    /\ ProxyFault
    /\ \/ /\ exchange[c].at = "upstream"
          /\ Recording(c, [exchange[c] EXCEPT !.status = 502], BrokenOff, "reporting")
       \/ /\ exchange[c].at = "body"
          /\ Recording(c, [exchange[c] EXCEPT !.usage = 0], BrokenOff, "rerecording")
       \/ /\ exchange[c].at = "stream"
          /\ exchange' = [exchange EXCEPT ![c].at = "lost"]
          /\ UNCHANGED <<records, writeQueue>>
    /\ UNCHANGED <<serving, requestSeq, broken, profile>>

\* Wrong: the snapshot tells of what was recorded when the write was asked for.
WriteSnapshotStale ==
    /\ writeQueue # <<>> /\ ~broken
    /\ LET c == Head(writeQueue)
       IN  /\ profile' = SubSeq(records, 1, IF Len(records) >= Len(writeQueue)
                                           THEN Len(records) - Len(writeQueue) + 1 ELSE Len(records))
           /\ writeQueue' = Tail(writeQueue)
           /\ exchange' = IF c \in Clients THEN [exchange EXCEPT ![c].at = "done"] ELSE exchange
    /\ UNCHANGED <<serving, requestSeq, records, broken, proxyFaults>>

\* The next write of the chain: it tells of every record there is by now.
WriteSnapshot ==
    /\ writeQueue # <<>> /\ ~broken
    /\ profile' = records
    /\ writeQueue' = Tail(writeQueue)
    /\ LET c == Head(writeQueue)
       IN  exchange' = IF c \in Clients THEN [exchange EXCEPT ![c].at = "done"] ELSE exchange
    /\ UNCHANGED <<serving, requestSeq, records, broken, proxyFaults>>

\* A write fails, as all do after one has: the record is made again as that of
\* a failed body, and again by handleProxyRequest; the last failure goes out.
SnapshotFails ==
    /\ writeQueue # <<>>
    /\ IF broken THEN UNCHANGED proxyFaults ELSE ProxyFault
    /\ broken' = TRUE
    /\ LET c == Head(writeQueue)
           at == exchange[c].at
       IN  IF c \in Clients /\ at \in {"recording", "rerecording"}
           THEN LET again == IF at = "recording" THEN exchange[c] ELSE [exchange[c] EXCEPT !.status = 502]
                IN  /\ records' = Append(records, Record(again, BrokenOff))
                    /\ writeQueue' = Append(Tail(writeQueue), c)
                    /\ exchange' = [exchange EXCEPT ![c] =
                            [again EXCEPT !.at = IF at = "recording" THEN "rerecording" ELSE "reporting"]]
           ELSE /\ exchange' = IF c \in Clients THEN [exchange EXCEPT ![c].at = "done"] ELSE exchange
                /\ writeQueue' = Tail(writeQueue)
                /\ UNCHANGED records
    /\ UNCHANGED <<serving, requestSeq, profile>>

\* stop closes the connections - a stream then breaks off, a fetch or a body
\* fails - and chains a last snapshot.
StopServing ==
    /\ serving = "yes"
    /\ serving' = "stopped"
    /\ LET at(s) == {c \in Clients : exchange[c].at = s}
           cut == SetToSeq(at("upstream") \union at("body"))
           status(c) == IF c \in at("upstream") THEN [exchange[c] EXCEPT !.status = 502]
                        ELSE [exchange[c] EXCEPT !.usage = 0]
       IN  /\ exchange' = [c \in Clients |->
                CASE c \in at("stream")   -> [exchange[c] EXCEPT !.at = "lost"]
                  [] c \in at("upstream") -> [status(c) EXCEPT !.at = "reporting"]
                  [] c \in at("body")     -> [status(c) EXCEPT !.at = "rerecording"]
                  [] OTHER                -> exchange[c]]
           /\ records' = records \o [i \in DOMAIN cut |-> Record(status(cut[i]), BrokenOff)]
           /\ writeQueue' = writeQueue \o <<"stop">> \o cut
    /\ UNCHANGED <<requestSeq, broken, profile, proxyFaults>>

-----------------------------------------------------------------------------
ProxyInit ==
    /\ serving = "no"
    /\ exchange = [c \in Clients |-> NotSent]
    /\ requestSeq = 0 /\ records = <<>> /\ writeQueue = <<>> /\ broken = FALSE
    /\ profile = <<>> /\ proxyFaults = 0

ProxyNext ==
    \/ StartServing \/ StopServing \/ WriteSnapshot \/ SnapshotFails
    \/ \E c \in Clients :
          Arrive(c) \/ ProxyResponse(c) \/ Chunk(c) \/ EndOfStream(c) \/ EndOfBody(c) \/ BreakOff(c)

ProxySpec == ProxyInit /\ [][ProxyNext]_proxyVars

-----------------------------------------------------------------------------
\* Unless a write has failed, the profile tells of every exchange once: each
\* request that was answered is in the file, under its own id and with the
\* status and usage that were read, however the requests, the snapshots and the
\* stop overlap; the totals agree with the parts, and only a stream that was
\* cut off is missing (ProfileRecorder, proxyResponse).
EveryExchangeOnce ==
    ~broken =>
        /\ \A i, j \in DOMAIN records : i # j => records[i].id # records[j].id
        /\ \A c \in Clients : exchange[c].at = "done" =>
              \E r \in Range(profile) : r = Record(exchange[c], r.error)
        /\ writeQueue = <<>> => profile = records
        /\ LET t == SnapshotTotals(profile)
           IN  t.requests = t.successes + t.errors /\ t.retryable <= t.errors
=============================================================================
