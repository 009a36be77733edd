------------------------------ MODULE StreamStep ------------------------------
(***************************************************************************)
(* One request to the provider (providers/openaiCompatible.ts) and the loop *)
(* that waits for its message (loop/executeStep.ts).  The answer is a       *)
(* stream of events; it is read in pieces that end anywhere, a connection   *)
(* may end anywhere too, and the turn may be aborted at any point.          *)
(***************************************************************************)
EXTENDS Integers, Sequences, SequencesExt, FiniteSets

CONSTANTS
    Streamed,  \* streams a provider may send: [events, ends]
    Fragments, \* texts, and pieces of a call's arguments
    CallIds,
    Nil,       \* an absent id, name or message
    MaxPiece   \* bound: the units a read returns

\* A piece of a tool call: its index, id if it has one, and the piece of its
\* arguments.  An event that is no JSON is "junk".
CallPiece == [index : Int, id : CallIds \union {Nil}, arguments : Seq(Fragments)]
StreamedEvent ==
    [kind : {"delta"}, text : Fragments \union {""}, calls : Seq(CallPiece)]
      \union [kind : {"usage", "junk", "error", "done"}]

ASSUME StreamAssumption ==
    /\ MaxPiece \in Nat /\ Nil \notin CallIds
    /\ \A s \in Streamed : s.events \in Seq(StreamedEvent) /\ s.ends \in {"lf", "crlf"}

\* What goes over the line: each event in two halves, then the two line ends
\* that close it.  Only LF LF separates events.
Units(sent) ==
    [u \in 1..4 * Len(sent.events) |->
        [of |-> (u + 3) \div 4,
         is |-> <<"first", "second", sent.ends, sent.ends>>[((u - 1) % 4) + 1]]]

\* indexOf("\n\n"): the last unit of the first separator, 0 if there is none.
SplitAt(buf) ==
    LET ends == {k \in DOMAIN buf : k > 1 /\ buf[k].is = "lf" /\ buf[k - 1].is = "lf"}
    IN  IF ends = {} THEN 0 ELSE CHOOSE k \in ends : \A l \in ends : k <= l

\* A raw event says what its event says, if that came whole and alone.
Decoded(raw) ==
    LET text == {k \in DOMAIN raw : raw[k].is \in {"first", "second"}}
    IN  IF text = {1, 2} /\ raw[1].is = "first" /\ raw[1].of = raw[2].of
        THEN raw[1].of ELSE 0

-----------------------------------------------------------------------------
(* Putting the message together.                                            *)

NoTools == [i \in {} |-> Nil]

\* The name is kept as the id is.
Accumulate(tools, piece) ==
    LET old == IF piece.index \in DOMAIN tools THEN tools[piece.index]
               ELSE [id |-> Nil, arguments |-> <<>>]
        new == [id |-> IF piece.id # Nil THEN piece.id ELSE old.id,
                arguments |-> old.arguments \o piece.arguments]
    IN  [i \in DOMAIN tools \union {piece.index} |-> IF i = piece.index THEN new ELSE tools[i]]

\* toToolCall: without an id the call is named after its index.
ToToolCall(i, item) == [id |-> IF item.id = Nil THEN <<"tool_call", i>> ELSE item.id,
                        input |-> item.arguments]

\* sort: the k-th index is the one with k that are not above it.
Sorted(S) == [k \in 1..Cardinality(S) |-> CHOOSE i \in S : Cardinality({j \in S : j <= i}) = k]

MakeMessage(texts, calls) ==
    LET order == Sorted(DOMAIN calls)
    IN  [content |-> texts,
         toolCalls |-> [k \in DOMAIN order |-> ToToolCall(order[k], calls[order[k]])]]

-----------------------------------------------------------------------------
VARIABLES
    answer,
    arrived,   \* units that have been read
    buffer,    \* readSse's buffer
    content,   \* the texts so far
    tools,     \* the tool calls so far, by index
    usage,     \* usage has been reported
    deltas,    \* texts handed to onDelta
    aborted,   \* the turn's signal
    outcome,   \* "none", "message", "error" or "aborted"
    message

streamVars == <<answer, arrived, buffer, content, tools, usage, deltas, aborted, outcome, message>>

StreamInit ==
    /\ answer \in Streamed
    /\ arrived = 0 /\ buffer = <<>> /\ content = <<>> /\ tools = NoTools
    /\ usage = FALSE /\ deltas = <<>> /\ aborted = FALSE
    /\ outcome = "none" /\ message = Nil

Streaming == outcome = "none" /\ ~aborted

\* reader.read, once the buffer holds no whole event.
Receive ==
    /\ Streaming /\ SplitAt(buffer) = 0
    /\ \E n \in 1..MaxPiece :
          /\ arrived + n <= Len(Units(answer))
          /\ arrived' = arrived + n
          /\ buffer' = buffer \o SubSeq(Units(answer), arrived + 1, arrived + n)
    /\ UNCHANGED <<answer, content, tools, usage, deltas, aborted, outcome, message>>

Assemble(texts, calls) == outcome' = "message" /\ message' = MakeMessage(texts, calls)

\* One turn of stream's loop and of executeStep's: the text is passed on, which
\* writes an event and may fail.
Handle(e) ==
    CASE e.kind = "delta" ->
           /\ content' = IF e.text = "" THEN content ELSE Append(content, e.text)
           /\ \/ deltas' = content' /\ tools' = FoldLeft(Accumulate, tools, e.calls)
                 /\ UNCHANGED outcome
              \/ e.text # "" /\ outcome' = "error" /\ UNCHANGED <<deltas, tools>>
           /\ UNCHANGED <<usage, message>>
      [] e.kind = "usage" -> usage' = TRUE /\ UNCHANGED <<content, tools, deltas, outcome, message>>
      [] e.kind = "error" -> outcome' = "error" /\ UNCHANGED <<content, tools, usage, deltas, message>>
      [] e.kind = "done" -> Assemble(content, tools) /\ UNCHANGED <<content, tools, usage, deltas>>
      [] OTHER -> UNCHANGED <<content, tools, usage, deltas, outcome, message>>

EventIn(raw) == LET i == Decoded(raw)
              IN  IF i \in DOMAIN answer.events THEN answer.events[i] ELSE [kind |-> "junk"]

\* Wrong: what comes after the first event of a read is lost.
TakeOnlyEvent ==
    /\ Streaming /\ SplitAt(buffer) # 0
    /\ buffer' = <<>>
    /\ Handle(EventIn(SubSeq(buffer, 1, SplitAt(buffer))))
    /\ UNCHANGED <<answer, arrived, aborted>>

TakeEvent ==
    /\ Streaming /\ SplitAt(buffer) # 0
    /\ buffer' = SubSeq(buffer, SplitAt(buffer) + 1, Len(buffer))
    /\ Handle(EventIn(SubSeq(buffer, 1, SplitAt(buffer))))
    /\ UNCHANGED <<answer, arrived, aborted>>

\* The connection ends, early or not: a last event needs no separator, and what
\* there is by then makes the message.
EndOfStream ==
    /\ Streaming /\ SplitAt(buffer) = 0
    /\ buffer' = <<>>
    /\ LET e == EventIn(buffer)
           texts == IF e.kind = "delta" /\ e.text # "" THEN Append(content, e.text) ELSE content
           calls == IF e.kind = "delta" THEN FoldLeft(Accumulate, tools, e.calls) ELSE tools
       IN  \/ /\ e.kind = "error" \/ texts # content
              /\ outcome' = "error" /\ UNCHANGED <<content, tools, deltas, message>>
           \/ /\ e.kind # "error"
              /\ content' = texts /\ tools' = calls /\ deltas' = texts
              /\ Assemble(texts, calls)
    /\ UNCHANGED <<answer, arrived, usage, aborted>>

\* The connection breaks.
ReadFails ==
    /\ Streaming /\ SplitAt(buffer) = 0
    /\ outcome' = "error"
    /\ UNCHANGED <<answer, arrived, buffer, content, tools, usage, deltas, aborted, message>>

AbortStep ==
    /\ Streaming /\ aborted' = TRUE
    /\ UNCHANGED <<answer, arrived, buffer, content, tools, usage, deltas, outcome, message>>

\* abortableNext rejects; the iterator is returned, which takes the end of its
\* pending read, and nothing it still had reaches the turn.
StepAborts ==
    /\ outcome = "none" /\ aborted /\ outcome' = "aborted"
    /\ UNCHANGED <<answer, arrived, buffer, content, tools, usage, deltas, aborted, message>>

StreamNext ==
    \/ Receive \/ TakeEvent \/ EndOfStream \/ ReadFails \/ AbortStep \/ StepAborts

StreamSpec == StreamInit /\ [][StreamNext]_streamVars

-----------------------------------------------------------------------------
\* The events that count, of the first n units: those that arrived whole, up to
\* the first "done".
Whole(sent, n) ==
    LET came == {i \in DOMAIN sent.events : n >= 4 * i - 2}
        stop == {i \in came : sent.events[i].kind = "done"}
    IN  IF sent.ends = "lf" THEN {i \in came : \A d \in stop : i <= d}
        ELSE {i \in came : n <= 4}

\* The texts that the first n events bring, in order.
TextsSent(events) ==
    LET upTo[n \in 0..Len(events)] ==
            IF n = 0 THEN <<>>
            ELSE IF events[n].kind = "delta" /\ events[n].text # ""
                 THEN Append(upTo[n - 1], events[n].text) ELSE upTo[n - 1]
    IN  upTo

\* The arguments of call i in the first n pieces, and in those of the first n events.
Own(i, pieces) ==
    LET upTo[n \in 0..Len(pieces)] ==
            IF n = 0 THEN <<>>
            ELSE IF pieces[n].index = i THEN upTo[n - 1] \o pieces[n].arguments ELSE upTo[n - 1]
    IN  upTo
Pieces(e) == IF e.kind = "delta" THEN e.calls ELSE <<>>
Arguments(i, events) ==
    LET upTo[n \in 0..Len(events)] ==
            IF n = 0 THEN <<>>
            ELSE upTo[n - 1] \o Own(i, Pieces(events[n]))[Len(Pieces(events[n]))]
    IN  upTo
Called(events, n) == UNION {{p.index : p \in Range(Pieces(events[k]))} : k \in 1..n}

\* The message is what the events that came whole say, however they were cut
\* into reads: the texts in order, and for each index, in their order, the pieces
\* of its own call; an error event, an abort or a text that could not be logged
\* leaves no message; the turn has seen a text exactly if the message has it.
\* Streams with CR LF are one event: only a single one can be read
\* (openaiCompatible.ts:63-113, 134-157; executeStep.ts:22-44).
MessageIsTheStream ==
    LET whole == Whole(answer, arrived)
        count == Max(whole \union {0})
        texts == TextsSent(answer.events)[count]
        called == Called(answer.events, count)
    IN  /\ outcome = "message" =>
              /\ message.content = texts /\ deltas = texts
              /\ Len(message.toolCalls) = Cardinality(called)
              /\ \A i \in called :
                    message.toolCalls[Cardinality({j \in called : j <= i})].input
                      = Arguments(i, answer.events)[count]
              /\ \A i \in whole : answer.events[i].kind # "error"
        /\ outcome # "message" => message = Nil
        /\ IsPrefix(deltas, texts)
===============================================================================
