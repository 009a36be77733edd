------------------------------ MODULE Transcript ------------------------------
(***************************************************************************)
(* Rebuilding the in-memory history from the event log                     *)
(* (engine/transcript.ts).  Of the events a session emits only the seven   *)
(* kinds below influence the result; the others are replay-invisible.      *)
(***************************************************************************)
EXTENDS Projection

ReplayTypes == {"turn.started", "user.message", "assistant.message",
                "tool.result", "step.ended", "turn.ended", "compact.ended"}
VisibleTypes == {"user.message", "assistant.message", "tool.result"}

\* A bookkeeping event carries NoMessage, an event that is no successful
\* compaction keeps no tail, and turn-level events have step 0.
NoMessage == UserMessage(0)
NoTail == 0

SessionEvent == [type : ReplayTypes, turn : Nat, step : Nat,
                 message : Message, tailStart : Nat]

Event(type, turn, step, message) ==
    [type |-> type, turn |-> turn, step |-> step, message |-> message,
     tailStart |-> NoTail]

\* compact.ended with status "succeeded".
CompactSucceeded(summary, tailStart) ==
    [type |-> "compact.ended", turn |-> 0, step |-> 0, message |-> summary,
     tailStart |-> tailStart]

-------------------------------------------------------------------------------
(***************************************************************************)
(* messagesFromVisibleEvents: `open` counts the results still missing for  *)
(* the assistant message last read, made in the given turn and step.       *)
(***************************************************************************)
StartOfReplay ==
    [accepted |-> TRUE, messages |-> <<>>, open |-> 0, turn |-> 0, step |-> 0]

\* Wrong: a result may come from another step.
BreaksBatchLoosely(s, e) ==
    \/ e.type \in {"turn.started", "user.message", "assistant.message"}
    \/ e.type = "step.ended" /\ e.turn = s.turn /\ e.step = s.step
    \/ e.type = "turn.ended" /\ e.turn = s.turn

BreaksBatch(s, e) ==
    \/ e.type \in {"turn.started", "user.message", "assistant.message"}
    \/ e.type = "step.ended" /\ e.turn = s.turn /\ e.step = s.step
    \/ e.type = "turn.ended" /\ e.turn = s.turn
    \/ e.type = "tool.result" /\ <<e.turn, e.step>> # <<s.turn, s.step>>

OpenAfter(s, e) ==
    CASE e.type = "assistant.message" -> Len(e.message.calls)
      [] e.type = "tool.result" /\ s.open > 0 -> s.open - 1
      [] OTHER -> s.open

ReplayEvent(s, e) ==
    IF ~s.accepted \/ (s.open > 0 /\ BreaksBatch(s, e))
    THEN [s EXCEPT !.accepted = FALSE]
    ELSE [accepted |-> TRUE,
          messages |-> IF e.type \in VisibleTypes
                       THEN Append(s.messages, e.message) ELSE s.messages,
          open |-> OpenAfter(s, e),
          turn |-> IF e.type = "assistant.message" THEN e.turn ELSE s.turn,
          step |-> IF e.type = "assistant.message" THEN e.step ELSE s.step]

MessagesFromVisibleEvents(events) ==
    LET end == FoldLeft(ReplayEvent, StartOfReplay, events)
    IN  [accepted |-> end.accepted /\ end.open = 0, messages |-> end.messages]

\* Wrong: the first successful compaction of the log.
FirstSuccessfulCompact(events) ==
    SelectInSeq(events, LAMBDA e : e.type = "compact.ended")

LatestSuccessfulCompact(events) ==
    SelectLastInSeq(events, LAMBDA e : e.type = "compact.ended")

\* Wrong: what the compaction kept is forgotten.
MessagesAfterCompactWithoutTail(events, c) ==
    LET suffix == MessagesFromVisibleEvents(SubSeq(events, c + 1, Len(events)))
    IN  [suffix EXCEPT !.messages = <<events[c].message>> \o @]

\* The history a compacted log stands for: the summary, what the log shows
\* before the compaction from the first message with the recorded id on, and
\* what it shows after it.
MessagesAfterCompact(events, c) ==
    LET prior == MessagesFromVisibleEvents(SubSeq(events, 1, c - 1))
        suffix == MessagesFromVisibleEvents(SubSeq(events, c + 1, Len(events)))
        start == SelectInSeq(prior.messages,
                             LAMBDA m : m.id = events[c].tailStart)
        tail == IF start = 0 THEN <<>>
                ELSE SubSeq(prior.messages, start, Len(prior.messages))
    IN  [accepted |-> /\ prior.accepted
                      /\ suffix.accepted
                      /\ events[c].tailStart # NoTail => start # 0,
         messages |-> <<events[c].message>> \o tail \o suffix.messages]

\* messagesFromEvents: `accepted` is FALSE when it throws.
MessagesFromEvents(events) ==
    LET c == LatestSuccessfulCompact(events)
        rebuilt == IF c = 0 THEN MessagesFromVisibleEvents(events)
                   ELSE MessagesAfterCompact(events, c)
    IN  [rebuilt EXCEPT !.accepted = @ /\ Projects(rebuilt.messages)]
===============================================================================
