------------------------------- MODULE Histories -------------------------------
(***************************************************************************)
(* The functions of Projection and Transcript on histories and logs of any *)
(* shape, also those no session would write in one go: messages, or        *)
(* events, are added one after the other, whatever they are.  They are     *)
(* compared with reference definitions that do not scan; only logs a       *)
(* session could be resumed from, or could still become such by getting    *)
(* its missing results, are continued.                                     *)
(***************************************************************************)
EXTENDS Transcript, Conversation

CONSTANTS CallChoices, \* sets of calls an assistant message may make
          Answerable,  \* calls a tool result may answer
          MaxMessages, \* bound: messages in a history
          MaxRecent,   \* bound: recent messages to keep
          Turns,       \* turn ids
          Steps,       \* step ids
          Answers,     \* numbers of calls an assistant message may make
          MaxEvents,   \* bound: events in a log
          MaxKept      \* bound: compactTailMessages

ASSUME HistoriesAssumption ==
    /\ CallChoices \subseteq Seq(CallId)
    /\ Answerable \subseteq CallId
    /\ MaxMessages \in Nat
    /\ MaxRecent \in Nat
ASSUME LogsAssumption ==
    /\ Turns \subseteq Nat /\ Steps \subseteq Nat /\ Answers \subseteq Nat
    /\ {MaxEvents, MaxKept} \subseteq Nat

VARIABLES sample,  \* a history
          lines    \* a log

HInit == sample = <<>>

Add(m) == Len(sample) < MaxMessages /\ sample' = Append(sample, m)

HNext ==
    \/ Add(UserMessage(Len(sample) + 1))
    \/ \E calls \in CallChoices :
          Add(AssistantMessage(Len(sample) + 1, calls))
    \/ \E c \in Answerable : Add(ToolResult(c))

HSpec == HInit /\ [][HNext]_sample

-------------------------------------------------------------------------------
LogsInit == lines = <<>>

\* Message and call ids come from the length of the log, so none is used twice.
NewId == Len(lines) + 1

Asked == UNION {{m.calls[k] : k \in DOMAIN m.calls} :
                    m \in {lines[i].message : i \in DOMAIN lines}}

Inputs ==
    {Event("turn.started", t, 0, NoMessage) : t \in Turns}
    \union {Event("turn.ended", t, 0, NoMessage) : t \in Turns}
    \union {Event("step.ended", t, s, NoMessage) : t \in Turns, s \in Steps}
    \union {Event("user.message", t, 0, UserMessage(NewId)) : t \in Turns}
    \union {Event("assistant.message", t, s,
                  AssistantMessage(NewId, [k \in 1..n |-> <<NewId, k>>])) :
                t \in Turns, s \in Steps, n \in Answers}
    \union {Event("tool.result", t, s, ToolResult(c)) :
                t \in Turns, s \in Steps, c \in Asked}

\* What a successful compaction of the replayed history writes.
Compactions ==
    LET rebuilt == MessagesFromEvents(lines).messages IN
    {CompactSucceeded(UserMessage(NewId), Head(KeptTail(rebuilt, recent)).id) :
        recent \in {r \in 1..MaxKept :
                        rebuilt # <<>> /\ Summarized(rebuilt, r) # <<>>}}

\* The part of the log no later event can make replayable.
Hopeless ==
    LET c == LatestSuccessfulCompact(lines)
        suffix == SubSeq(lines, c + 1, Len(lines))
    IN  ~FoldLeft(ReplayEvent, StartOfReplay, suffix).accepted

Write(e) == Len(lines) < MaxEvents /\ ~Hopeless /\ lines' = Append(lines, e)

LogsNext ==
    \/ \E e \in Inputs : Write(e)
    \/ MessagesFromEvents(lines).accepted /\ \E e \in Compactions : Write(e)

LogsSpec == LogsInit /\ [][LogsNext]_lines

-------------------------------------------------------------------------------
\* projectMessages, which scans the history once with a queue of pending calls
\* and a set of seen results, accepts exactly the paired histories, and with
\* them whatever the abstract conversation may come to
\* (messageProjection.ts:33-102).
ScanAcceptsPaired ==
    /\ Projects(sample) <=> Paired(sample)
    /\ Projects(exchanges)

\* Whatever number of recent messages is asked for, compaction cuts between
\* two groups: what is summarised and what is kept are both paired, nothing
\* is in neither, and the kept part has at least the recent messages.  Making an
\* oversized summary request smaller leaves a shorter paired history, so the
\* loop ends and stays sendable (compaction.ts:30-97).
CompactionKeepsGroups ==
    Paired(sample) /\ sample # <<>> =>
        /\ \A recent \in 0..MaxRecent :
               LET old == Summarized(sample, recent)
                   kept == KeptTail(sample, recent)
               IN  /\ Paired(old) /\ Paired(kept)
                   /\ old \o kept = sample
                   /\ Len(kept) >= recent \/ old = <<>>
        /\ LET rest == DropOldestGroup(sample)
           IN  Paired(rest) /\ Len(rest) < Len(sample)

NoCompactionIn(s) == \A i \in DOMAIN s : s[i].type # "compact.ended"

\* Visible messages, in order.
Visible(s) == LET v == SelectSeq(s, LAMBDA e : e.type \in VisibleTypes)
              IN  [i \in DOMAIN v |-> v[i].message]

\* The events that belong to the step of the assistant message at i and come
\* after it.
BatchOf(s, i) ==
    SelectSeq(SubSeq(s, i + 1, Len(s)),
              LAMBDA e : e.type \in VisibleTypes \union {"turn.started"}
                         \/ (e.type = "turn.ended" /\ e.turn = s[i].turn)
                         \/ (e.type = "step.ended" /\ e.turn = s[i].turn
                                                   /\ e.step = s[i].step))

\* Without compactions a log is replayed to its visible messages, and it is
\* accepted exactly if they are paired and every answer's results come before
\* its step, its turn or another turn gets on.
PairedLogIsReplayed ==
    LET replay == MessagesFromEvents(lines)
        complete(i) ==
            LET n == Len(lines[i].message.calls)
                batch == BatchOf(lines, i)
            IN  /\ Len(batch) >= n
                /\ \A k \in 1..n :
                      /\ batch[k].type = "tool.result"
                      /\ batch[k].turn = lines[i].turn
                      /\ batch[k].step = lines[i].step
    IN  NoCompactionIn(lines) =>
           /\ replay.accepted =>
                 replay.messages = Visible(lines)
           /\ replay.accepted <=>
                 /\ Paired(Visible(lines))
                 /\ \A i \in DOMAIN lines :
                       lines[i].type = "assistant.message" => complete(i)

\* A successful compaction, the first or a later one, is replayed to exactly
\* what SessionEngine.compact leaves in memory: the summary and the kept tail.
CompactionSurvivesReplay ==
    LET rebuilt == MessagesFromEvents(lines) IN
    rebuilt.accepted =>
        \A e \in Compactions : \E r \in 1..MaxKept :
            /\ e.tailStart = Head(KeptTail(rebuilt.messages, r)).id
            /\ MessagesFromEvents(Append(lines, e)) =
                 [accepted |-> TRUE,
                  messages |-> <<e.message>> \o KeptTail(rebuilt.messages, r)]

\* A session resumed from its log goes on from what was in memory: the visible
\* messages, or the summary and the tail of the latest compaction
\* (transcript.ts:84-208).
ReplayIsExact == PairedLogIsReplayed /\ CompactionSurvivesReplay
===============================================================================
