------------------------------ MODULE Projection ------------------------------
(***************************************************************************)
(* The in-memory history of a session and the pure functions over it:      *)
(* projecting it for the provider (engine/messageProjection.ts) and        *)
(* choosing what a compaction keeps (context/compaction.ts).               *)
(*                                                                         *)
(* Text, names, byte counts and the snipping of old tool output do not     *)
(* influence which histories are accepted, so a message is reduced to its  *)
(* role, its id, the ids of the tool calls it makes and the id of the tool *)
(* call it answers.                                                        *)
(***************************************************************************)
EXTENDS Integers, Sequences, SequencesExt

\* A call id is a pair: which step it came from and its position there.
CallId == Nat \X Nat
NoCall == <<0, 0>>

Message == [role : {"user", "assistant", "tool"}, id : Nat,
            calls : Seq(CallId), call : CallId]

UserMessage(id) ==
    [role |-> "user", id |-> id, calls |-> <<>>, call |-> NoCall]
AssistantMessage(id, calls) ==
    [role |-> "assistant", id |-> id, calls |-> calls, call |-> NoCall]
\* The id of a tool result is never looked up, so it is left out.
ToolResult(call) ==
    [role |-> "tool", id |-> 0, calls |-> <<>>, call |-> call]

ToolResults(calls) == [i \in DOMAIN calls |-> ToolResult(calls[i])]

-------------------------------------------------------------------------------
(***************************************************************************)
(* projectMessages scans the history once, keeping the calls that still    *)
(* wait for a result and the calls already answered anywhere before.       *)
(***************************************************************************)
StartOfScan == [accepted |-> TRUE, pending |-> <<>>, seenToolResults |-> {}]

\* Wrong: a call may be answered again.
AcceptsAgain(s, m) ==
    /\ s.accepted
    /\ IF m.role = "tool"
       THEN s.pending # <<>> /\ m.call = Head(s.pending)
       ELSE s.pending = <<>>

Accepts(s, m) ==
    /\ s.accepted
    /\ IF m.role = "tool"
       THEN /\ m.call \notin s.seenToolResults
            /\ s.pending # <<>>
            /\ m.call = Head(s.pending)
       ELSE s.pending = <<>>

ScanMessage(s, m) ==
    IF ~Accepts(s, m)
    THEN [s EXCEPT !.accepted = FALSE]
    ELSE IF m.role = "tool"
    THEN [s EXCEPT !.pending = Tail(@),
                   !.seenToolResults = @ \union {m.call}]
    ELSE [s EXCEPT !.pending = m.calls]

\* projectMessages does not throw.
Projects(messages) ==
    LET end == FoldLeft(ScanMessage, StartOfScan, messages)
    IN  end.accepted /\ end.pending = <<>>

-------------------------------------------------------------------------------
(***************************************************************************)
(* Compaction keeps a tail of the history that begins with a group: a      *)
(* message that is no tool result, together with the results it asked for. *)
(***************************************************************************)
GroupStarts(messages) == {i \in DOMAIN messages : messages[i].role # "tool"}

\* Wrong: the tail begins at the first recent message, inside a group or not.
TailStartInGroup(messages, recent) ==
    IF recent < Len(messages) THEN Len(messages) - recent + 1 ELSE 1

\* selectPairingSafeTail: the index the kept tail begins at, the start of the
\* group that contains the first of the recent messages.  With no recent
\* messages to keep no group does, and everything is kept.
TailStart(messages, recent) ==
    LET first == IF recent < Len(messages) THEN Len(messages) - recent + 1
                 ELSE 1
        starts == {i \in GroupStarts(messages) : i <= first}
    IN  IF first > Len(messages) \/ starts = {} THEN 1
        ELSE CHOOSE i \in starts : \A j \in starts : j <= i

Summarized(messages, recent) ==
    SubSeq(messages, 1, TailStart(messages, recent) - 1)
\* Wrong: the last message is cut off.
KeptTailCut(messages, recent) ==
    SubSeq(messages, TailStart(messages, recent), Len(messages) - 1)
KeptTail(messages, recent) ==
    SubSeq(messages, TailStart(messages, recent), Len(messages))

\* dropOldestCompleteGroup, for a non-empty history that projects.
DropOldestGroup(messages) ==
    LET end == 1 + Len(messages[1].calls)
    IN  SubSeq(messages, end + 1, Len(messages))

-------------------------------------------------------------------------------
(***************************************************************************)
(* The pairing rule stated without a scan: the calls of an assistant       *)
(* message are answered by the messages right after it, in order, every    *)
(* tool result belongs to such a block, and no call is answered twice.     *)
(***************************************************************************)
ResultIndices(messages) == DOMAIN messages \ GroupStarts(messages)

Answered(messages, i) ==
    \A k \in DOMAIN messages[i].calls :
        /\ i + k \in ResultIndices(messages)
        /\ messages[i + k].call = messages[i].calls[k]

Owned(messages, j) ==
    \E i \in GroupStarts(messages) :
        j \in i + 1 .. i + Len(messages[i].calls)

Paired(messages) ==
    /\ \A i \in GroupStarts(messages) : Answered(messages, i)
    /\ \A j \in ResultIndices(messages) : Owned(messages, j)
    /\ \A j, k \in ResultIndices(messages) :
          messages[j].call = messages[k].call => j = k
===============================================================================
