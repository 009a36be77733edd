----------------------------- MODULE Conversation -----------------------------
(***************************************************************************)
(* What a session promises about its history, without steps, writes,       *)
(* aborts or retries: it is a sequence of complete exchanges.  A user      *)
(* message or an answer is added whole, an answer with all the results of  *)
(* its tool calls; the last answer is withdrawn whole; or a summary takes  *)
(* the place of the oldest exchanges.                                      *)
(***************************************************************************)
EXTENDS Projection, Integers, Sequences

CONSTANTS Ids,        \* ids a message may have
          MaxResults  \* bound: tool calls in one answer

ASSUME ConversationAssumption ==
    /\ Ids \subseteq Nat
    /\ MaxResults \in Nat

VARIABLE exchanges

\* The provider never uses a call id of a result that is still in the history.
Fresh(id) == \A j \in ResultIndices(exchanges) : exchanges[j].call[1] # id

Calls(id, n) == [k \in 1..n |-> <<id, k>>]

Exchange(id, n) ==
    <<AssistantMessage(id, Calls(id, n))>> \o ToolResults(Calls(id, n))

CInit == exchanges = <<>>

Say(id) == exchanges' = Append(exchanges, UserMessage(id))

Answer(id, n) ==
    /\ Fresh(id)
    /\ exchanges' = exchanges \o Exchange(id, n)

\* Takes back everything from a last answer that asked for tools.
Withdraw(i) ==
    /\ \A j \in GroupStarts(exchanges) : j <= i
    /\ exchanges[i].calls # <<>>
    /\ exchanges' = SubSeq(exchanges, 1, i - 1)

Condense(i, id) ==
    /\ i > 1
    /\ exchanges' = <<UserMessage(id)>> \o SubSeq(exchanges, i, Len(exchanges))

CNext ==
    \/ \E id \in Ids : Say(id)
    \/ \E id \in Ids, n \in 0..MaxResults : Answer(id, n)
    \/ \E i \in GroupStarts(exchanges) : Withdraw(i)
    \/ \E i \in GroupStarts(exchanges), id \in Ids : Condense(i, id)

CSpec == CInit /\ [][CNext]_exchanges
===============================================================================
