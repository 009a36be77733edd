------------------------- MODULE SessionHistory_proofs -------------------------
(***************************************************************************)
(* The history of a session stays paired, and the session implements the   *)
(* abstract conversation: exchanges come and go whole.  Between turns its  *)
(* log rebuilds exactly the history in memory, within one process and over *)
(* its lifetimes.                                                          *)
(***************************************************************************)
EXTENDS AgentSession_proofs, Lifetimes

-------------------------------------------------------------------------------
(***************************************************************************)
(* Exchanges that are still open: an assistant message with n calls, and   *)
(* results for the first k of them                                         *)
(***************************************************************************)
StepCalls(step, n) == [i \in 1..n |-> <<step, i>>]
Opened(step, n, k) ==
    <<AssistantMessage(step, StepCalls(step, n))>>
      \o ToolResults(StepCalls(step, k))

\* No result in s answers a call of this step.
NewTo(s, step) == \A c \in ResultCalls(s) : c[1] # step

LEMMA StepCallsTypes ==
    ASSUME NEW step \in Nat, NEW n \in Nat
    PROVE  /\ StepCalls(step, n) \in Seq(CallId)
           /\ Len(StepCalls(step, n)) = n
           /\ DOMAIN StepCalls(step, n) = 1..n
           /\ n = 0 <=> StepCalls(step, n) = <<>>
           /\ \A i \in 1..n : StepCalls(step, n)[i] = <<step, i>>
<1>1. \A i \in 1..n : <<step, i>> \in CallId
  BY DEF CallId
<1>2. StepCalls(step, n) \in Seq(CallId)
  BY <1>1 DEF StepCalls
<1>3. /\ DOMAIN StepCalls(step, n) = 1..n
      /\ \A i \in 1..n : StepCalls(step, n)[i] = <<step, i>>
  BY DEF StepCalls
<1>4. Len(StepCalls(step, n)) = n
  BY <1>2, <1>3
<1> QED
  BY <1>2, <1>3, <1>4

LEMMA OpenedTypes ==
    ASSUME NEW step \in Nat, NEW n \in Nat, NEW k \in Nat
    PROVE  /\ Opened(step, n, k) \in Seq(Message)
           /\ Len(Opened(step, n, k)) = k + 1
           /\ Opened(step, n, k)[1] = AssistantMessage(step, StepCalls(step, n))
           /\ \A i \in 1..k : Opened(step, n, k)[1 + i] = ToolResult(<<step, i>>)
<1> DEFINE a == <<AssistantMessage(step, StepCalls(step, n))>>
           b == ToolResults(StepCalls(step, k))
<1>1. a \in Seq(Message) /\ b \in Seq(Message)
  BY StepCallsTypes, MessageTypes
<1>2. Len(a) = 1 /\ a[1] = AssistantMessage(step, StepCalls(step, n))
  OBVIOUS
<1>3. Len(b) = k /\ \A i \in 1..k : b[i] = ToolResult(<<step, i>>)
  <2>1. DOMAIN b = 1..k /\ \A i \in 1..k : b[i] = ToolResult(<<step, i>>)
    BY StepCallsTypes DEF ToolResults
  <2> QED
    BY <1>1, <2>1
<1> HIDE DEF a, b
<1>4. /\ a \o b \in Seq(Message) /\ Len(a \o b) = 1 + k
      /\ (a \o b)[1] = a[1]
      /\ \A i \in 1..k : (a \o b)[1 + i] = b[i]
  <2>1. /\ a \o b \in Seq(Message)
        /\ Len(a \o b) = Len(a) + Len(b)
        /\ \A i \in 1..Len(a) : (a \o b)[i] = a[i]
        /\ \A i \in 1..Len(b) : (a \o b)[Len(a) + i] = b[i]
    BY <1>1, JoinedMessages
  <2> QED
    BY <1>2, <1>3, <2>1
<1> QED
  BY <1>2, <1>3, <1>4 DEF a, b, Opened

\* The groups and the answered calls of an open exchange.
LEMMA OpenedGroups ==
    ASSUME NEW step \in Nat, NEW n \in Nat, NEW k \in Nat
    PROVE  /\ GroupStarts(Opened(step, n, k)) = {1}
           /\ ResultCalls(Opened(step, n, k)) = {<<step, i>> : i \in 1..k}
<1> DEFINE s == Opened(step, n, k)
<1>1. /\ DOMAIN s = 1..k + 1
      /\ s[1].role = "assistant"
      /\ \A i \in 1..k : s[1 + i].role = "tool" /\ s[1 + i].call = <<step, i>>
  <2>1. /\ s \in Seq(Message) /\ Len(s) = k + 1
        /\ s[1] = AssistantMessage(step, StepCalls(step, n))
        /\ \A i \in 1..k : s[1 + i] = ToolResult(<<step, i>>)
    BY OpenedTypes
  <2>2. DOMAIN s = 1..k + 1
    BY <2>1
  <2>3. s[1].role = "assistant"
    BY <2>1 DEF AssistantMessage
  <2>4. \A c : ToolResult(c).role = "tool" /\ ToolResult(c).call = c
    BY DEF ToolResult
  <2> HIDE DEF s
  <2> QED
    BY <2>1, <2>2, <2>3, <2>4
<1> HIDE DEF s
<1>2. \A j \in 1..k + 1 : j = 1 \/ \E i \in 1..k : j = 1 + i
  <2> SUFFICES ASSUME NEW j \in 1..k + 1, j # 1
               PROVE  \E i \in 1..k : j = 1 + i
    OBVIOUS
  <2>1. j - 1 \in 1..k /\ j = 1 + (j - 1)
    OBVIOUS
  <2> QED
    BY <2>1
<1>3. GroupStarts(s) = {1}
  <2>1. \A j \in DOMAIN s : j = 1 <=> s[j].role # "tool"
    BY <1>1, <1>2
  <2>2. 1 \in DOMAIN s
    BY <1>1
  <2> QED
    BY <2>1, <2>2 DEF GroupStarts
<1>4. ResultIndices(s) = 2..k + 1
  BY <1>1, <1>3 DEF ResultIndices
<1>5. \A j \in 2..k + 1 : \E i \in 1..k : s[j].call = <<step, i>>
  <2> SUFFICES ASSUME NEW j \in 2..k + 1
               PROVE  \E i \in 1..k : s[j].call = <<step, i>>
    OBVIOUS
  <2>1. PICK i \in 1..k : j = 1 + i
    BY <1>2
  <2> QED
    BY <1>1, <2>1
<1>6. \A i \in 1..k : 1 + i \in 2..k + 1 /\ s[1 + i].call = <<step, i>>
  <2>1. \A i \in 1..k : 1 + i \in 2..k + 1
    OBVIOUS
  <2> QED
    BY <1>1, <2>1
<1>7. ResultCalls(s) = {<<step, i>> : i \in 1..k}
  BY <1>4, <1>5, <1>6 DEF ResultCalls
<1> QED
  BY <1>3, <1>7 DEF s

\* The next result.
LEMMA OpenedGrows ==
    ASSUME NEW step \in Nat, NEW n \in Nat, NEW k \in Nat
    PROVE  Append(Opened(step, n, k), ToolResult(<<step, k + 1>>))
             = Opened(step, n, k + 1)
<1> DEFINE s == Opened(step, n, k)
           t == Opened(step, n, k + 1)
           r == ToolResult(<<step, k + 1>>)
<1>1. /\ s \in Seq(Message) /\ Len(s) = k + 1
      /\ s[1] = AssistantMessage(step, StepCalls(step, n))
      /\ \A i \in 1..k : s[1 + i] = ToolResult(<<step, i>>)
  BY OpenedTypes
<1>2. /\ t \in Seq(Message) /\ Len(t) = k + 2
      /\ t[1] = AssistantMessage(step, StepCalls(step, n))
      /\ \A i \in 1..k + 1 : t[1 + i] = ToolResult(<<step, i>>)
  <2>1. PICK m \in Nat : m = k + 1
    OBVIOUS
  <2>2. /\ Opened(step, n, m) \in Seq(Message) /\ Len(Opened(step, n, m)) = m + 1
        /\ Opened(step, n, m)[1] = AssistantMessage(step, StepCalls(step, n))
        /\ \A i \in 1..m : Opened(step, n, m)[1 + i] = ToolResult(<<step, i>>)
    BY OpenedTypes
  <2>3. m + 1 = k + 2
    BY <2>1
  <2> QED
    BY <2>1, <2>2, <2>3
<1>3. r \in Message
  <2>1. t[1 + (k + 1)] = r /\ 1 + (k + 1) \in 1..Len(t)
    BY <1>2
  <2> QED
    BY <1>2, <2>1
<1> HIDE DEF s, t, r
<1> DEFINE u == Append(s, r)
<1>4. /\ u \in Seq(Message) /\ Len(u) = k + 2
      /\ \A j \in 1..k + 1 : u[j] = s[j]
      /\ u[k + 2] = r
  BY <1>1, <1>3
<1> HIDE DEF u
<1>5. ASSUME NEW j \in 1..k + 2 PROVE u[j] = t[j]
  <2>1. CASE j = 1
    BY <1>1, <1>2, <1>4, <2>1
  <2>2. CASE j \in 2..k + 1
    <3>1. PICK i \in 1..k : j = 1 + i
      <4>1. j - 1 \in 1..k /\ j = 1 + (j - 1)
        BY <2>2
      <4> QED
        BY <4>1
    <3>2. i \in 1..k + 1 /\ j \in 1..k + 1
      BY <2>2, <3>1
    <3> QED
      BY <1>1, <1>2, <1>4, <3>1, <3>2
  <2>3. CASE j = k + 2
    <3>1. PICK m : m = k + 1
      OBVIOUS
    <3>2. m \in 1..k + 1 /\ 1 + m = j
      BY <2>3, <3>1
    <3>3. t[1 + m] = ToolResult(<<step, m>>)
      BY <1>2, <3>2
    <3>4. t[j] = r
      BY <3>1, <3>2, <3>3 DEF r
    <3> QED
      BY <1>4, <2>3, <3>4
  <2> QED
    BY <2>1, <2>2, <2>3
<1>6. u = t
  BY <1>2, <1>4, <1>5
<1> QED
  BY <1>6 DEF s, t, r, u

LEMMA AppendOfConcat ==
    ASSUME NEW a \in Seq(Message), NEW b \in Seq(Message), NEW e \in Message
    PROVE  Append(a \o b, e) = a \o Append(b, e)
  OBVIOUS

\* A history with an open exchange at its end.
EndsOpen(s, before, step, n, k) ==
    /\ s \in Seq(Message)
    /\ Len(before) \in Nat
    /\ Len(s) = Len(before) + k + 1
    /\ SubSeq(s, 1, Len(before)) = before
    /\ GroupStarts(s) = GroupStarts(before) \union {Len(before) + 1}
    /\ s[Len(before) + 1].calls = StepCalls(step, n)
    /\ \A i \in 1..k : s[Len(before) + 1 + i].role = "tool"
    /\ ResultCalls(s) = ResultCalls(before) \union {<<step, i>> : i \in 1..k}
    /\ Append(s, ToolResult(<<step, k + 1>>)) = before \o Opened(step, n, k + 1)

LEMMA OpenEnd ==
    ASSUME NEW before \in Seq(Message), NEW step \in Nat, NEW n \in Nat, NEW k \in Nat,
           NEW s, s = before \o Opened(step, n, k)
    PROVE  EndsOpen(s, before, step, n, k)
<1> DEFINE x == Opened(step, n, k)
<1>1. /\ x \in Seq(Message) /\ Len(x) = k + 1
      /\ x[1].calls = StepCalls(step, n)
      /\ \A i \in 1..k : x[1 + i].role = "tool"
      /\ GroupStarts(x) = {1}
      /\ ResultCalls(x) = {<<step, i>> : i \in 1..k}
  <2>1. /\ x \in Seq(Message) /\ Len(x) = k + 1
        /\ x[1] = AssistantMessage(step, StepCalls(step, n))
        /\ \A i \in 1..k : x[1 + i] = ToolResult(<<step, i>>)
    BY OpenedTypes
  <2>2. AssistantMessage(step, StepCalls(step, n)).calls = StepCalls(step, n)
    BY DEF AssistantMessage
  <2>3. \A c : ToolResult(c).role = "tool"
    BY DEF ToolResult
  <2>4. /\ GroupStarts(x) = {1}
        /\ ResultCalls(x) = {<<step, i>> : i \in 1..k}
    BY OpenedGroups
  <2> HIDE DEF x
  <2> QED
    BY <2>1, <2>2, <2>3, <2>4
<1>2. Append(x, ToolResult(<<step, k + 1>>)) = Opened(step, n, k + 1)
  BY OpenedGrows
<1>3. ToolResult(<<step, k + 1>>) \in Message
  <2>1. /\ Opened(step, n, k + 1) \in Seq(Message)
        /\ Len(Opened(step, n, k + 1)) = (k + 1) + 1
        /\ Opened(step, n, k + 1)[1 + (k + 1)] = ToolResult(<<step, k + 1>>)
    <3>1. PICK m \in Nat : m = k + 1
      OBVIOUS
    <3>2. /\ Opened(step, n, m) \in Seq(Message)
          /\ Len(Opened(step, n, m)) = m + 1
          /\ \A i \in 1..m : Opened(step, n, m)[1 + i] = ToolResult(<<step, i>>)
      BY OpenedTypes
    <3>3. m \in 1..m
      BY <3>1
    <3>4. Opened(step, n, m)[1 + m] = ToolResult(<<step, m>>)
      BY <3>2, <3>3
    <3> QED
      BY <3>1, <3>2, <3>4
  <2> QED
    BY <2>1
<1> HIDE DEF x
<1>4. /\ s \in Seq(Message)
      /\ Len(before) \in Nat
      /\ Len(s) = Len(before) + Len(x)
      /\ \A i \in 1..Len(before) : s[i] = before[i]
      /\ \A i \in 1..Len(x) : s[Len(before) + i] = x[i]
      /\ GroupStarts(s) = GroupStarts(before) \union {Len(before) + i : i \in GroupStarts(x)}
  BY <1>1, JoinedMessages DEF x
<1>5. SubSeq(s, 1, Len(before)) = before
  BY <1>1, <1>4
<1>6. \A i \in 1..k : s[Len(before) + 1 + i].role = "tool"
  <2> SUFFICES ASSUME NEW i \in 1..k PROVE s[Len(before) + 1 + i].role = "tool"
    OBVIOUS
  <2>1. PICK j : j = 1 + i
    OBVIOUS
  <2>2. j \in 1..Len(x) /\ Len(before) + 1 + i = Len(before) + j
    BY <1>1, <1>4, <2>1
  <2>3. x[j].role = "tool"
    BY <1>1, <2>1
  <2> QED
    BY <1>4, <2>2, <2>3
<1>7. ResultCalls(s) = ResultCalls(before) \union {<<step, i>> : i \in 1..k}
  BY <1>1, JoinedCalls DEF x
<1>8. s[Len(before) + 1].calls = StepCalls(step, n)
  <2>1. 1 \in 1..Len(x)
    BY <1>1
  <2>2. s[Len(before) + 1] = x[1]
    BY <1>4, <2>1
  <2> QED
    BY <1>1, <2>2
<1>9. Append(s, ToolResult(<<step, k + 1>>)) = before \o Opened(step, n, k + 1)
  <2>1. \A r \in Message : Append(before \o x, r) = before \o Append(x, r)
    <3>1. x \in Seq(Message)
      BY <1>1
    <3> QED
      BY <3>1, AppendOfConcat, Zenon
  <2>2. Append(before \o x, ToolResult(<<step, k + 1>>))
          = before \o Append(x, ToolResult(<<step, k + 1>>))
    BY <1>3, <2>1
  <2> QED
    BY <1>2, <2>2 DEF x
<1>10. /\ Len(s) = Len(before) + k + 1
       /\ GroupStarts(s) = GroupStarts(before) \union {Len(before) + 1}
  BY <1>1, <1>4
<1> QED
  BY <1>4, <1>5, <1>6, <1>7, <1>8, <1>9, <1>10 DEF EndsOpen

\* An exchange of a new step, all its calls answered, keeps a history paired.
LEMMA ClosedEnd ==
    ASSUME NEW before \in Seq(Message), NEW step \in Nat, NEW n \in Nat,
           Paired(before), NewTo(before, step)
    PROVE  Paired(before \o Opened(step, n, n))
<1> DEFINE x == Opened(step, n, n)
<1>1. x \in Seq(Message) /\ Paired(x) /\ ResultCalls(x) = {<<step, i>> : i \in 1..n}
  <2>1. PICK calls : calls = StepCalls(step, n)
    OBVIOUS
  <2>2. /\ calls \in Seq(CallId) /\ DOMAIN calls = 1..n
        /\ \A i \in 1..n : calls[i] = <<step, i>>
    BY <2>1, StepCallsTypes
  <2>3. \A i, j \in DOMAIN calls : calls[i] = calls[j] => i = j
    BY <2>2
  <2>4. x \in Seq(Message) /\ Paired(x)
    BY <2>1, <2>2, <2>3, PairedExchange DEF Opened
  <2> QED
    BY <2>4, OpenedGroups
<1> HIDE DEF x
<1>2. ResultCalls(before) \intersect ResultCalls(x) = {}
  BY <1>1 DEF NewTo
<1> QED
  BY <1>1, <1>2, PairedJoin DEF x

-------------------------------------------------------------------------------
(***************************************************************************)
(* The complete part of a history                                          *)
(***************************************************************************)
Complete(s) ==
    IF s = <<>> \/ Answered(s, LastGroup(s)) THEN s
    ELSE SubSeq(s, 1, LastGroup(s) - 1)

\* A paired history is complete.
LEMMA PairedComplete ==
    ASSUME NEW s \in Seq(Message), Paired(s)
    PROVE  Complete(s) = s
<1>1. CASE s # <<>>
  <2>1. GroupStarts(s) # {}
    BY <1>1, PairedBegins
  <2>2. Answered(s, LastGroup(s))
    BY <2>1, LastGroupIsLast DEF Paired
  <2> QED
    BY <2>2 DEF Complete
<1> QED
  BY <1>1 DEF Complete

\* An exchange that misses results is no part of it.
LEMMA OpenEndIncomplete ==
    ASSUME NEW before \in Seq(Message), NEW step \in Nat, NEW n \in Nat, NEW k \in Nat,
           k < n, NEW s, s = before \o Opened(step, n, k)
    PROVE  Complete(s) = before
<1>1. /\ s \in Seq(Message)
      /\ Len(before) \in Nat
      /\ Len(s) = Len(before) + k + 1
      /\ SubSeq(s, 1, Len(before)) = before
      /\ GroupStarts(s) = GroupStarts(before) \union {Len(before) + 1}
      /\ s[Len(before) + 1].calls = StepCalls(step, n)
  <2>1. EndsOpen(s, before, step, n, k)
    BY OpenEnd
  <2> QED
    BY <2>1 DEF EndsOpen
<1>2. PICK i : i = LastGroup(s)
  OBVIOUS
<1>3. i = Len(before) + 1
  <2>1. i \in GroupStarts(s) /\ \A j \in GroupStarts(s) : j <= i
    BY <1>1, <1>2, LastGroupIsLast
  <2>2. GroupStarts(before) \subseteq 1..Len(before)
    BY DEF GroupStarts
  <2> QED
    BY <1>1, <2>1, <2>2
<1>4. ~Answered(s, i)
  <2>1. k + 1 \in DOMAIN s[i].calls
    <3>1. DOMAIN StepCalls(step, n) = 1..n
      BY StepCallsTypes
    <3>2. DOMAIN s[i].calls = 1..n
      BY <1>1, <1>3, <3>1
    <3> QED
      BY <3>2
  <2>2. i + (k + 1) \notin DOMAIN s
    BY <1>1, <1>3
  <2> QED
    BY <2>1, <2>2 DEF Answered, ResultIndices
<1>5. s # <<>> /\ i - 1 = Len(before)
  BY <1>1, <1>3
<1> QED
  BY <1>1, <1>2, <1>4, <1>5 DEF Complete

-------------------------------------------------------------------------------
(***************************************************************************)
(* What a step may make of a history s                                     *)
(***************************************************************************)
Says(s, t) ==
    Paired(s) /\ \E id \in Nat : t = Append(s, UserMessage(id))

Opens(s, t) ==
    /\ Paired(s)
    /\ \E step \in Nat, n \in 0..MaxCalls :
          NewTo(s, step) /\ t = s \o Opened(step, n, 0)

\* An exchange of n calls, k of them answered, behind a paired history.
InExchange(before, step, n, k, s) ==
    /\ Paired(before)
    /\ NewTo(before, step)
    /\ s = before \o Opened(step, n, k)

AnswersCall(s, t) ==
    \E before \in Seq(Message), step \in Nat, n \in 1..MaxCalls :
       \E k \in 0..n - 1 :
          /\ InExchange(before, step, n, k, s)
          /\ t = before \o Opened(step, n, k + 1)

TakesBack(s, t) ==
    \E before \in Seq(Message), step \in Nat, n \in 1..MaxCalls :
       \E k \in 0..n :
          InExchange(before, step, n, k, s) /\ t = before

Condenses(s, id, t) ==
    /\ Paired(s)
    /\ \E i \in GroupStarts(s) :
          i > 1 /\ t = <<UserMessage(id)>> \o SubSeq(s, i, Len(s))

\* The same, of complete histories: the steps of the conversation.
Converses(h, g) ==
    \/ \E id \in Nat : g = Append(h, UserMessage(id))
    \/ \E step \in Nat, n \in 0..MaxCalls :
          NewTo(h, step) /\ g = h \o Opened(step, n, n)
    \/ \E i \in GroupStarts(h) :
          /\ \A j \in GroupStarts(h) : j <= i
          /\ h[i].calls # <<>>
          /\ g = SubSeq(h, 1, i - 1)
    \/ \E i \in GroupStarts(h), id \in Nat :
          i > 1 /\ g = <<UserMessage(id)>> \o SubSeq(h, i, Len(h))

LEMMA CallsBounded == MaxCalls \in Nat
  BY BoundsAssumption

\* A user message or a summary in front of or behind a paired history.
LEMMA UserMessageJoins ==
    ASSUME NEW id \in Nat, NEW s \in Seq(Message), Paired(s)
    PROVE  /\ Append(s, UserMessage(id)) \in Seq(Message)
           /\ Paired(Append(s, UserMessage(id)))
           /\ ResultCalls(Append(s, UserMessage(id))) = ResultCalls(s)
           /\ <<UserMessage(id)>> \o s \in Seq(Message)
           /\ Paired(<<UserMessage(id)>> \o s)
           /\ ResultCalls(<<UserMessage(id)>> \o s) = ResultCalls(s)
<1>1. PICK m \in Message : m = UserMessage(id)
  <2>1. <<>> \in Seq(CallId)
    OBVIOUS
  <2> QED
    BY <2>1, MessageTypes
<1>2. m.role # "tool" /\ m.calls = <<>>
  BY <1>1 DEF UserMessage
<1>3. <<m>> \in Seq(Message) /\ Paired(<<m>>) /\ ResultCalls(<<m>>) = {}
  BY <1>2, PairedMessage
<1>4. /\ s \o <<m>> \in Seq(Message) /\ <<m>> \o s \in Seq(Message)
      /\ Append(s, m) = s \o <<m>>
  OBVIOUS
<1>5. PICK one : one = <<m>>
  OBVIOUS
<1>6. /\ Paired(s \o one) /\ ResultCalls(s \o one) = ResultCalls(s)
      /\ Paired(one \o s) /\ ResultCalls(one \o s) = ResultCalls(s)
  <2>1. one \in Seq(Message) /\ Paired(one) /\ ResultCalls(one) = {}
    BY <1>3, <1>5
  <2>2. /\ ResultCalls(s) \intersect ResultCalls(one) = {}
        /\ ResultCalls(one) \intersect ResultCalls(s) = {}
    BY <2>1
  <2>3. Paired(s \o one) /\ Paired(one \o s)
    BY <2>1, <2>2, PairedJoin
  <2>4. /\ ResultCalls(s \o one) = ResultCalls(s) \union ResultCalls(one)
        /\ ResultCalls(one \o s) = ResultCalls(one) \union ResultCalls(s)
    BY <2>1, JoinedCalls
  <2> QED
    BY <2>1, <2>3, <2>4
<1> QED
  BY <1>1, <1>4, <1>5, <1>6

\* A compaction that cuts at a group leaves a paired history.
LEMMA CondensedPaired ==
    ASSUME NEW s \in Seq(Message), NEW id \in Nat, NEW t, Condenses(s, id, t)
    PROVE  t \in Seq(Message) /\ Paired(t) /\ ResultCalls(t) \subseteq ResultCalls(s)
<1>1. PICK i \in GroupStarts(s) :
         i > 1 /\ t = <<UserMessage(id)>> \o SubSeq(s, i, Len(s))
  BY DEF Condenses
<1>2. PICK a : a = SubSeq(s, 1, i - 1)
  OBVIOUS
<1>3. PICK b : b = SubSeq(s, i, Len(s))
  OBVIOUS
<1>4. Paired(s) /\ i \in 1..Len(s) /\ Len(s) \in Nat
  BY DEF Condenses, GroupStarts
<1>5. a \in Seq(Message) /\ b \in Seq(Message)
  BY <1>2, <1>3, <1>4
<1>6. Paired(b) /\ a \o b = s
  BY <1>2, <1>3, <1>4, PairedCut
<1>7. ResultCalls(b) \subseteq ResultCalls(s)
  BY <1>5, <1>6, JoinedCalls
<1> QED
  BY <1>1, <1>3, <1>5, <1>6, <1>7, UserMessageJoins

\* An open exchange leaves the complete part as it was before it; the last
\* result adds it whole.
LEMMA OpenComplete ==
    ASSUME NEW before \in Seq(Message), NEW step \in Nat, NEW n \in Nat,
           NEW k \in 0..n, NEW s, InExchange(before, step, n, k, s)
    PROVE  /\ s \in Seq(Message)
           /\ Complete(s) = IF k < n THEN before ELSE s
           /\ k = n => Paired(s)
<1>1. k \in Nat /\ EndsOpen(s, before, step, n, k)
  <2>1. k \in Nat
    OBVIOUS
  <2> QED
    BY <2>1, OpenEnd DEF InExchange
<1>2. s \in Seq(Message)
  BY <1>1 DEF EndsOpen
<1>3. CASE k < n
  <2>1. Complete(s) = before
    BY <1>1, <1>3, OpenEndIncomplete DEF InExchange
  <2>2. k # n
    BY <1>3
  <2> QED
    BY <1>2, <1>3, <2>1, <2>2
<1>4. CASE k = n
  <2>1. Paired(s)
    BY <1>4, ClosedEnd DEF InExchange
  <2> QED
    BY <1>2, <1>4, <2>1, PairedComplete
<1>5. k < n \/ k = n
  OBVIOUS
<1> QED
  BY <1>3, <1>4, <1>5

\* The complete parts of the histories before and after a step are the same,
\* or they are a step of the conversation apart.
LEMMA MovesConverse ==
    ASSUME NEW s \in Seq(Message), NEW t \in Seq(Message), NEW id \in Nat,
           \/ s = t
           \/ Says(s, t)
           \/ Opens(s, t)
           \/ AnswersCall(s, t)
           \/ TakesBack(s, t)
           \/ Condenses(s, id, t)
    PROVE  Complete(t) = Complete(s) \/ Converses(Complete(s), Complete(t))
<1>1. CASE Says(s, t)
  <2>1. PICK i \in Nat : t = Append(s, UserMessage(i))
    BY <1>1 DEF Says
  <2>2. Paired(s) /\ Paired(t)
    BY <1>1, <2>1, UserMessageJoins DEF Says
  <2>3. Complete(s) = s /\ Complete(t) = t
    BY <2>2, PairedComplete
  <2> QED
    BY <2>1, <2>3 DEF Converses
<1>2. CASE Opens(s, t)
  <2>1. PICK step \in Nat, n \in 0..MaxCalls :
           NewTo(s, step) /\ t = s \o Opened(step, n, 0)
    BY <1>2 DEF Opens
  <2>2. n \in Nat /\ 0 \in 0..n
    BY CallsBounded
  <2>3. InExchange(s, step, n, 0, t) /\ Complete(s) = s
    BY <1>2, <2>1, PairedComplete DEF Opens, InExchange
  <2>4. Complete(t) = IF 0 < n THEN s ELSE t
    BY <2>2, <2>3, OpenComplete
  <2>5. CASE n = 0
    BY <2>1, <2>3, <2>4, <2>5 DEF Converses
  <2>6. CASE 0 < n
    BY <2>3, <2>4, <2>6
  <2> QED
    BY <2>2, <2>5, <2>6
<1>3. CASE AnswersCall(s, t)
  <2>1. PICK before \in Seq(Message), step \in Nat, n \in 1..MaxCalls :
           \E k \in 0..n - 1 :
              /\ InExchange(before, step, n, k, s)
              /\ t = before \o Opened(step, n, k + 1)
    BY <1>3 DEF AnswersCall
  <2>2. PICK k \in 0..n - 1 :
              /\ InExchange(before, step, n, k, s)
              /\ t = before \o Opened(step, n, k + 1)
    BY <2>1
  <2>3. PICK l : l = k + 1
    OBVIOUS
  <2>4. n \in Nat /\ k \in 0..n /\ l \in 0..n /\ k < n
    BY <2>3, CallsBounded
  <2>5. Complete(s) = before
    BY <2>2, <2>4, OpenComplete
  <2>6. InExchange(before, step, n, l, t)
    BY <2>2, <2>3 DEF InExchange
  <2>7. Complete(t) = IF l < n THEN before ELSE t
    BY <2>4, <2>6, OpenComplete
  <2>8. CASE l < n
    BY <2>5, <2>7, <2>8
  <2>9. CASE l = n
    <3>1. n \in 0..MaxCalls
      BY CallsBounded
    <3>2. NewTo(before, step) /\ t = before \o Opened(step, n, n)
      BY <2>6, <2>9 DEF InExchange
    <3>3. Complete(t) = t
      BY <2>4, <2>7, <2>9
    <3> QED
      BY <2>5, <3>1, <3>2, <3>3 DEF Converses
  <2> QED
    BY <2>4, <2>8, <2>9
<1>4. CASE TakesBack(s, t)
  <2>1. PICK step \in Nat, n \in 1..MaxCalls :
           \E k \in 0..n : InExchange(t, step, n, k, s)
    BY <1>4 DEF TakesBack
  <2>2. PICK k \in 0..n : InExchange(t, step, n, k, s)
    BY <2>1
  <2>3. n \in Nat /\ n # 0 /\ k \in Nat
    BY CallsBounded
  <2>4. Complete(t) = t
    BY <2>2, PairedComplete DEF InExchange
  <2>5. Complete(s) = IF k < n THEN t ELSE s
    BY <2>2, <2>3, OpenComplete
  <2>6. CASE k < n
    BY <2>4, <2>5, <2>6
  <2>7. CASE k = n
    <3>1. EndsOpen(s, t, step, n, k)
      BY <2>2, <2>3, OpenEnd DEF InExchange
    <3>2. /\ Len(t) \in Nat
          /\ GroupStarts(s) = GroupStarts(t) \union {Len(t) + 1}
          /\ s[Len(t) + 1].calls = StepCalls(step, n)
          /\ SubSeq(s, 1, Len(t)) = t
      BY <3>1 DEF EndsOpen
    <3>3. PICK i : i = Len(t) + 1
      OBVIOUS
    <3>4. \A j \in GroupStarts(s) : j <= i
      <4>1. GroupStarts(t) \subseteq 1..Len(t)
        BY DEF GroupStarts
      <4> QED
        BY <3>2, <3>3, <4>1
    <3>5. i \in GroupStarts(s) /\ s[i].calls # <<>>
      BY <2>3, <3>2, <3>3, StepCallsTypes
    <3>6. i - 1 = Len(t)
      BY <3>2, <3>3
    <3>7. Complete(s) = s
      BY <2>3, <2>5, <2>7
    <3> QED
      BY <2>4, <3>2, <3>4, <3>5, <3>6, <3>7 DEF Converses
  <2> QED
    BY <2>3, <2>6, <2>7
<1>5. CASE Condenses(s, id, t)
  <2>1. Paired(s) /\ Paired(t)
    BY <1>5, CondensedPaired DEF Condenses
  <2>2. Complete(s) = s /\ Complete(t) = t
    BY <2>1, PairedComplete
  <2> QED
    BY <1>5, <2>2 DEF Condenses, Converses
<1> QED
  BY <1>1, <1>2, <1>3, <1>4, <1>5

\* Every such step appends, takes back what is no user message, or puts a
\* summary in front of an unchanged tail.
LEMMA MovesGrow ==
    ASSUME NEW s \in Seq(Message), NEW t \in Seq(Message), NEW id \in Nat,
           \/ s = t
           \/ Says(s, t)
           \/ Opens(s, t)
           \/ AnswersCall(s, t)
           \/ TakesBack(s, t)
           \/ Condenses(s, id, t)
    PROVE  \/ IsPrefix(s, t)
           \/ /\ IsPrefix(t, s)
              /\ \A i \in Len(t) + 1 .. Len(s) : s[i].role # "user"
           \/ \E i \in 2..Len(s) :
                 t = <<UserMessage(id)>> \o SubSeq(s, i, Len(s))
<1>1. ASSUME NEW a \in Seq(Message), NEW b \in Seq(Message)
      PROVE  IsPrefix(a, a \o b)
  <2>1. PICK c : c = a \o b
    OBVIOUS
  <2>2. /\ Len(a) \in Nat /\ Len(b) \in Nat /\ Len(c) = Len(a) + Len(b)
        /\ SubSeq(c, 1, Len(a)) = a /\ SubSeq(a, 1, Len(a)) = a
    BY <2>1
  <2>3. Len(a) <= Len(c)
    BY <2>2
  <2> QED
    BY <2>1, <2>2, <2>3 DEF IsPrefix
<1>2. ASSUME NEW a \in Seq(Message), NEW m \in Message
      PROVE  IsPrefix(a, Append(a, m))
  <2>1. PICK one : one = <<m>>
    OBVIOUS
  <2>2. one \in Seq(Message) /\ Append(a, m) = a \o one
    BY <2>1
  <2> QED
    BY <1>1, <2>2
<1>3. CASE s = t
  <2>1. Len(s) \in Nat
    OBVIOUS
  <2> QED
    BY <1>3, <2>1 DEF IsPrefix
<1>4. CASE Says(s, t)
  <2>1. <<>> \in Seq(CallId)
    OBVIOUS
  <2>2. \A i \in Nat : UserMessage(i) \in Message
    BY <2>1, MessageTypes
  <2> QED
    BY <1>2, <1>4, <2>2 DEF Says
<1>5. CASE Opens(s, t)
  <2>1. PICK step \in Nat, n \in 0..MaxCalls : t = s \o Opened(step, n, 0)
    BY <1>5 DEF Opens
  <2>2. n \in Nat
    BY CallsBounded
  <2>3. Opened(step, n, 0) \in Seq(Message)
    BY <2>2, OpenedTypes
  <2> QED
    BY <1>1, <2>1, <2>3
<1>6. CASE AnswersCall(s, t)
  <2>1. PICK before \in Seq(Message), step \in Nat, n \in 1..MaxCalls :
           \E k \in 0..n - 1 :
              /\ InExchange(before, step, n, k, s)
              /\ t = before \o Opened(step, n, k + 1)
    BY <1>6 DEF AnswersCall
  <2>2. PICK k \in 0..n - 1 :
              /\ InExchange(before, step, n, k, s)
              /\ t = before \o Opened(step, n, k + 1)
    BY <2>1
  <2>3. n \in Nat /\ k \in Nat
    BY CallsBounded
  <2>4. EndsOpen(s, before, step, n, k)
    BY <2>2, <2>3, OpenEnd DEF InExchange
  <2>5. PICK m : m = ToolResult(<<step, k + 1>>)
    OBVIOUS
  <2>6. t = Append(s, m)
    BY <2>2, <2>4, <2>5 DEF EndsOpen
  <2>7. m \in Message
    BY <2>3, <2>5 DEF ToolResult, Message, CallId
  <2> QED
    BY <1>2, <2>6, <2>7
<1>7. CASE TakesBack(s, t)
  <2>1. PICK step \in Nat, n \in 1..MaxCalls :
           \E k \in 0..n : InExchange(t, step, n, k, s)
    BY <1>7 DEF TakesBack
  <2>2. PICK k \in 0..n : InExchange(t, step, n, k, s)
    BY <2>1
  <2>3. n \in Nat /\ k \in Nat
    BY CallsBounded
  <2>4. /\ Opened(step, n, k) \in Seq(Message)
        /\ Len(Opened(step, n, k)) = k + 1
        /\ Opened(step, n, k)[1] = AssistantMessage(step, StepCalls(step, n))
        /\ \A i \in 1..k : Opened(step, n, k)[1 + i] = ToolResult(<<step, i>>)
    BY <2>3, OpenedTypes
  <2>5. PICK x : x = Opened(step, n, k)
    OBVIOUS
  <2>6. \A i \in 1..Len(x) : x[i].role # "user"
    <3>1. SUFFICES ASSUME NEW i \in 1..k + 1 PROVE x[i].role # "user"
      BY <2>4, <2>5
    <3>2. CASE i = 1
      BY <2>4, <2>5, <3>2 DEF AssistantMessage
    <3>3. CASE i # 1
      <4>1. PICK j \in 1..k : i = 1 + j
        <5>1. i - 1 \in 1..k /\ i = 1 + (i - 1)
          BY <3>3
        <5> QED
          BY <5>1
      <4>2. x[i] = ToolResult(<<step, j>>)
        BY <2>4, <2>5, <4>1
      <4> QED
        BY <4>2 DEF ToolResult
    <3> QED
      BY <3>2, <3>3
  <2>7. /\ Len(t) \in Nat /\ Len(x) \in Nat /\ Len(s) = Len(t) + Len(x)
        /\ \A i \in 1..Len(x) : s[Len(t) + i] = x[i]
    BY <2>2, <2>4, <2>5, JoinedMessages DEF InExchange
  <2>8. ASSUME NEW i \in Len(t) + 1 .. Len(s) PROVE s[i].role # "user"
    <3>1. i - Len(t) \in 1..Len(x) /\ i = Len(t) + (i - Len(t))
      BY <2>7
    <3>2. PICK j \in 1..Len(x) : i = Len(t) + j
      BY <3>1
    <3> QED
      BY <2>6, <2>7, <3>2
  <2>9. IsPrefix(t, s)
    BY <1>1, <2>2, <2>4 DEF InExchange
  <2> QED
    BY <2>8, <2>9
<1>8. CASE Condenses(s, id, t)
  <2>1. PICK i \in GroupStarts(s) :
           i > 1 /\ t = <<UserMessage(id)>> \o SubSeq(s, i, Len(s))
    BY <1>8 DEF Condenses
  <2>2. i \in 2..Len(s)
    BY <2>1 DEF GroupStarts
  <2> QED
    BY <2>1, <2>2
<1> QED
  BY <1>3, <1>4, <1>5, <1>6, <1>7, <1>8

-------------------------------------------------------------------------------
(***************************************************************************)
(* The invariant.  What it says of an op holds while the op is where its   *)
(* turn or its compaction touches the history; elsewhere it says nothing.  *)
(***************************************************************************)
StepWalk == {"assemble", "reassemble", "contextStep", "provider", "backoff"}
BatchLabels == {"toolCalls", "tools", "results", "pairingResults"}
Elsewhere == Labels \ (StepWalk \union CompactLabels \union BatchLabels
                        \union {"assistantMessage", "diagnostics"})

\* A compaction works on the history as it is, and goes on only if there is
\* something to summarize.
CompactHistory(o) ==
    pc[o] \in CompactLabels =>
       /\ compaction[o].snapshot = messages
       /\ pc[o] \in {"summarize", "compactEnded"} =>
             TailStart(messages, RecentTail) > 1

\* Nothing answers a call of a step that has not been pushed yet.
StepHistory(o) ==
    o \in UserOps /\ pc[o] \in StepWalk \union CompactLabels \union {"assistantMessage"}
       => NewTo(messages, turn[o].step)

AnswerHistory(o) ==
    pc[o] = "assistantMessage" =>
       /\ turn[o].start = Len(messages)
       /\ \E n \in 0..MaxCalls : turn[o].calls = StepCalls(turn[o].step, n)

\* The step's exchange of n calls, k of them answered, is the end of the
\* history and begins behind stepMessageStart.
Open(o, n, k) ==
    /\ turn[o].calls = StepCalls(turn[o].step, n)
    /\ \E before \in Seq(Message) :
          /\ Len(before) = turn[o].start
          /\ InExchange(before, turn[o].step, n, k, messages)

ResultsFrom(step, n, k) == [i \in 1..n - k |-> ToolResult(<<step, k + i>>)]

BatchHistory(o) ==
    /\ pc[o] \in BatchLabels =>
          \E n \in 1..MaxCalls : \E k \in 0..n - 1 :
             /\ Open(o, n, k)
             /\ pc[o] \in {"toolCalls", "tools"} => k = 0
             /\ pc[o] \in {"results", "pairingResults"} =>
                   turn[o].out = ResultsFrom(turn[o].step, n, k)
    /\ pc[o] = "diagnostics" => \E n \in 1..MaxCalls : Open(o, n, n)

OpHistory(o) ==
    CompactHistory(o) /\ StepHistory(o) /\ AnswerHistory(o) /\ BatchHistory(o)

StepsBelow(s, id) == \A c \in ResultCalls(s) : c[1] <= id

HistoryInv ==
    /\ ExclusionInv
    /\ StepsBelow(messages, nextId)
    /\ \A o \in Ops : turn[o].step <= nextId
    /\ HistoryPaired
    /\ \A o \in Ops : OpHistory(o)

\* No other op runs, and none moves.
Alone(o) == \A q \in Ops \ {o} :
               pc[q] \notin Running /\ pc'[q] = pc[q] /\ turn'[q] = turn[q]

LEMMA Labelled ==
    /\ StepWalk \union CompactLabels \union BatchLabels
          \union {"assistantMessage", "diagnostics"} \subseteq Running
    /\ Elsewhere \intersect (StepWalk \union CompactLabels \union BatchLabels
          \union {"assistantMessage", "diagnostics"}) = {}
    /\ {"new", "command", "promptHook", "turnStarted", "userMessage", "stepStarted",
        "errorEvent", "stepEnded", "turnEnded", "stopHook", "commandOutput",
        "done", "rejected"} \subseteq Elsewhere
    /\ StepWalk \intersect BatchLabels = {}
    /\ CompactLabels \intersect BatchLabels = {}
    /\ CompactLabels \intersect StepWalk = {}
    /\ \A o : MidBatch(o) <=> pc[o] \in BatchLabels
    /\ "assistantMessage" \notin CompactLabels \union BatchLabels \union StepWalk
    /\ "diagnostics" \notin CompactLabels \union BatchLabels \union StepWalk
<1> USE DEF StepWalk, BatchLabels, Elsewhere, CompactLabels, TurnLabels, Running,
            Labels, Finished
<1>1. \A o : MidBatch(o) <=> pc[o] \in BatchLabels
  BY DEF MidBatch
<1> QED
  BY <1>1

\* The invariant says nothing of an op that does not run.
LEMMA RestingHistory ==
    ASSUME NEW o, pc[o] \in Elsewhere \/ pc[o] \notin Running
    PROVE  OpHistory(o)
  BY Labelled DEF OpHistory, CompactHistory, StepHistory, AnswerHistory, BatchHistory

LEMMA BelowStays ==
    ASSUME NEW s \in Seq(Message), NEW t, NEW a \in Nat, NEW b \in Nat, a <= b,
           StepsBelow(s, a), ResultCalls(t) \subseteq ResultCalls(s)
    PROVE  StepsBelow(t, b)
<1> SUFFICES ASSUME NEW c \in ResultCalls(s) PROVE c[1] <= b
  BY DEF StepsBelow
<1>1. PICK j \in DOMAIN s : c = s[j].call
  BY DEF ResultCalls, ResultIndices
<1>2. s[j] \in Message
  OBVIOUS
<1>3. c \in CallId
  BY <1>1, <1>2 DEF Message
<1>4. c[1] \in Nat /\ c[1] <= a
  BY <1>3 DEF StepsBelow, CallId
<1> QED
  BY <1>4

\* When nobody else is in a batch, the history is paired or o is.
LEMMA PairedNow ==
    ASSUME HistoryInv, NEW o \in Ops, \A q \in Ops \ {o} : pc[q] \notin Running
    PROVE  pc[o] \in BatchLabels \/ Paired(messages)
  BY Labelled DEF HistoryInv, HistoryPaired

\* What has to be shown of a step of o alone.
LEMMA HistoryKept ==
    ASSUME HistoryInv, NEW o \in Ops, ExclusionInv', Alone(o),
           nextId <= nextId', turn'[o].step <= nextId',
           StepsBelow(messages', nextId'),
           pc'[o] \in BatchLabels \/ Paired(messages'),
           OpHistory(o)'
    PROVE  HistoryInv'
<1>1. \A q \in Ops \ {o} : pc'[q] \notin Running /\ pc'[q] \notin BatchLabels
  BY Labelled DEF Alone
<1>2. \A q \in Ops \ {o} : OpHistory(q)'
  BY <1>1, Labelled
     DEF OpHistory, CompactHistory, StepHistory, AnswerHistory, BatchHistory
<1>3. \A q \in Ops : turn'[q].step <= nextId'
  <2> SUFFICES ASSUME NEW q \in Ops \ {o} PROVE turn'[q].step <= nextId'
    OBVIOUS
  <2>1. /\ turn[q].step \in Nat /\ nextId \in Nat /\ nextId' \in Nat
        /\ turn[q].step <= nextId
    BY DEF HistoryInv, ExclusionInv, Inv, TypeOK, ControlOK, DataOK, Turn
  <2>2. turn'[q].step = turn[q].step
    BY DEF Alone
  <2> QED
    BY <2>1, <2>2
<1>4. HistoryPaired'
  <2>1. MidBatch(o)' \/ Paired(messages')
    BY DEF MidBatch, BatchLabels
  <2> QED
    BY <2>1 DEF HistoryPaired
<1>5. \A q \in Ops : OpHistory(q)'
  BY <1>2
<1> QED
  BY <1>3, <1>4, <1>5 DEF HistoryInv

-------------------------------------------------------------------------------
(***************************************************************************)
(* Steps that leave the history as it is                                   *)
(***************************************************************************)
OthersRest(o) == \A q \in Ops \ {o} : pc[q] \notin Running

LEMMA RunsAlone ==
    ASSUME HistoryInv, NEW o \in Ops, pc[o] \in Running \/ activeTurn = None
    PROVE  OthersRest(o)
<1>1. None \notin Ops
  BY OpsAssumption
<1> QED
  BY <1>1 DEF HistoryInv, ExclusionInv, RunnerIsActive, OthersRest

\* The op goes on with its step, or to where the history does not matter.
KeepsStep(o) ==
    /\ \A q \in Ops \ {o} : pc'[q] = pc[q] /\ turn'[q] = turn[q]
    /\ pc'[o] \in Elsewhere \union StepWalk
    /\ turn'[o].step = turn[o].step \/ (turn'[o].step = 0 /\ pc'[o] \in Elsewhere)

LEMMA MovingOnKeepsStep ==
    ASSUME ControlOK, NEW o \in Ops,
           \/ \E l \in Elsewhere \union StepWalk : Goto(o, l)
           \/ \E l \in Elsewhere \union StepWalk, t \in Turn :
                 GotoWith(o, l, t) /\ t.step = turn[o].step
           \/ Finish(o)
           \/ \E r : EndStep(o, r) \/ EndTurn(o, r)
           \/ StepThrows(o)
           \/ CompactionThrows(o)
    PROVE  KeepsStep(o)
<1>1. ASSUME NEW l \in Elsewhere \union StepWalk, Goto(o, l) PROVE KeepsStep(o)
  BY <1>1 DEF Goto, KeepsStep, ControlOK
<1>2. ASSUME NEW l \in Elsewhere \union StepWalk, NEW t, GotoWith(o, l, t),
             t.step = turn[o].step
      PROVE  KeepsStep(o)
  BY <1>2 DEF GotoWith, KeepsStep, ControlOK
<1>3. {"done", "stepEnded", "turnEnded", "errorEvent"} \subseteq Elsewhere
  BY Labelled
<1>4. ASSUME Finish(o) PROVE KeepsStep(o)
  BY <1>3, <1>4 DEF Finish, KeepsStep, ControlOK, NoTurn
<1>5. ASSUME NEW r, EndStep(o, r) PROVE KeepsStep(o)
  BY <1>2, <1>3, <1>5 DEF EndStep, NoTurn
<1>6. ASSUME NEW r, EndTurn(o, r) PROVE KeepsStep(o)
  <2>1. [turn[o] EXCEPT !.reason = r].step = turn[o].step
    BY DEF ControlOK, Turn
  <2> QED
    BY <1>2, <1>3, <1>6, <2>1 DEF EndTurn
<1>7. ASSUME StepThrows(o) PROVE KeepsStep(o)
  BY <1>1, <1>3, <1>5, <1>7 DEF StepThrows
<1> QED
  BY <1>1, <1>2, <1>4, <1>5, <1>6, <1>7 DEF CompactionThrows

\* A step of o that keeps the calls answered and the pairing, and after which
\* the invariant has at most the step of o to speak of.
LEMMA StepKept ==
    ASSUME HistoryInv, NEW o \in Ops, ExclusionInv', OthersRest(o), KeepsStep(o),
           nextId <= nextId', Paired(messages'),
           ResultCalls(messages') \subseteq ResultCalls(messages),
           pc'[o] \in StepWalk => pc[o] \in StepWalk \union CompactLabels
    PROVE  HistoryInv'
<1>1. Alone(o)
  BY DEF Alone, OthersRest, KeepsStep
<1>2. /\ nextId \in Nat /\ nextId' \in Nat
      /\ turn[o].step \in Nat /\ turn[o].step <= nextId
      /\ messages' \in Seq(Message)
  BY DEF HistoryInv, ExclusionInv, Inv, TypeOK, ControlOK, DataOK, Turn
<1>3. turn'[o].step <= nextId'
  BY <1>2 DEF KeepsStep
<1>4. StepsBelow(messages', nextId')
  BY <1>2, BelowStays DEF HistoryInv, ExclusionInv, Inv, TypeOK, DataOK
<1>5. OpHistory(o)'
  <2>1. CASE pc'[o] \in Elsewhere
    BY <2>1, Labelled
       DEF OpHistory, CompactHistory, StepHistory, AnswerHistory, BatchHistory
  <2>2. CASE pc'[o] \in StepWalk
    <3>1. turn'[o].step = turn[o].step
      BY <2>2, Labelled DEF KeepsStep
    <3>2. o \in UserOps => NewTo(messages', turn[o].step)
      BY <2>2 DEF HistoryInv, OpHistory, StepHistory, NewTo
    <3>3. StepHistory(o)'
      BY <3>1, <3>2 DEF StepHistory
    <3> QED
      BY <2>2, <3>3, Labelled
         DEF OpHistory, CompactHistory, AnswerHistory, BatchHistory
  <2> QED
    BY <2>1, <2>2 DEF KeepsStep
<1> QED
  BY <1>1, <1>3, <1>4, <1>5, HistoryKept

LEMMA HistoryStays ==
    ASSUME HistoryInv, NEW o \in Ops, ExclusionInv', OthersRest(o), KeepsStep(o),
           messages' = messages, nextId' \in {nextId, nextId + 1},
           pc[o] \notin BatchLabels,
           pc'[o] \in StepWalk => pc[o] \in StepWalk \union CompactLabels
    PROVE  HistoryInv'
<1>1. Paired(messages)
  BY PairedNow DEF OthersRest
<1>2. nextId <= nextId'
  BY DEF HistoryInv, ExclusionInv, Inv, TypeOK, DataOK
<1> QED
  BY <1>1, <1>2, StepKept

\* A compaction starts with the history as it is.
LEMMA CompactionStarts ==
    ASSUME HistoryInv, NEW o \in Ops, ExclusionInv', OthersRest(o),
           NEW t, NEW b, StartCompaction(o, t, b),
           messages' = messages, turn'[o].step = turn[o].step,
           \A q \in Ops \ {o} : turn'[q] = turn[q],
           o \in UserOps => pc[o] \in StepWalk, pc[o] \notin BatchLabels
    PROVE  HistoryInv'
<1>1. /\ nextId \in Nat /\ nextId' = nextId + 1 /\ turn[o].step \in Nat
      /\ turn[o].step <= nextId
      /\ pc'[o] = "compactStarted" /\ \A q \in Ops \ {o} : pc'[q] = pc[q]
      /\ compaction'[o].snapshot = messages
  BY DEF StartCompaction, HistoryInv, ExclusionInv, Inv, TypeOK, ControlOK,
         DataOK, Turn
<1>2. Alone(o)
  BY <1>1 DEF Alone, OthersRest
<1>3. nextId <= nextId' /\ turn'[o].step <= nextId'
  BY <1>1
<1>4. StepsBelow(messages', nextId')
  BY <1>1, <1>3, BelowStays DEF HistoryInv, ExclusionInv, Inv, TypeOK, DataOK
<1>5. Paired(messages')
  BY PairedNow DEF OthersRest
<1>6. OpHistory(o)'
  <2>1. "compactStarted" \in CompactLabels
    BY DEF CompactLabels
  <2>2. CompactHistory(o)'
    BY <1>1 DEF CompactHistory
  <2>3. StepHistory(o)'
    BY DEF StepHistory, HistoryInv, OpHistory
  <2> QED
    BY <1>1, <2>1, <2>2, <2>3, Labelled DEF OpHistory, AnswerHistory, BatchHistory
<1> QED
  BY <1>2, <1>3, <1>4, <1>5, <1>6, HistoryKept

LEMMA SubmitHistory ==
    ASSUME SlashOps = {}, HistoryInv, NEW o \in Ops, ExclusionInv',
           Submit(o) \/ CommandInvoked(o) \/ CommandOutput(o)
    PROVE  HistoryInv' /\ messages' = messages
<1>1. /\ ControlOK /\ DataOK /\ turn[o] \in Turn
      /\ \A q \in Ops : pc[q] = "command" => q \in SlashOps
  BY DEF HistoryInv, ExclusionInv, OnlySlashCommands, Inv, TypeOK, ControlOK
<1>2. CASE Reject(o)
  <2>1. /\ pc[o] = "new" /\ pc'[o] = "rejected"
        /\ \A q \in Ops \ {o} : pc'[q] = pc[q]
        /\ UNCHANGED <<messages, turn, compaction, nextId>>
    BY <1>1, <1>2 DEF Reject, Goto, history, ControlOK
  <2>2. pc[o] \in Elsewhere /\ pc'[o] \in Elsewhere
    BY <2>1, Labelled
  <2>3. ASSUME NEW q \in Ops PROVE OpHistory(q)'
    <3>1. CASE q = o
      BY <2>2, <3>1, Labelled
         DEF OpHistory, CompactHistory, StepHistory, AnswerHistory, BatchHistory
    <3>2. CASE q # o
      BY <2>1, <3>2
         DEF HistoryInv, OpHistory, CompactHistory, StepHistory, AnswerHistory,
             BatchHistory, Open
    <3> QED
      BY <3>1, <3>2
  <2>4. HistoryPaired'
    <3>1. \A q \in Ops : (pc'[q] \in BatchLabels) <=> (pc[q] \in BatchLabels)
      BY <2>1, <2>2, Labelled
    <3>2. \A q \in Ops : MidBatch(q)' <=> MidBatch(q)
      BY <3>1 DEF MidBatch, BatchLabels
    <3> QED
      BY <2>1, <3>2 DEF HistoryInv, HistoryPaired
  <2> QED
    BY <2>1, <2>3, <2>4 DEF HistoryInv
<1>3. CASE SubmitUser(o)
  <2>1. /\ pc'[o] = "promptHook" /\ turn'[o].step = turn[o].step
        /\ \A q \in Ops \ {o} : pc'[q] = pc[q] /\ turn'[q] = turn[q]
        /\ messages' = messages /\ nextId' = nextId + 1
        /\ pc[o] = "new" /\ activeTurn = None
    BY <1>1, <1>3 DEF SubmitUser, history, ControlOK, Turn
  <2>2. KeepsStep(o) /\ pc[o] \notin BatchLabels /\ pc'[o] \notin StepWalk
    BY <2>1, Labelled DEF KeepsStep
  <2> QED
    BY <2>1, <2>2, RunsAlone, HistoryStays
<1>4. CASE SubmitCompact(o)
  <2>1. o \notin UserOps /\ pc[o] \notin BatchLabels
    BY <1>4, OpsAssumption, Labelled DEF SubmitCompact
  <2> QED
    BY <1>4, <2>1, RunsAlone, CompactionStarts DEF SubmitCompact, history
<1>5. CASE CommandOutput(o)
  <2>1. KeepsStep(o) /\ pc[o] \in Running /\ pc[o] \notin BatchLabels
    BY <1>1, <1>5, MovingOnKeepsStep DEF CommandOutput, Running, BatchLabels
  <2>2. pc'[o] \notin StepWalk
    BY <1>1, <1>5 DEF CommandOutput, Finish, ControlOK, StepWalk
  <2> QED
    BY <1>5, <2>1, <2>2, RunsAlone, HistoryStays DEF CommandOutput, history
<1>6. ~SubmitSlash(o) /\ ~CommandInvoked(o)
  BY <1>1 DEF SubmitSlash, CommandInvoked
<1> QED
  BY <1>2, <1>3, <1>4, <1>5, <1>6 DEF Submit

-------------------------------------------------------------------------------
(***************************************************************************)
(* Compactions and provider steps                                          *)
(***************************************************************************)
\* The history stays, or changes by one of the moves.
HistoryMoves(o) ==
    \/ messages = messages'
    \/ Says(messages, messages')
    \/ Opens(messages, messages')
    \/ AnswersCall(messages, messages')
    \/ TakesBack(messages, messages')
    \/ Condenses(messages, compaction[o].id, messages')

LEMMA SessionFacts ==
    ASSUME HistoryInv, NEW o \in Ops
    PROVE  /\ ControlOK /\ DataOK /\ LocalsSet(o)
           /\ turn[o] \in Turn /\ turn[o].step \in Nat /\ turn[o].step <= nextId
           /\ compaction[o] \in Compaction /\ compaction[o].id \in Nat
           /\ compaction[o].trigger \in Triggers
           /\ messages \in Seq(Message)
           /\ nextId \in Nat
           /\ StepsBelow(messages, nextId)
           /\ OpHistory(o)
  BY DEF HistoryInv, ExclusionInv, Inv, TypeOK, ControlOK, DataOK, Turn, Compaction

LEMMA CompactionGoesOn ==
    ASSUME HistoryInv, NEW o \in Ops, ExclusionInv',
           NEW l \in CompactLabels, pc[o] \in CompactLabels, Goto(o, l),
           UNCHANGED <<messages, compaction, nextId>>,
           l \in {"summarize", "compactEnded"} => TailStart(messages, RecentTail) > 1
    PROVE  HistoryInv'
<1>1. /\ ControlOK /\ messages \in Seq(Message) /\ nextId \in Nat
      /\ turn[o].step <= nextId /\ StepsBelow(messages, nextId)
  BY SessionFacts
<1>2. OthersRest(o)
  BY Labelled, RunsAlone
<1>3. /\ pc'[o] = l /\ turn' = turn /\ Alone(o)
      /\ nextId <= nextId' /\ turn'[o].step <= nextId'
  BY <1>1, <1>2 DEF Goto, Alone, OthersRest, ControlOK
<1>4. Paired(messages')
  BY <1>2, PairedNow, Labelled DEF OthersRest
<1>5. OpHistory(o)'
  <2>1. CompactHistory(o)'
    BY <1>3 DEF HistoryInv, OpHistory, CompactHistory
  <2>2. StepHistory(o)'
    BY <1>3 DEF HistoryInv, OpHistory, StepHistory
  <2> QED
    BY <1>3, <2>1, <2>2, Labelled DEF OpHistory, AnswerHistory, BatchHistory
<1>6. StepsBelow(messages', nextId')
  BY <1>1 DEF StepsBelow
<1> QED
  BY <1>3, <1>4, <1>5, <1>6, HistoryKept

\* A compaction is over: its caller goes on.
LEMMA CompactionReturns ==
    ASSUME ControlOK, NEW o \in Ops, compaction[o].trigger \in Triggers,
           CompactReturnsSucceeded(o) \/ CompactReturnsFailed(o)
    PROVE  KeepsStep(o)
<1>1. {"reassemble", "contextStep", "assemble", "commandOutput"}
        \subseteq Elsewhere \union StepWalk
  BY Labelled DEF StepWalk
<1>2. CASE GotoWith(o, "assemble", [turn[o] EXCEPT !.attempt = @ + 1])
  BY <1>1, <1>2 DEF GotoWith, KeepsStep, ControlOK, Turn
<1>3. CASE compaction[o].trigger \in {"manual", "auto"}
  BY <1>1, <1>3, MovingOnKeepsStep
     DEF CompactReturnsSucceeded, CompactReturnsFailed, ManualCompactReturns
<1>4. CASE compaction[o].trigger = "overflow_retry"
  BY <1>1, <1>2, <1>4, MovingOnKeepsStep
     DEF CompactReturnsSucceeded, CompactReturnsFailed
<1> QED
  BY <1>3, <1>4 DEF Triggers

LEMMA CompactKeepsHistory ==
    ASSUME HistoryInv, NEW o \in Ops, ExclusionInv', Compact(o)
    PROVE  HistoryInv' /\ HistoryMoves(o)
<1>1. /\ ControlOK /\ messages \in Seq(Message)
      /\ compaction[o].trigger \in Triggers /\ compaction[o].id \in Nat
      /\ nextId \in Nat
  BY SessionFacts
<1>2. pc[o] \in CompactLabels /\ pc[o] \notin BatchLabels /\ OthersRest(o)
      /\ {"compactStarted", "summarize", "compactEnded", "compactFailed"} = CompactLabels
  <2>1. pc[o] \in CompactLabels
    BY DEF Compact, CompactStarted, Summarize, CompactEnded, CompactFailed, CompactLabels
  <2> QED
    BY <2>1, Labelled, RunsAlone DEF CompactLabels
<1>3. compaction[o].snapshot = messages
  BY <1>2 DEF HistoryInv, OpHistory, CompactHistory
<1>4. Paired(messages)
  BY <1>2, PairedNow DEF OthersRest
<1>5. ASSUME KeepsStep(o), messages' = messages, nextId' = nextId
      PROVE  HistoryInv' /\ HistoryMoves(o)
  BY <1>2, <1>5, HistoryStays DEF HistoryMoves
<1>6. CASE CompactStarted(o)
  <2>1. CASE CompactionThrows(o)
    BY <1>1, <1>5, <1>6, <2>1, MovingOnKeepsStep DEF CompactStarted, history
  <2>2. CASE Goto(o, "compactFailed") /\ UNCHANGED compaction
    BY <1>2, <1>6, <2>2, CompactionGoesOn DEF CompactStarted, history, HistoryMoves
  <2>3. CASE /\ Goto(o, "summarize") /\ UNCHANGED compaction
             /\ messages # <<>>
             /\ Summarized(messages, RecentTail) # <<>>
    <3>1. PICK i : i = TailStart(messages, RecentTail)
      OBVIOUS
    <3>2. i \in 1..Len(messages)
      BY <1>1, <2>3, <3>1, TailStartInDomain, BoundsAssumption
    <3>3. i # 1
      <4>1. SubSeq(messages, 1, 0) = <<>>
        BY <1>1
      <4> QED
        BY <2>3, <3>1, <4>1 DEF Summarized
    <3>4. i > 1
      BY <3>2, <3>3
    <3> QED
      BY <1>2, <1>6, <2>3, <3>1, <3>4, CompactionGoesOn
         DEF CompactStarted, history, HistoryMoves
  <2> QED
    BY <1>3, <1>6, <2>1, <2>2, <2>3 DEF CompactStarted
<1>7. CASE Summarize(o)
  <2>1. TailStart(messages, RecentTail) > 1
    BY <1>7 DEF Summarize, HistoryInv, OpHistory, CompactHistory, CompactLabels
  <2> QED
    BY <1>2, <1>7, <2>1, CompactionGoesOn DEF Summarize, history, HistoryMoves
<1>8. CASE CompactEnded(o)
  <2>1. CASE CompactionThrows(o) /\ UNCHANGED history
    BY <1>1, <1>5, <1>8, <2>1, MovingOnKeepsStep DEF CompactEnded, history
  <2>2. CASE /\ CompactReturnsSucceeded(o)
             /\ messages' = <<UserMessage(compaction[o].id)>>
                              \o KeptTail(compaction[o].snapshot, RecentTail)
    <3>1. PICK i : i = TailStart(messages, RecentTail)
      OBVIOUS
    <3>2. i > 1
      BY <1>8, <3>1 DEF CompactEnded, HistoryInv, OpHistory, CompactHistory, CompactLabels
    <3>3. messages # <<>>
      <4>1. SUFFICES ASSUME messages = <<>> PROVE FALSE
        OBVIOUS
      <4>2. i = 1
        <5>1. DOMAIN messages = {} /\ GroupStarts(messages) = {}
          BY <4>1 DEF GroupStarts
        <5> QED
          BY <3>1, <5>1 DEF TailStart
      <4> QED
        BY <3>2, <4>2
    <3>4. i \in GroupStarts(messages)
      BY <1>1, <1>4, <3>1, <3>3, TailStartIsGroup, BoundsAssumption
    <3>5. Condenses(messages, compaction[o].id, messages')
      BY <1>3, <1>4, <2>2, <3>1, <3>2, <3>4 DEF Condenses, KeptTail
    <3>6. PICK t : t = messages'
      OBVIOUS
    <3>7. Paired(t) /\ ResultCalls(t) \subseteq ResultCalls(messages)
      BY <1>1, <3>5, <3>6, CondensedPaired
    <3>8. KeepsStep(o)
      BY <1>1, <2>2, CompactionReturns
    <3>9. HistoryInv'
      BY <1>1, <1>2, <1>8, <3>6, <3>7, <3>8, StepKept DEF CompactEnded
    <3> QED
      BY <3>5, <3>9 DEF HistoryMoves
  <2> QED
    BY <1>8, <2>1, <2>2 DEF CompactEnded
<1>9. CASE CompactFailed(o)
  <2>1. KeepsStep(o)
    BY <1>1, <1>9, CompactionReturns, MovingOnKeepsStep DEF CompactFailed
  <2> QED
    BY <1>5, <1>9, <2>1 DEF CompactFailed
<1> QED
  BY <1>6, <1>7, <1>8, <1>9 DEF Compact

LEMMA ProviderStepKeepsPairing ==
    ASSUME HistoryInv, NEW o \in UserOps, ExclusionInv', ProviderStep(o)
    PROVE  HistoryInv' /\ messages' = messages
<1>1. /\ o \in Ops /\ ControlOK /\ messages \in Seq(Message) /\ turn[o] \in Turn
      /\ nextId \in Nat /\ turn[o].step \in Nat /\ turn[o].step <= nextId
      /\ StepsBelow(messages, nextId)
  <2>1. o \in Ops
    BY DEF Ops
  <2> QED
    BY <2>1, SessionFacts
<1>2. /\ pc[o] \in StepWalk /\ pc[o] \notin BatchLabels /\ OthersRest(o)
      /\ messages' = messages
  <2>1. pc[o] \in StepWalk /\ messages' = messages
    BY DEF ProviderStep, AutoCompact, Assembled, AssembleThrows, ContextStep,
           ProviderAborts, ProviderAnswers, ProviderFails, ProviderRetries,
           BackoffEnds, ProviderOverflows, StepWalk, history
  <2> QED
    BY <1>1, <2>1, Labelled, RunsAlone
<1>3. ASSUME KeepsStep(o), nextId' = nextId PROVE HistoryInv'
  BY <1>1, <1>2, <1>3, HistoryStays
<1>4. {"contextStep", "provider", "backoff", "assemble"}
        \subseteq Elsewhere \union StepWalk
  BY DEF StepWalk
<1>5. CASE AutoCompact(o)
  BY <1>1, <1>2, <1>5, CompactionStarts DEF AutoCompact
<1>6. CASE ProviderOverflows(o)
  <2>1. turn'[o].step = turn[o].step /\ \A q \in Ops \ {o} : turn'[q] = turn[q]
    BY <1>1, <1>6 DEF ProviderOverflows, ControlOK, Turn
  <2> QED
    BY <1>1, <1>2, <1>6, <2>1, CompactionStarts DEF ProviderOverflows
<1>7. CASE Assembled(o) \/ AssembleThrows(o) \/ ContextStep(o)
  <2>1. KeepsStep(o)
    BY <1>1, <1>4, <1>7, MovingOnKeepsStep
       DEF Assembled, AssembleThrows, ContextStep
  <2> QED
    BY <1>2, <1>3, <1>7, <2>1 DEF Assembled, AssembleThrows, ContextStep
<1>8. CASE ProviderAborts(o) \/ ProviderFails(o) \/ ProviderRetries(o)
  <2>1. KeepsStep(o)
    BY <1>1, <1>4, <1>8, MovingOnKeepsStep
       DEF ProviderAborts, ProviderFails, ProviderRetries
  <2> QED
    BY <1>2, <1>3, <1>8, <2>1 DEF ProviderAborts, ProviderFails, ProviderRetries
<1>9. CASE BackoffEnds(o)
  <2>1. KeepsStep(o)
    BY <1>1, <1>4, <1>9 DEF BackoffEnds, GotoWith, KeepsStep, ControlOK, Turn
  <2> QED
    BY <1>2, <1>3, <1>9, <2>1 DEF BackoffEnds
<1>10. CASE ProviderAnswers(o)
  <2>1. PICK n \in 0..MaxCalls :
          GotoWith(o, "assistantMessage",
                   [turn[o] EXCEPT !.calls = [i \in 1..n |-> <<turn[o].step, i>>],
                                   !.start = Len(messages)])
    BY <1>10 DEF ProviderAnswers
  <2>2. /\ pc'[o] = "assistantMessage"
        /\ turn'[o].calls = StepCalls(turn[o].step, n)
        /\ turn'[o].start = Len(messages)
        /\ turn'[o].step = turn[o].step
        /\ \A q \in Ops \ {o} : pc'[q] = pc[q] /\ turn'[q] = turn[q]
    BY <1>1, <2>1 DEF GotoWith, ControlOK, Turn, StepCalls
  <2>3. Alone(o)
    BY <1>2, <2>2 DEF Alone, OthersRest
  <2>4. /\ nextId <= nextId' /\ turn'[o].step <= nextId'
        /\ StepsBelow(messages', nextId')
    BY <1>1, <1>2, <1>10, <2>2 DEF ProviderAnswers
  <2>5. Paired(messages')
    BY <1>1, <1>2, PairedNow DEF OthersRest
  <2>6. NewTo(messages, turn[o].step)
    BY <1>1, <1>2 DEF HistoryInv, OpHistory, StepHistory
  <2>7. AnswerHistory(o)'
    BY <1>2, <2>2 DEF AnswerHistory
  <2>8. StepHistory(o)'
    BY <1>2, <2>2, <2>6 DEF StepHistory, NewTo
  <2>9. OpHistory(o)'
    BY <2>2, <2>7, <2>8, Labelled DEF OpHistory, CompactHistory, BatchHistory
  <2> QED
    BY <1>1, <1>2, <2>3, <2>4, <2>5, <2>9, HistoryKept
<1>11. HistoryInv'
  BY <1>5, <1>6, <1>7, <1>8, <1>9, <1>10 DEF ProviderStep
<1> QED
  BY <1>2, <1>11

-------------------------------------------------------------------------------
(***************************************************************************)
(* The tool batch                                                          *)
(***************************************************************************)
\* What an open exchange says of the history before it.
LEMMA OpenFacts ==
    ASSUME HistoryInv, NEW o \in Ops, NEW n \in Nat, NEW k \in Nat, Open(o, n, k)
    PROVE  /\ BeforeStep(o) \in Seq(Message)
           /\ Len(BeforeStep(o)) = turn[o].start
           /\ InExchange(BeforeStep(o), turn[o].step, n, k, messages)
           /\ turn[o].calls = StepCalls(turn[o].step, n)
           /\ EndsOpen(messages, BeforeStep(o), turn[o].step, n, k)
           /\ Paired(BeforeStep(o))
           /\ ResultCalls(BeforeStep(o)) \subseteq ResultCalls(messages)
<1>1. PICK before \in Seq(Message) :
         /\ Len(before) = turn[o].start
         /\ InExchange(before, turn[o].step, n, k, messages)
  BY DEF Open
<1>2. turn[o].step \in Nat
  BY SessionFacts
<1>3. EndsOpen(messages, before, turn[o].step, n, k)
  BY <1>1, <1>2, OpenEnd DEF InExchange
<1>4. /\ SubSeq(messages, 1, Len(before)) = before
      /\ Len(before) \in Nat
      /\ Len(messages) = Len(before) + k + 1
      /\ ResultCalls(before) \subseteq ResultCalls(messages)
  BY <1>3 DEF EndsOpen
<1>5. turn[o].start < Len(messages)
  BY <1>1, <1>4
<1>6. BeforeStep(o) = before
  BY <1>1, <1>4, <1>5 DEF BeforeStep
<1> QED
  BY <1>1, <1>3, <1>4, <1>6 DEF InExchange, Open

\* A batch that cannot be written is taken back whole.
LEMMA BatchTakenBack ==
    ASSUME HistoryInv, NEW o \in Ops, ExclusionInv', pc[o] \in Running,
           NEW n \in 1..MaxCalls, NEW k \in 0..n, Open(o, n, k),
           RollBackStep(o), Finish(o), nextId' = nextId
    PROVE  HistoryInv' /\ HistoryMoves(o)
<1>1. n \in Nat /\ k \in Nat
  BY CallsBounded
<1>2. /\ ControlOK /\ turn[o].step \in Nat /\ nextId \in Nat
  BY SessionFacts
<1>3. PICK before : before = BeforeStep(o)
  OBVIOUS
<1>4. /\ before \in Seq(Message) /\ Paired(before)
      /\ InExchange(before, turn[o].step, n, k, messages)
      /\ ResultCalls(before) \subseteq ResultCalls(messages)
      /\ messages' = before
  BY <1>1, <1>3, OpenFacts DEF RollBackStep
<1>5. TakesBack(messages, messages')
  BY <1>2, <1>4 DEF TakesBack
<1>6. KeepsStep(o) /\ pc'[o] \notin StepWalk
  <2>1. pc'[o] = "done"
    BY <1>2 DEF Finish, ControlOK
  <2> QED
    BY <1>2, <2>1, MovingOnKeepsStep DEF StepWalk
<1>7. HistoryInv'
  BY <1>2, <1>4, <1>6, RunsAlone, StepKept
<1> QED
  BY <1>5, <1>7 DEF HistoryMoves

\* The batch goes on: the exchange of n calls has now l results.
LEMMA BatchGoesOn ==
    ASSUME HistoryInv, NEW o \in Ops, ExclusionInv', pc[o] \in Running,
           NEW n \in 1..MaxCalls, NEW l \in 0..n,
           NEW before \in Seq(Message), Len(before) = turn'[o].start,
           InExchange(before, turn[o].step, n, l, messages'),
           \A c \in ResultCalls(messages') :
              c \in ResultCalls(messages) \/ c[1] = turn[o].step,
           \A q \in Ops \ {o} : pc'[q] = pc[q] /\ turn'[q] = turn[q],
           turn'[o].step = turn[o].step,
           turn'[o].calls = StepCalls(turn[o].step, n),
           nextId' = nextId,
           pc'[o] \in {"toolCalls", "tools"} => l = 0,
           pc'[o] \in {"results", "pairingResults"} =>
              turn'[o].out = ResultsFrom(turn[o].step, n, l),
           \/ pc'[o] \in BatchLabels /\ l < n
           \/ pc'[o] \in {"diagnostics", "errorEvent"} /\ l = n
    PROVE  HistoryInv'
<1>1. /\ turn[o].step \in Nat /\ turn[o].step <= nextId /\ nextId \in Nat
      /\ StepsBelow(messages, nextId)
  BY SessionFacts
<1>2. Alone(o)
  BY RunsAlone DEF Alone, OthersRest
<1>3. nextId <= nextId' /\ turn'[o].step <= nextId' /\ StepsBelow(messages', nextId')
  BY <1>1 DEF StepsBelow
<1>4. Open(o, n, l)'
  BY DEF Open
<1>5. n \in Nat /\ l \in Nat
  BY CallsBounded
<1>6. pc'[o] \in BatchLabels \/ Paired(messages')
  <2>1. SUFFICES ASSUME l = n PROVE Paired(messages')
    OBVIOUS
  <2> QED
    BY <1>1, <1>5, <2>1, ClosedEnd DEF InExchange
<1>7. OpHistory(o)'
  <2>1. CASE pc'[o] \in BatchLabels /\ l < n
    <3>1. l \in 0..n - 1
      BY <1>5, <2>1
    <3>2. BatchHistory(o)'
      BY <1>4, <2>1, <3>1, Labelled DEF BatchHistory
    <3> QED
      BY <2>1, <3>2, Labelled DEF OpHistory, CompactHistory, StepHistory, AnswerHistory
  <2>2. CASE pc'[o] = "diagnostics" /\ l = n
    <3>1. BatchHistory(o)'
      BY <1>4, <2>2, Labelled DEF BatchHistory
    <3> QED
      BY <2>2, <3>1, Labelled DEF OpHistory, CompactHistory, StepHistory, AnswerHistory
  <2>3. CASE pc'[o] = "errorEvent"
    <3>1. pc'[o] \in Elsewhere
      BY <2>3, Labelled
    <3> QED
      BY <3>1, Labelled
         DEF OpHistory, CompactHistory, StepHistory, AnswerHistory, BatchHistory
  <2> QED
    BY <2>1, <2>2, <2>3
<1> QED
  BY <1>2, <1>3, <1>6, <1>7, HistoryKept

\* The results still to be emitted.
LEMMA ResultsLeft ==
    ASSUME NEW step \in Nat, NEW n \in Nat
    PROVE  /\ ToolResults(StepCalls(step, n)) = ResultsFrom(step, n, 0)
           /\ \A k \in 0..n - 1 :
                 /\ Head(ResultsFrom(step, n, k)) = ToolResult(<<step, k + 1>>)
                 /\ Tail(ResultsFrom(step, n, k)) = ResultsFrom(step, n, k + 1)
           /\ ResultsFrom(step, n, n) = <<>>
           /\ \A k \in 0..n - 1 : ResultsFrom(step, n, k) # <<>>
<1>1. ToolResults(StepCalls(step, n)) = ResultsFrom(step, n, 0)
  <2>1. n - 0 = n /\ \A i \in 1..n : 0 + i = i
    OBVIOUS
  <2>2. ResultsFrom(step, n, 0) = [i \in 1..n |-> ToolResult(<<step, i>>)]
    BY <2>1 DEF ResultsFrom
  <2>3. ToolResults(StepCalls(step, n)) = [i \in 1..n |-> ToolResult(<<step, i>>)]
    BY StepCallsTypes DEF ToolResults
  <2> QED
    BY <2>2, <2>3
<1>2. ASSUME NEW k \in 0..n
      PROVE  /\ ResultsFrom(step, n, k) \in Seq(Message)
             /\ Len(ResultsFrom(step, n, k)) = n - k
             /\ \A i \in 1..n - k : ResultsFrom(step, n, k)[i] = ToolResult(<<step, k + i>>)
  <2>1. \A i \in 1..n - k : ToolResult(<<step, k + i>>) \in Message
    BY DEF ToolResult, Message, CallId
  <2>2. n - k \in Nat
    OBVIOUS
  <2> QED
    BY <2>1, <2>2 DEF ResultsFrom
<1>3. ASSUME NEW k \in 0..n - 1
      PROVE  /\ Head(ResultsFrom(step, n, k)) = ToolResult(<<step, k + 1>>)
             /\ Tail(ResultsFrom(step, n, k)) = ResultsFrom(step, n, k + 1)
             /\ ResultsFrom(step, n, k) # <<>>
  <2>1. PICK s : s = ResultsFrom(step, n, k)
    OBVIOUS
  <2>2. PICK m \in 0..n : m = k + 1
    OBVIOUS
  <2>3. PICK r : r = ResultsFrom(step, n, m)
    OBVIOUS
  <2>4. /\ s \in Seq(Message) /\ Len(s) = n - k
        /\ \A i \in 1..n - k : s[i] = ToolResult(<<step, k + i>>)
    <3>1. k \in 0..n
      OBVIOUS
    <3> QED
      BY <1>2, <2>1, <3>1
  <2>5. /\ r \in Seq(Message) /\ Len(r) = n - m
        /\ \A i \in 1..n - m : r[i] = ToolResult(<<step, m + i>>)
    BY <1>2, <2>3
  <2>6. Len(s) # 0 /\ 1 \in 1..n - k
    BY <2>4
  <2>7. Head(s) = ToolResult(<<step, k + 1>>)
    BY <2>4, <2>6
  <2>8. Tail(s) = r
    <3>1. /\ Tail(s) \in Seq(Message) /\ Len(Tail(s)) = n - m
          /\ \A i \in 1..n - m : Tail(s)[i] = s[i + 1]
      BY <2>2, <2>4, <2>6
    <3>2. ASSUME NEW i \in 1..n - m PROVE Tail(s)[i] = r[i]
      <4>1. i + 1 \in 1..n - k /\ k + (i + 1) = m + i
        BY <2>2
      <4> QED
        BY <2>4, <2>5, <3>1, <4>1
    <3> QED
      BY <2>5, <3>1, <3>2
  <2> QED
    BY <2>1, <2>2, <2>3, <2>6, <2>7, <2>8
<1>4. ResultsFrom(step, n, n) = <<>>
  <2>1. n \in 0..n /\ n - n = 0
    OBVIOUS
  <2> QED
    BY <1>2, <2>1
<1> QED
  BY <1>1, <1>3, <1>4

LEMMA OpenedUnanswered ==
    ASSUME NEW step \in Nat, NEW n \in Nat, NEW s \in Seq(Message)
    PROVE  s \o Opened(step, n, 0)
             = Append(s, AssistantMessage(step, StepCalls(step, n)))
<1>1. PICK m \in Message : m = AssistantMessage(step, StepCalls(step, n))
  BY StepCallsTypes, MessageTypes
<1>2. PICK x : x = Opened(step, n, 0)
  OBVIOUS
<1>3. x \in Seq(Message) /\ Len(x) = 1 /\ x[1] = m
  <2>1. PICK k \in Nat : k = 0
    OBVIOUS
  <2>2. /\ Opened(step, n, k) \in Seq(Message)
        /\ Len(Opened(step, n, k)) = k + 1
        /\ Opened(step, n, k)[1] = AssistantMessage(step, StepCalls(step, n))
    BY OpenedTypes
  <2>3. x = Opened(step, n, k) /\ k + 1 = 1
    BY <1>2, <2>1
  <2> QED
    BY <1>1, <2>2, <2>3
<1>4. x = <<m>>
  BY <1>3
<1>5. s \o <<m>> = Append(s, m)
  OBVIOUS
<1> QED
  BY <1>1, <1>2, <1>4, <1>5

LEMMA PushAssistantMessageHistory ==
    ASSUME HistoryInv, NEW o \in UserOps, ExclusionInv', PushAssistantMessage(o)
    PROVE  HistoryInv' /\ HistoryMoves(o)
<1>1. /\ o \in Ops /\ ControlOK /\ messages \in Seq(Message)
      /\ nextId \in Nat /\ turn[o].step \in Nat /\ turn[o] \in Turn
  <2>1. o \in Ops
    BY DEF Ops
  <2> QED
    BY <2>1, SessionFacts
<1>2. /\ pc[o] = "assistantMessage" /\ pc[o] \in Running /\ pc[o] \notin BatchLabels
      /\ OthersRest(o) /\ nextId' = nextId
  <2>1. pc[o] = "assistantMessage" /\ nextId' = nextId
    BY DEF PushAssistantMessage
  <2>2. pc[o] \in Running /\ pc[o] \notin BatchLabels
    BY <2>1, Labelled
  <2> QED
    BY <1>1, <2>1, <2>2, RunsAlone
<1>3. /\ turn[o].start = Len(messages)
      /\ NewTo(messages, turn[o].step)
  BY <1>1, <1>2 DEF HistoryInv, OpHistory, AnswerHistory, StepHistory
<1>4. PICK n \in 0..MaxCalls : turn[o].calls = StepCalls(turn[o].step, n)
  BY <1>1, <1>2 DEF HistoryInv, OpHistory, AnswerHistory
<1>5. n \in Nat /\ Paired(messages)
  BY <1>1, <1>2, CallsBounded, PairedNow DEF OthersRest
<1>6. CASE Finish(o) /\ UNCHANGED messages
  <2>1. KeepsStep(o) /\ pc'[o] \notin StepWalk
    BY <1>1, <1>6, MovingOnKeepsStep DEF Finish, ControlOK, StepWalk
  <2> QED
    BY <1>1, <1>2, <1>6, <2>1, HistoryStays DEF HistoryMoves
<1>7. CASE /\ messages' = Append(messages, AssistantMessage(turn[o].step, turn[o].calls))
           /\ IF turn[o].calls = <<>> THEN EndStep(o, "assistant_message")
              ELSE Goto(o, "toolCalls")
  <2>1. PICK t : t = messages'
    OBVIOUS
  <2>2. t = messages \o Opened(turn[o].step, n, 0)
    BY <1>1, <1>4, <1>5, <1>7, <2>1, OpenedUnanswered
  <2>3. Opens(messages, t)
    BY <1>1, <1>3, <1>5, <2>2 DEF Opens
  <2>4. InExchange(messages, turn[o].step, n, 0, t)
    BY <1>3, <1>5, <2>2 DEF InExchange
  <2>5. ResultCalls(t) \subseteq ResultCalls(messages)
    <3>1. EndsOpen(t, messages, turn[o].step, n, 0)
      BY <1>1, <1>5, <2>2, OpenEnd
    <3>2. ResultCalls(t) = ResultCalls(messages) \union {<<turn[o].step, i>> : i \in 1..0}
      BY <3>1 DEF EndsOpen
    <3> QED
      BY <3>2
  <2>6. CASE n = 0
    <3>1. turn[o].calls = <<>>
      BY <1>1, <1>4, <2>6, StepCallsTypes
    <3>2. KeepsStep(o) /\ pc'[o] \notin StepWalk
      BY <1>1, <1>7, <3>1, MovingOnKeepsStep
         DEF EndStep, GotoWith, ControlOK, StepWalk
    <3>3. Paired(t)
      BY <1>1, <1>3, <1>5, <2>2, <2>6, ClosedEnd
    <3>4. HistoryInv'
      BY <1>1, <1>2, <2>1, <2>5, <3>2, <3>3, StepKept
    <3> QED
      BY <2>1, <2>3, <3>4 DEF HistoryMoves
  <2>7. CASE n # 0
    <3>1. turn[o].calls # <<>>
      BY <1>1, <1>4, <1>5, <2>7, StepCallsTypes
    <3>2. /\ pc'[o] = "toolCalls" /\ turn' = turn
          /\ \A q \in Ops \ {o} : pc'[q] = pc[q] /\ turn'[q] = turn[q]
      BY <1>1, <1>7, <3>1 DEF Goto, ControlOK
    <3>3. n \in 1..MaxCalls /\ 0 \in 0..n /\ 0 < n
      BY <1>5, <2>7, CallsBounded
    <3>4. HistoryInv'
      BY <1>1, <1>2, <1>3, <1>4, <2>1, <2>4, <2>5, <3>2, <3>3, BatchGoesOn
         DEF BatchLabels
    <3> QED
      BY <2>1, <2>3, <3>4 DEF HistoryMoves
  <2> QED
    BY <2>6, <2>7
<1> QED
  BY <1>6, <1>7 DEF PushAssistantMessage
\* An op in its batch.
LEMMA BatchFacts ==
    ASSUME HistoryInv, NEW o \in UserOps, pc[o] \in BatchLabels \union {"diagnostics"}
    PROVE  /\ o \in Ops /\ ControlOK /\ messages \in Seq(Message)
           /\ nextId \in Nat /\ turn[o].step \in Nat /\ turn[o] \in Turn
           /\ pc[o] \in Running /\ OthersRest(o)
           /\ \E n \in 1..MaxCalls : \E k \in 0..n :
                 /\ Open(o, n, k)
                 /\ pc[o] \in BatchLabels => k < n
                 /\ pc[o] \in {"toolCalls", "tools"} => k = 0
                 /\ pc[o] \in {"results", "pairingResults"} =>
                       turn[o].out = ResultsFrom(turn[o].step, n, k)
                 /\ pc[o] = "diagnostics" => k = n
<1>1. o \in Ops
  BY DEF Ops
<1>2. pc[o] \in Running /\ OthersRest(o)
  BY <1>1, Labelled, RunsAlone
<1>3. BatchHistory(o)
  BY <1>1 DEF HistoryInv, OpHistory
<1>4. CASE pc[o] \in BatchLabels
  <2>1. PICK n \in 1..MaxCalls : \E k \in 0..n - 1 :
           /\ Open(o, n, k)
           /\ pc[o] \in {"toolCalls", "tools"} => k = 0
           /\ pc[o] \in {"results", "pairingResults"} =>
                 turn[o].out = ResultsFrom(turn[o].step, n, k)
    BY <1>3, <1>4 DEF BatchHistory
  <2>2. \A k \in 0..n - 1 : k \in 0..n /\ k < n
    BY CallsBounded
  <2>3. pc[o] # "diagnostics"
    BY <1>4, Labelled
  <2> QED
    BY <1>1, <1>2, <2>1, <2>2, <2>3, SessionFacts
<1>5. CASE pc[o] = "diagnostics"
  <2>1. PICK n \in 1..MaxCalls : Open(o, n, n)
    BY <1>3, <1>5 DEF BatchHistory
  <2>2. n \in 0..n
    BY CallsBounded
  <2>3. pc[o] \notin BatchLabels /\ pc[o] \notin {"toolCalls", "tools", "results", "pairingResults"}
    BY <1>5, Labelled
  <2> QED
    BY <1>1, <1>2, <1>5, <2>1, <2>2, <2>3, SessionFacts
<1> QED
  BY <1>4, <1>5

\* The one write whose failure runTurn does not undo has not failed.
ToolCallsWritten == "tool.call" \notin Unwritable \/ failures' = 0

\* Neither announcing the calls nor executing them touches the history: a batch
\* whose results do not pair gets back the very assistant message it has.
LEMMA ToolsLeaveHistory ==
    ASSUME HistoryInv, NEW o \in UserOps,
           EmitToolCalls(o) \/ ToolsAborted(o) \/ ToolsAnswer(o) \/ ToolsMispair(o)
    PROVE  messages' = messages
<1>1. pc[o] \in {"toolCalls", "tools"} /\ pc[o] \in BatchLabels
  BY DEF EmitToolCalls, ToolsAborted, ToolsAnswer, ToolsMispair, BatchLabels
<1>2. o \in Ops /\ messages \in Seq(Message) /\ turn[o].step \in Nat
  BY <1>1, BatchFacts
<1>3. PICK n \in 1..MaxCalls : Open(o, n, 0)
  <2>1. \E n \in 1..MaxCalls : \E k \in 0..n : Open(o, n, k) /\ k = 0
    BY <1>1, BatchFacts
  <2> QED
    BY <2>1
<1>4. n \in Nat /\ 0 \in 0..n
  BY CallsBounded
<1>5. PICK before : before = BeforeStep(o)
  OBVIOUS
<1>6. /\ before \in Seq(Message)
      /\ InExchange(before, turn[o].step, n, 0, messages)
      /\ turn[o].calls = StepCalls(turn[o].step, n)
  BY <1>2, <1>3, <1>4, <1>5, OpenFacts
<1>7. CASE ToolsMispair(o)
  <2>1. messages' = Append(before, AssistantMessage(turn[o].step,
                                                    StepCalls(turn[o].step, n)))
    BY <1>5, <1>6, <1>7 DEF ToolsMispair
  <2>2. messages = before \o Opened(turn[o].step, n, 0)
    BY <1>6 DEF InExchange
  <2> QED
    BY <1>2, <1>4, <1>6, <2>1, <2>2, OpenedUnanswered
<1> QED
  BY <1>7 DEF EmitToolCalls, ToolsAborted, ToolsAnswer, history

\* The calls are announced and executed; the exchange stays as it is.
LEMMA ToolsReturnHistory ==
    ASSUME ToolCallsWritten, HistoryInv, NEW o \in UserOps, ExclusionInv',
           EmitToolCalls(o) \/ ToolsAborted(o) \/ ToolsAnswer(o) \/ ToolsMispair(o)
    PROVE  HistoryInv' /\ HistoryMoves(o)
<1>1. pc[o] \in {"toolCalls", "tools"} /\ pc[o] \in BatchLabels /\ nextId' = nextId
  BY DEF EmitToolCalls, ToolsAborted, ToolsAnswer, ToolsMispair, BatchLabels
<1>2. /\ o \in Ops /\ ControlOK /\ messages \in Seq(Message)
      /\ turn[o].step \in Nat /\ turn[o] \in Turn /\ pc[o] \in Running
  BY <1>1, BatchFacts
<1>3. PICK n \in 1..MaxCalls : Open(o, n, 0)
  <2>1. \E n \in 1..MaxCalls : \E k \in 0..n : Open(o, n, k) /\ k = 0
    BY <1>1, BatchFacts
  <2> QED
    BY <2>1
<1>4. n \in Nat /\ 0 \in 0..n /\ 0 < n
  BY CallsBounded
<1>5. PICK before : before = BeforeStep(o)
  OBVIOUS
<1>6. /\ before \in Seq(Message) /\ Len(before) = turn[o].start
      /\ InExchange(before, turn[o].step, n, 0, messages)
      /\ turn[o].calls = StepCalls(turn[o].step, n)
  BY <1>2, <1>3, <1>4, <1>5, OpenFacts
<1>7. messages' = messages
  BY ToolsLeaveHistory
<1>8. /\ pc'[o] \in {"tools", "results", "pairingResults"}
      /\ pc'[o] \in {"results", "pairingResults"} =>
            turn'[o].out = ToolResults(turn[o].calls)
      /\ turn'[o].step = turn[o].step /\ turn'[o].start = turn[o].start
      /\ turn'[o].calls = turn[o].calls
      /\ \A q \in Ops \ {o} : pc'[q] = pc[q] /\ turn'[q] = turn[q]
  <2>1. CASE EmitToolCalls(o)
    <3>1. failures \in Nat
      BY <1>2, SessionFacts, BoundsAssumption DEF DataOK
    <3>2. Goto(o, "tools")
      BY <2>1, <3>1 DEF EmitToolCalls, EmitFails, Invisible, Event, ToolCallsWritten
    <3> QED
      BY <1>2, <3>2 DEF Goto, ControlOK
  <2>2. ASSUME NEW label \in {"results", "pairingResults"}, NEW b, ToolsReturn(o, label, b)
        PROVE  /\ pc'[o] = label
               /\ turn'[o].out = ToolResults(turn[o].calls)
               /\ turn'[o].step = turn[o].step /\ turn'[o].start = turn[o].start
               /\ turn'[o].calls = turn[o].calls
               /\ \A q \in Ops \ {o} : pc'[q] = pc[q] /\ turn'[q] = turn[q]
    BY <1>2, <2>2 DEF ToolsReturn, GotoWith, ControlOK, Turn
  <2>3. CASE ToolsAborted(o) \/ ToolsAnswer(o) \/ ToolsMispair(o)
    BY <2>2, <2>3 DEF ToolsAborted, ToolsAnswer, ToolsMispair
  <2> QED
    BY <2>1, <2>3
<1>9. pc'[o] \in {"results", "pairingResults"} =>
         turn'[o].out = ResultsFrom(turn[o].step, n, 0)
  BY <1>2, <1>4, <1>6, <1>8, ResultsLeft
<1>10. pc'[o] \in BatchLabels
  BY <1>8 DEF BatchLabels
<1>11. HistoryInv'
  BY <1>1, <1>2, <1>4, <1>6, <1>7, <1>8, <1>9, <1>10, BatchGoesOn
<1> QED
  BY <1>7, <1>11 DEF HistoryMoves

\* One more call is answered.
LEMMA PushToolResultHistory ==
    ASSUME HistoryInv, NEW o \in UserOps, ExclusionInv', PushToolResult(o)
    PROVE  HistoryInv' /\ HistoryMoves(o)
<1>1. /\ pc[o] \in {"results", "pairingResults"} /\ pc[o] \in BatchLabels
      /\ pc[o] # "diagnostics" /\ nextId' = nextId
  BY DEF PushToolResult, BatchLabels
<1>2. /\ o \in Ops /\ ControlOK /\ messages \in Seq(Message)
      /\ turn[o].step \in Nat /\ turn[o] \in Turn /\ pc[o] \in Running
  BY <1>1, BatchFacts
<1>3. PICK n \in 1..MaxCalls : \E k \in 0..n :
         /\ Open(o, n, k) /\ k < n
         /\ turn[o].out = ResultsFrom(turn[o].step, n, k)
  BY <1>1, BatchFacts
<1>4. PICK k \in 0..n :
         /\ Open(o, n, k) /\ k < n
         /\ turn[o].out = ResultsFrom(turn[o].step, n, k)
  BY <1>3
<1>5. n \in Nat /\ k \in Nat /\ k \in 0..n - 1
  BY <1>4, CallsBounded
<1>6. CASE RollBackStep(o) /\ Finish(o)
  BY <1>1, <1>2, <1>4, <1>6, BatchTakenBack
<1>7. CASE /\ messages' = Append(messages, Head(turn[o].out))
           /\ GotoWith(o,
                CASE Tail(turn[o].out) # <<>> -> pc[o]
                  [] Tail(turn[o].out) = <<>> /\ pc[o] = "results" -> "diagnostics"
                  [] OTHER -> "errorEvent",
                [turn[o] EXCEPT !.out = Tail(turn[o].out)])
  <2>1. PICK before : before = BeforeStep(o)
    OBVIOUS
  <2>2. /\ before \in Seq(Message) /\ Len(before) = turn[o].start
        /\ InExchange(before, turn[o].step, n, k, messages)
        /\ turn[o].calls = StepCalls(turn[o].step, n)
        /\ EndsOpen(messages, before, turn[o].step, n, k)
    BY <1>2, <1>4, <1>5, <2>1, OpenFacts
  <2>3. PICK l : l = k + 1
    OBVIOUS
  <2>4. l \in 0..n /\ l \in Nat
    BY <1>4, <1>5, <2>3
  <2>5. PICK rest : rest = Tail(turn[o].out)
    OBVIOUS
  <2>6. /\ Head(turn[o].out) = ToolResult(<<turn[o].step, k + 1>>)
        /\ rest = ResultsFrom(turn[o].step, n, l)
        /\ l < n => rest # <<>>
        /\ l = n => rest = <<>>
    <3>1. l < n => l \in 0..n - 1
      BY <2>4
    <3>2. PICK step \in Nat : step = turn[o].step
      BY <1>2
    <3>3. /\ Head(ResultsFrom(step, n, k)) = ToolResult(<<step, k + 1>>)
          /\ Tail(ResultsFrom(step, n, k)) = ResultsFrom(step, n, k + 1)
      BY <1>5, ResultsLeft
    <3>4. /\ ResultsFrom(step, n, n) = <<>>
          /\ \A j \in 0..n - 1 : ResultsFrom(step, n, j) # <<>>
      BY <1>5, ResultsLeft
    <3>5. turn[o].out = ResultsFrom(step, n, k)
      BY <1>4, <3>2
    <3>6. rest = ResultsFrom(step, n, l)
      BY <2>3, <2>5, <3>3, <3>5
    <3>7. Head(turn[o].out) = ToolResult(<<turn[o].step, k + 1>>)
      BY <3>2, <3>3, <3>5
    <3> QED
      BY <3>1, <3>2, <3>4, <3>6, <3>7
  <2>7. PICK t : t = messages'
    OBVIOUS
  <2>8. t = before \o Opened(turn[o].step, n, k + 1)
    BY <1>7, <2>2, <2>6, <2>7 DEF EndsOpen
  <2>9. AnswersCall(messages, t)
    BY <1>2, <1>5, <2>2, <2>8 DEF AnswersCall
  <2>10. InExchange(before, turn[o].step, n, l, t)
    BY <2>2, <2>3, <2>8 DEF InExchange
  <2>11. \A c \in ResultCalls(t) : c \in ResultCalls(messages) \/ c[1] = turn[o].step
    <3>1. EndsOpen(t, before, turn[o].step, n, l)
      BY <1>2, <1>5, <2>2, <2>4, <2>10, OpenEnd DEF InExchange
    <3>2. /\ ResultCalls(t) = ResultCalls(before) \union {<<turn[o].step, i>> : i \in 1..l}
          /\ ResultCalls(before) \subseteq ResultCalls(messages)
      BY <2>2, <3>1 DEF EndsOpen
    <3> QED
      BY <3>2
  <2>12. /\ turn'[o].out = rest
         /\ turn'[o].step = turn[o].step /\ turn'[o].start = turn[o].start
         /\ turn'[o].calls = turn[o].calls
         /\ \A q \in Ops \ {o} : pc'[q] = pc[q] /\ turn'[q] = turn[q]
         /\ rest # <<>> => pc'[o] = pc[o]
         /\ rest = <<>> => pc'[o] \in {"diagnostics", "errorEvent"}
    <3>1. PICK label : /\ GotoWith(o, label, [turn[o] EXCEPT !.out = rest])
                       /\ rest # <<>> => label = pc[o]
                       /\ rest = <<>> => label \in {"diagnostics", "errorEvent"}
      BY <1>7, <2>5
    <3> QED
      BY <1>2, <3>1 DEF GotoWith, ControlOK, Turn
  <2>13. /\ pc'[o] \in {"toolCalls", "tools"} => l = 0
         /\ \/ pc'[o] \in BatchLabels /\ l < n
            \/ pc'[o] \in {"diagnostics", "errorEvent"} /\ l = n
    BY <1>1, <1>5, <2>4, <2>6, <2>12
  <2>14. pc'[o] \in {"results", "pairingResults"} =>
            turn'[o].out = ResultsFrom(turn[o].step, n, l)
    BY <2>6, <2>12
  <2>15. HistoryInv'
    BY <1>1, <1>2, <2>2, <2>4, <2>7, <2>10, <2>11, <2>12, <2>13, <2>14, BatchGoesOn
  <2> QED
    BY <2>7, <2>9, <2>15 DEF HistoryMoves
<1> QED
  BY <1>6, <1>7 DEF PushToolResult

\* A write inside a tool, or one after the results, fails; or the batch ends.
LEMMA BatchEndHistory ==
    ASSUME HistoryInv, NEW o \in UserOps, ExclusionInv',
           ToolsCannotWrite(o) \/ EmitDiagnostics(o)
    PROVE  HistoryInv' /\ HistoryMoves(o)
<1>1. /\ pc[o] \in {"tools", "diagnostics"} /\ nextId' = nextId
      /\ pc[o] \in BatchLabels \union {"diagnostics"}
  BY DEF ToolsCannotWrite, EmitDiagnostics, BatchLabels
<1>2. /\ o \in Ops /\ ControlOK /\ pc[o] \in Running /\ OthersRest(o)
  BY <1>1, BatchFacts
<1>3. PICK n \in 1..MaxCalls : \E k \in 0..n : Open(o, n, k)
  BY <1>1, BatchFacts
<1>4. PICK k \in 0..n : Open(o, n, k)
  BY <1>3
<1>5. CASE RollBackStep(o) /\ Finish(o)
  BY <1>1, <1>2, <1>4, <1>5, BatchTakenBack
<1>6. CASE /\ pc[o] = "diagnostics" /\ messages' = messages
           /\ \E r : EndStep(o, r)
  <2>1. KeepsStep(o)
    BY <1>2, <1>6, MovingOnKeepsStep
  <2>2. pc'[o] \notin StepWalk /\ pc[o] \notin BatchLabels
    BY <1>2, <1>6, Labelled DEF EndStep, GotoWith, ControlOK, StepWalk
  <2> QED
    BY <1>1, <1>2, <1>6, <2>1, <2>2, HistoryStays DEF HistoryMoves
<1> QED
  BY <1>5, <1>6 DEF ToolsCannotWrite, EmitDiagnostics

LEMMA ToolBatchHistory ==
    ASSUME ToolCallsWritten, HistoryInv, NEW o \in UserOps, ExclusionInv',
           ToolBatch(o)
    PROVE  HistoryInv' /\ HistoryMoves(o)
  BY PushAssistantMessageHistory, ToolsReturnHistory, PushToolResultHistory,
     BatchEndHistory DEF ToolBatch
-------------------------------------------------------------------------------
(***************************************************************************)
(* The rest of a turn                                                      *)
(***************************************************************************)
\* A step that begins has an id that no result in the history answers.
LEMMA StepStartedHistory ==
    ASSUME HistoryInv, NEW o \in UserOps, ExclusionInv', StepStarted(o)
    PROVE  HistoryInv' /\ messages' = messages
<1>1. /\ o \in Ops /\ ControlOK /\ messages \in Seq(Message) /\ turn[o] \in Turn
      /\ nextId \in Nat /\ StepsBelow(messages, nextId)
  <2>1. o \in Ops
    BY DEF Ops
  <2> QED
    BY <2>1, SessionFacts
<1>2. /\ pc[o] = "stepStarted" /\ messages' = messages /\ nextId' = nextId + 1
  BY DEF StepStarted, history
<1>3. pc[o] \in Running /\ pc[o] \notin BatchLabels
  BY <1>2 DEF Running, TurnLabels, BatchLabels
<1>4. OthersRest(o)
  BY <1>1, <1>3, RunsAlone
<1>5. CASE Finish(o)
  <2>1. KeepsStep(o) /\ pc'[o] \notin StepWalk
    BY <1>1, <1>5, MovingOnKeepsStep DEF Finish, ControlOK, StepWalk
  <2> QED
    BY <1>1, <1>2, <1>3, <1>4, <2>1, HistoryStays
<1>6. CASE GotoWith(o, "assemble",
                    [turn[o] EXCEPT !.step = nextId + 1, !.index = @ + 1, !.attempt = 1])
  <2>1. /\ pc'[o] = "assemble" /\ turn'[o].step = nextId + 1
        /\ \A q \in Ops \ {o} : pc'[q] = pc[q] /\ turn'[q] = turn[q]
    BY <1>1, <1>6 DEF GotoWith, ControlOK, Turn
  <2>2. Alone(o)
    BY <1>4, <2>1 DEF Alone, OthersRest
  <2>3. nextId <= nextId' /\ turn'[o].step <= nextId'
    BY <1>1, <1>2, <2>1
  <2>4. StepsBelow(messages', nextId')
    <3>1. nextId' \in Nat
      BY <1>1, <1>2
    <3>2. StepsBelow(messages, nextId')
      BY <1>1, <2>3, <3>1, BelowStays
    <3> QED
      BY <1>2, <3>2
  <2>5. Paired(messages')
    BY <1>1, <1>2, <1>3, <1>4, PairedNow DEF OthersRest
  <2>6. NewTo(messages, nextId + 1)
    <3> SUFFICES ASSUME NEW j \in ResultIndices(messages)
                 PROVE  messages[j].call[1] # nextId + 1
      BY DEF NewTo, ResultCalls
    <3>1. messages[j].call \in ResultCalls(messages)
      BY DEF ResultCalls
    <3>2. j \in DOMAIN messages
      BY DEF ResultIndices
    <3>3. messages[j] \in Message
      BY <1>1, <3>2
    <3>4. messages[j].call[1] \in Nat
      BY <3>3 DEF Message, CallId
    <3> QED
      BY <1>1, <3>1, <3>4 DEF StepsBelow
  <2>7. OpHistory(o)'
    <3>1. StepHistory(o)'
      BY <1>2, <2>1, <2>6 DEF StepHistory
    <3>2. pc'[o] \in StepWalk
      BY <2>1 DEF StepWalk
    <3> QED
      BY <3>1, <3>2, Labelled DEF OpHistory, CompactHistory, AnswerHistory, BatchHistory
  <2> QED
    BY <1>1, <1>2, <2>2, <2>3, <2>4, <2>5, <2>7, HistoryKept
<1> QED
  BY <1>5, <1>6 DEF StepStarted

LEMMA PushUserMessageHistory ==
    ASSUME HistoryInv, NEW o \in UserOps, ExclusionInv', PushUserMessage(o)
    PROVE  HistoryInv' /\ HistoryMoves(o)
<1>1. /\ o \in Ops /\ ControlOK /\ messages \in Seq(Message) /\ turn[o] \in Turn
      /\ nextId \in Nat
  <2>1. o \in Ops
    BY DEF Ops
  <2> QED
    BY <2>1, SessionFacts
<1>2. pc[o] = "userMessage" /\ nextId' = nextId
  BY DEF PushUserMessage
<1>3. pc[o] \in Running /\ pc[o] \notin BatchLabels
  BY <1>2 DEF Running, TurnLabels, BatchLabels
<1>4. OthersRest(o)
  BY <1>1, <1>3, RunsAlone
<1>5. Paired(messages)
  BY <1>1, <1>3, <1>4, PairedNow DEF OthersRest
<1>6. KeepsStep(o) /\ pc'[o] \notin StepWalk
  <2>1. "stepStarted" \in Elsewhere
    BY Labelled
  <2>2. \/ Goto(o, "stepStarted") \/ Finish(o)
        \/ \E r : EndTurn(o, r)
    BY DEF PushUserMessage
  <2>3. KeepsStep(o)
    BY <1>1, <2>1, <2>2, MovingOnKeepsStep
  <2>4. pc'[o] \notin StepWalk
    BY <1>1, <2>2 DEF Goto, Finish, EndTurn, GotoWith, ControlOK, StepWalk
  <2> QED
    BY <2>3, <2>4
<1>7. CASE messages' = messages
  BY <1>1, <1>2, <1>3, <1>4, <1>6, <1>7, HistoryStays DEF HistoryMoves
<1>8. CASE messages' = Append(messages, UserMessage(turn[o].userId))
  <2>1. PICK id \in Nat : id = turn[o].userId
    BY <1>1 DEF Turn
  <2>2. PICK t : t = messages'
    OBVIOUS
  <2>3. t = Append(messages, UserMessage(id))
    BY <1>8, <2>1, <2>2
  <2>4. Paired(t) /\ ResultCalls(t) = ResultCalls(messages)
    BY <1>1, <1>5, <2>3, UserMessageJoins
  <2>5. HistoryInv'
    BY <1>1, <1>2, <1>4, <1>6, <2>2, <2>4, StepKept
  <2>6. Says(messages, t)
    BY <1>5, <2>3 DEF Says
  <2> QED
    BY <2>2, <2>5, <2>6 DEF HistoryMoves
<1> QED
  BY <1>7, <1>8 DEF PushUserMessage

LEMMA RunTurnHistory ==
    ASSUME ToolCallsWritten, HistoryInv, NEW o \in UserOps, ExclusionInv',
           RunTurn(o)
    PROVE  HistoryInv' /\ HistoryMoves(o)
<1>1. o \in Ops /\ ControlOK /\ messages \in Seq(Message) /\ turn[o] \in Turn
  <2>1. o \in Ops
    BY DEF Ops
  <2> QED
    BY <2>1, SessionFacts
<1>2. CASE ProviderStep(o) \/ ToolBatch(o)
  BY <1>2, ProviderStepKeepsPairing, ToolBatchHistory DEF HistoryMoves
<1>3. CASE PushUserMessage(o) \/ StepStarted(o)
  BY <1>3, PushUserMessageHistory, StepStartedHistory DEF HistoryMoves
<1>4. CASE \/ PromptHook(o) \/ TurnStarted(o) \/ ErrorEvent(o) \/ StepEnded(o)
           \/ TurnEnded(o) \/ StopHook(o)
  <2>1. /\ pc[o] \in {"promptHook", "turnStarted", "errorEvent", "stepEnded",
                      "turnEnded", "stopHook"}
        /\ messages' = messages /\ nextId' \in {nextId, nextId + 1}
    BY <1>4 DEF PromptHook, TurnStarted, ErrorEvent, StepEnded, TurnEnded, StopHook,
                history, log
  <2>2. pc[o] \in Running /\ pc[o] \notin BatchLabels
    BY <2>1 DEF Running, TurnLabels, BatchLabels
  <2>3. OthersRest(o)
    BY <1>1, <2>2, RunsAlone
  <2>4. \/ \E l \in {"userMessage", "stepStarted", "turnEnded", "stopHook"} : Goto(o, l)
        \/ \E t : t.step = turn[o].step /\ GotoWith(o, "turnStarted", t)
        \/ Finish(o)
        \/ \E r : EndStep(o, r)
    <3>1. CASE PromptHook(o)
      <4>1. [turn[o] EXCEPT !.userId = nextId + 1].step = turn[o].step
        BY <1>1 DEF Turn
      <4> QED
        BY <3>1, <4>1 DEF PromptHook
    <3>2. CASE TurnStarted(o)
      BY <3>2 DEF TurnStarted
    <3>3. CASE ErrorEvent(o) \/ StepEnded(o) \/ TurnEnded(o) \/ StopHook(o)
      BY <3>3 DEF ErrorEvent, StepEnded, TurnEnded, StopHook
    <3> QED
      BY <1>4, <3>1, <3>2, <3>3
  <2>5. KeepsStep(o) /\ pc'[o] \notin StepWalk
    <3>1. ASSUME NEW t, t.step = turn[o].step, GotoWith(o, "turnStarted", t)
          PROVE  KeepsStep(o) /\ pc'[o] \notin StepWalk
      BY <1>1, <3>1, Labelled DEF GotoWith, KeepsStep, ControlOK, StepWalk
    <3>2. ASSUME NEW l \in {"userMessage", "stepStarted", "turnEnded", "stopHook"},
                 Goto(o, l)
          PROVE  KeepsStep(o) /\ pc'[o] \notin StepWalk
      <4>1. l \in Elsewhere
        BY Labelled
      <4>2. KeepsStep(o)
        BY <1>1, <3>2, <4>1, MovingOnKeepsStep
      <4> QED
        BY <1>1, <3>2, <4>2 DEF Goto, ControlOK, StepWalk
    <3>3. ASSUME Finish(o) PROVE KeepsStep(o) /\ pc'[o] \notin StepWalk
      BY <1>1, <3>3, MovingOnKeepsStep DEF Finish, ControlOK, StepWalk
    <3>4. ASSUME NEW r, EndStep(o, r) PROVE KeepsStep(o) /\ pc'[o] \notin StepWalk
      BY <1>1, <3>4, MovingOnKeepsStep DEF EndStep, GotoWith, ControlOK, StepWalk
    <3> QED
      BY <2>4, <3>1, <3>2, <3>3, <3>4
  <2> QED
    BY <1>1, <2>1, <2>2, <2>3, <2>5, HistoryStays DEF HistoryMoves
<1> QED
  BY <1>2, <1>3, <1>4 DEF RunTurn

-------------------------------------------------------------------------------
(***************************************************************************)
(* The session                                                             *)
(***************************************************************************)
LEMMA HistoryInit ==
    ASSUME Init
    PROVE  HistoryInv
<1>1. ExclusionInv
  BY InitInv DEF Init, ExclusionInv, RunnerIsActive, OnlySlashCommands,
                 Running, TurnLabels, CompactLabels
<1>2. messages = <<>> /\ nextId = 0 /\ \A o \in Ops : pc[o] = "new" /\ turn[o] = NoTurn
  BY DEF Init
<1>3. GroupStarts(messages) = {} /\ ResultIndices(messages) = {}
  BY <1>2 DEF GroupStarts, ResultIndices
<1>4. Paired(messages) /\ ResultCalls(messages) = {}
  BY <1>2, <1>3 DEF Paired, ResultCalls
<1>5. StepsBelow(messages, nextId) /\ \A o \in Ops : turn[o].step <= nextId
  BY <1>2, <1>4 DEF StepsBelow, NoTurn
<1>6. \A o \in Ops : OpHistory(o)
  <2>1. \A o \in Ops : pc[o] \in Elsewhere
    BY <1>2, Labelled
  <2> QED
    BY <2>1, RestingHistory
<1> QED
  BY <1>1, <1>4, <1>5, <1>6 DEF HistoryInv, HistoryPaired

LEMMA HistoryStep ==
    ASSUME SlashOps = {}, ToolCallsWritten, HistoryInv, [Next]_vars
    PROVE  HistoryInv' /\ (messages = messages' \/ \E o \in Ops : HistoryMoves(o))
<1>1. ExclusionInv'
  BY ExclusionStep DEF HistoryInv
<1>2. ASSUME NEW o \in Ops, Submit(o) \/ Advance(o)
      PROVE  HistoryInv' /\ HistoryMoves(o)
  <2>1. CASE Submit(o) \/ CommandInvoked(o) \/ CommandOutput(o)
    BY <1>1, <2>1, SubmitHistory DEF HistoryMoves
  <2>2. CASE Compact(o)
    BY <1>1, <2>2, CompactKeepsHistory
  <2>3. CASE o \in UserOps /\ RunTurn(o)
    BY <1>1, <2>3, RunTurnHistory
  <2> QED
    BY <1>2, <2>1, <2>2, <2>3 DEF Advance
<1>3. ASSUME UNCHANGED <<messages, pc, turn, compaction, nextId>>
      PROVE  HistoryInv'
  <2>1. \A o \in Ops : OpHistory(o)'
    BY <1>3 DEF HistoryInv, OpHistory, CompactHistory, StepHistory, AnswerHistory,
                BatchHistory, Open
  <2>2. HistoryPaired'
    BY <1>3 DEF HistoryInv, HistoryPaired, MidBatch
  <2> QED
    BY <1>1, <1>3, <2>1, <2>2 DEF HistoryInv
<1>4. CASE Abort \/ UNCHANGED vars
  BY <1>3, <1>4 DEF Abort, vars, history
<1> QED
  BY <1>2, <1>4 DEF Next, Terminated
\* Outside a running tool batch every tool call of the history has its result
\* right behind it, for any number of submits, steps, retries, calls and failed
\* writes.  The two hypotheses are the two ways the code can break it: two slash
\* commands may both pass the guard of submit while command.invoked is being
\* written, and a tool.call event that cannot be written ends the turn without
\* taking its assistant message back.
THEOREM PairedHistory ==
    ASSUME SlashOps = {}, "tool.call" \notin Unwritable
    PROVE  Spec => []HistoryPaired
<1>1. Init => HistoryInv
  BY HistoryInit
<1>2. HistoryInv /\ [Next]_vars => HistoryInv'
  BY HistoryStep DEF ToolCallsWritten
<1>3. HistoryInv => HistoryPaired
  BY DEF HistoryInv
<1> QED
  BY <1>1, <1>2, <1>3, PTL DEF Spec

\* Every step of the session leaves the history, appends to it, takes back
\* messages none of which is the user's, or puts the summary of a compaction in
\* front of an unchanged tail.
LEMMA HistoryChanges ==
    ASSUME SlashOps = {}, ToolCallsWritten, HistoryInv, [Next]_vars
    PROVE  Appends \/ TakesBackStep \/ Summarizes
<1>1. PICK s \in Seq(Message) : s = messages
  BY DEF HistoryInv, ExclusionInv, Inv, TypeOK, DataOK
<1>2. PICK t : t = messages'
  OBVIOUS
<1>3. t \in Seq(Message)
  BY <1>2, HistoryStep DEF HistoryInv, ExclusionInv, Inv, TypeOK, DataOK
<1>4. CASE s = t
  <2>1. IsPrefix(s, t)
    <3>1. Len(s) \in Nat /\ SubSeq(s, 1, Len(s)) = s
      OBVIOUS
    <3> QED
      BY <1>4, <3>1 DEF IsPrefix
  <2> QED
    BY <1>1, <1>2, <2>1 DEF Appends
<1>5. ASSUME NEW o \in Ops, HistoryMoves(o)
      PROVE  Appends \/ TakesBackStep \/ Summarizes
  <2>1. PICK id \in Nat : id = compaction[o].id
    BY SessionFacts
  <2>2. \/ IsPrefix(s, t)
        \/ /\ IsPrefix(t, s)
           /\ \A i \in Len(t) + 1 .. Len(s) : s[i].role # "user"
        \/ \E i \in 2..Len(s) :
              t = <<UserMessage(id)>> \o SubSeq(s, i, Len(s))
    BY <1>1, <1>2, <1>3, <1>5, <2>1, MovesGrow DEF HistoryMoves
  <2> QED
    BY <1>1, <1>2, <2>1, <2>2 DEF Appends, TakesBackStep, Summarizes
<1> QED
  BY <1>1, <1>2, <1>4, <1>5, HistoryStep

\* The history only grows, loses a step that could not be written, or is
\* compacted: nothing a user said is ever taken back.
THEOREM HistoryGrows ==
    ASSUME SlashOps = {}, "tool.call" \notin Unwritable
    PROVE  Spec => HistoryOnlyGrowsOrCompacts
<1>1. Init => HistoryInv
  BY HistoryInit
<1>2. HistoryInv /\ [Next]_vars => HistoryInv'
  BY HistoryStep DEF ToolCallsWritten
<1>3. HistoryInv /\ [Next]_vars => [Appends \/ TakesBackStep \/ Summarizes]_vars
  BY HistoryChanges DEF ToolCallsWritten
<1> QED
  BY <1>1, <1>2, <1>3, PTL DEF Spec, HistoryOnlyGrowsOrCompacts

-------------------------------------------------------------------------------
(***************************************************************************)
(* The conversation                                                        *)
(***************************************************************************)
LEMMA CompletePartIs ==
    /\ CompletePart = Complete(messages)
    /\ CompletePart' = Complete(messages')
<1>1. CompletePart = Complete(messages)
  BY DEF CompletePart, Complete, LastGroup
<1>2. CompletePart' = Complete(messages')
  BY DEF CompletePart, Complete, LastGroup
<1> QED
  BY <1>1, <1>2

LEMMA PromisedTerms ==
    /\ \A id : Promise!UserMessage(id) = UserMessage(id)
    /\ \A id, n : Promise!Exchange(id, n) = Opened(id, n, n)
    /\ \A s : Promise!GroupStarts(s) = GroupStarts(s)
    /\ \A s : Promise!ResultIndices(s) = ResultIndices(s)
  BY DEF Promise!UserMessage, UserMessage, Promise!Exchange, Opened, StepCalls,
         Promise!Calls, Promise!AssistantMessage, AssistantMessage,
         Promise!ToolResults, ToolResults, Promise!ToolResult, ToolResult,
         Promise!NoCall, NoCall, Promise!GroupStarts, GroupStarts,
         Promise!ResultIndices, ResultIndices

\* Every move is one of the conversation's steps.
LEMMA ConversesAsPromised ==
    ASSUME MessageIds = Nat, NEW h, NEW g, h = CompletePart, g = CompletePart',
           Converses(h, g)
    PROVE  Promise!CNext
<1>1. CASE \E id \in Nat : g = Append(h, UserMessage(id))
  BY <1>1, PromisedTerms DEF Promise!CNext, Promise!Say
<1>2. CASE \E step \in Nat, n \in 0..MaxCalls :
              NewTo(h, step) /\ g = h \o Opened(step, n, n)
  <2>1. PICK step \in Nat, n \in 0..MaxCalls :
           NewTo(h, step) /\ g = h \o Opened(step, n, n)
    BY <1>2
  <2>2. Promise!Fresh(step)
    BY <2>1, PromisedTerms DEF Promise!Fresh, NewTo, ResultCalls
  <2>3. Promise!Answer(step, n)
    BY <2>1, <2>2, PromisedTerms DEF Promise!Answer
  <2> QED
    BY <2>3 DEF Promise!CNext
<1>3. CASE \E i \in GroupStarts(h) :
              /\ \A j \in GroupStarts(h) : j <= i
              /\ h[i].calls # <<>>
              /\ g = SubSeq(h, 1, i - 1)
  BY <1>3, PromisedTerms DEF Promise!CNext, Promise!Withdraw
<1>4. CASE \E i \in GroupStarts(h), id \in Nat :
              i > 1 /\ g = <<UserMessage(id)>> \o SubSeq(h, i, Len(h))
  BY <1>4, PromisedTerms DEF Promise!CNext, Promise!Condense
<1> QED
  BY <1>1, <1>2, <1>3, <1>4 DEF Converses

\* The session implements the conversation: seen without the exchange that is
\* still open, its history goes from exchange to complete exchange.  MessageIds
\* is all of Nat here: a finite set of ids is only TLC's bound.
THEOREM SessionImplementsConversation ==
    ASSUME SlashOps = {}, "tool.call" \notin Unwritable, MessageIds = Nat
    PROVE  Spec => ImplementsConversation
<1>1. Init => HistoryInv
  BY HistoryInit
<1>2. HistoryInv /\ [Next]_vars => HistoryInv'
  BY HistoryStep DEF ToolCallsWritten
<1>3. Init => Promise!CInit
  BY DEF Init, Promise!CInit, CompletePart
<1>4. HistoryInv /\ [Next]_vars => [Promise!CNext]_CompletePart
  <2> SUFFICES ASSUME HistoryInv, [Next]_vars, CompletePart' # CompletePart
               PROVE  Promise!CNext
    OBVIOUS
  <2>1. PICK s \in Seq(Message) : s = messages
    BY DEF HistoryInv, ExclusionInv, Inv, TypeOK, DataOK
  <2>2. PICK t : t = messages'
    OBVIOUS
  <2>3. t \in Seq(Message)
    BY <2>2, HistoryStep DEF HistoryInv, ExclusionInv, Inv, TypeOK, DataOK, ToolCallsWritten
  <2>4. CompletePart = Complete(s) /\ CompletePart' = Complete(t)
    BY <2>1, <2>2, CompletePartIs
  <2>5. PICK o \in Ops : HistoryMoves(o)
    BY <2>1, <2>2, <2>4, HistoryStep DEF ToolCallsWritten
  <2>6. PICK id \in Nat : id = compaction[o].id
    BY <2>5, SessionFacts
  <2>7. Converses(Complete(s), Complete(t))
    BY <2>1, <2>2, <2>3, <2>4, <2>5, <2>6, MovesConverse DEF HistoryMoves
  <2> QED
    BY <2>4, <2>7, ConversesAsPromised
<1> QED
  BY <1>1, <1>2, <1>3, <1>4, HistoryGrows, PTL
     DEF Spec, ImplementsConversation, Promise!CSpec

-------------------------------------------------------------------------------
(***************************************************************************)
(* What a log stands for while it grows                                    *)
(***************************************************************************)
\* The replay of what came after the latest compaction.
Since(T) == ReplayState(SubSeq(T, LatestSuccessfulCompact(T) + 1, Len(T)))

\* Where the kept part of the messages s begins that a compaction e names.
KeptStart(s, e) == SelectInSeq(s, LAMBDA m : m.id = e.tailStart)

\* What a compaction e, written behind a log with the replay r, stands for.
Condensed(r, e) ==
    LET start == KeptStart(r.messages, e)
    IN  <<e.message>> \o (IF start = 0 THEN <<>>
                          ELSE SubSeq(r.messages, start, Len(r.messages)))
Condensable(r, e) ==
    /\ r.accepted /\ r.open = 0
    /\ e.tailStart # NoTail => KeptStart(r.messages, e) # 0

\* The history the log T begins with.
Base(T) ==
    LET c == LatestSuccessfulCompact(T)
    IN  IF c = 0 THEN <<>> ELSE Condensed(ReplayState(SubSeq(T, 1, c - 1)), T[c])
BaseOK(T) ==
    LET c == LatestSuccessfulCompact(T)
    IN  c # 0 => Condensable(ReplayState(SubSeq(T, 1, c - 1)), T[c])

\* The replay r waits for n results of a turn's step.
Waits(r, n, t, s) ==
    /\ r.accepted
    /\ r.messages \in Seq(Message)
    /\ r.open = n
    /\ n > 0 => r.turn = t /\ r.step = s

\* But for its first message, the history is the end of all that was ever said.
EndOf(m, all) ==
    /\ Len(m) <= Len(all)
    /\ \A i \in 2..Len(m) : m[i] = all[i + (Len(all) - Len(m))]

\* The log T stands for the history m, and n results are still missing.
Rebuilds(T, m, n, t, s) ==
    /\ Waits(ReplayState(T), n, t, s)
    /\ Waits(Since(T), n, t, s)
    /\ Base(T) \in Seq(Message)
    /\ BaseOK(T)
    /\ m = Base(T) \o Since(T).messages
    /\ EndOf(m, ReplayState(T).messages)

LEMMA LatestCompact ==
    ASSUME NEW T \in Seq(SessionEvent), NEW e \in SessionEvent
    PROVE  /\ LatestSuccessfulCompact(T) \in 0..Len(T)
           /\ e.type # "compact.ended" =>
                 LatestSuccessfulCompact(Append(T, e)) = LatestSuccessfulCompact(T)
           /\ e.type = "compact.ended" =>
                 LatestSuccessfulCompact(Append(T, e)) = Len(T) + 1
<1> DEFINE U == Append(T, e)
           n == Len(T)
           I == {i \in 1..n : T[i].type = "compact.ended"}
           J == {i \in 1..n + 1 : U[i].type = "compact.ended"}
<1>1. /\ n \in Nat /\ Len(U) = n + 1 /\ U[n + 1] = e
      /\ \A i \in 1..n : U[i] = T[i]
  OBVIOUS
<1>2. /\ LatestSuccessfulCompact(T) = IF I # {} THEN Max(I) ELSE 0
      /\ LatestSuccessfulCompact(U) = IF J # {} THEN Max(J) ELSE 0
  BY <1>1 DEF LatestSuccessfulCompact, SelectLastInSeq
<1>3. e.type # "compact.ended" => J = I
  BY <1>1
<1>4. ASSUME e.type = "compact.ended" PROVE J # {} /\ Max(J) = n + 1
  <2>1. J \in SUBSET (1..n + 1) /\ n + 1 \in J
    BY <1>1, <1>4
  <2> QED
    BY <1>1, <2>1, MaxOfInterval
<1>5. I # {} => Max(I) \in 1..n
  <2> SUFFICES ASSUME I # {} PROVE Max(I) \in 1..n
    OBVIOUS
  <2>1. n \in Nat /\ I \subseteq 0..n /\ I # {}
    BY <1>1
  <2>2. PICK k \in I : \A j \in I : j <= k
    <3> HIDE DEF I, n
    <3> QED
      BY <2>1, BoundedNatSetHasMaximum
  <2>3. \A j \in I : k >= j
    BY <1>1, <2>2
  <2>4. Max(I) \in I
    <3> HIDE DEF I
    <3> QED
      BY <2>3 DEF Max
  <2> QED
    BY <2>4
<1> HIDE DEF I, J, U
<1> QED
  BY <1>1, <1>2, <1>3, <1>4, <1>5 DEF U

\* One event of a batch, or any event while nothing is missing.
LEMMA EventTaken ==
    ASSUME NEW r, NEW e \in SessionEvent, NEW n \in Nat, NEW t, NEW s,
           Waits(r, n, t, s), e.type # "compact.ended",
           n > 0 => e.type = "tool.result" /\ e.turn = t /\ e.step = s
    PROVE  /\ Waits(ReplayEvent(r, e),
                    CASE e.type = "assistant.message" -> Len(e.message.calls)
                      [] e.type = "tool.result" /\ n > 0 -> n - 1
                      [] OTHER -> n,
                    IF e.type = "assistant.message" THEN e.turn ELSE t,
                    IF e.type = "assistant.message" THEN e.step ELSE s)
           /\ ReplayEvent(r, e).messages =
                IF e.type \in VisibleTypes THEN Append(r.messages, e.message)
                ELSE r.messages
<1>1. e.message \in Message /\ e.message.calls \in Seq(CallId)
  BY DEF SessionEvent, Message
<1>2. ~(~r.accepted \/ (r.open > 0 /\ BreaksBatch(r, e)))
  BY DEF Waits, BreaksBatch
<1>3. ReplayEvent(r, e) =
        [accepted |-> TRUE,
         messages |-> IF e.type \in VisibleTypes
                      THEN Append(r.messages, e.message) ELSE r.messages,
         open |-> OpenAfter(r, e),
         turn |-> IF e.type = "assistant.message" THEN e.turn ELSE r.turn,
         step |-> IF e.type = "assistant.message" THEN e.step ELSE r.step]
  BY <1>2 DEF ReplayEvent
<1>4. OpenAfter(r, e) =
         CASE e.type = "assistant.message" -> Len(e.message.calls)
           [] e.type = "tool.result" /\ n > 0 -> n - 1
           [] OTHER -> n
  BY DEF OpenAfter, Waits
<1>5. ReplayEvent(r, e).messages \in Seq(Message)
  BY <1>1, <1>3 DEF Waits
<1>6. ASSUME e.type # "assistant.message",
             (IF e.type = "tool.result" /\ n > 0 THEN n - 1 ELSE n) > 0
      PROVE  n > 0
  BY <1>6
<1> QED
  BY <1>3, <1>4, <1>5, <1>6 DEF Waits

LEMMA OneEventMore ==
    ASSUME NEW T \in Seq(SessionEvent), NEW e \in SessionEvent
    PROVE  /\ Append(T, e) \in Seq(SessionEvent)
           /\ Len(Append(T, e)) = Len(T) + 1
           /\ \A i \in 1..Len(T) : Append(T, e)[i] = T[i]
           /\ Append(T, e)[Len(T) + 1] = e
OBVIOUS

\* An event that is no compaction leaves what the log begins with and is the
\* last one since.
LEMMA SinceGrows ==
    ASSUME NEW T \in Seq(SessionEvent), NEW e \in SessionEvent,
           e.type # "compact.ended"
    PROVE  /\ Base(Append(T, e)) = Base(T)
           /\ BaseOK(Append(T, e)) <=> BaseOK(T)
           /\ Since(Append(T, e)) = ReplayEvent(Since(T), e)
<1>1. PICK c \in 0..Len(T) : c = LatestSuccessfulCompact(T)
  BY LatestCompact
<1>2. LatestSuccessfulCompact(Append(T, e)) = c
  BY <1>1, LatestCompact
<1>3. SubSeq(Append(T, e), c + 1, Len(Append(T, e)))
        = Append(SubSeq(T, c + 1, Len(T)), e)
  <2>1. PICK n \in Nat : n = Len(T)
    OBVIOUS
  <2>2. PICK U : U = Append(T, e)
    OBVIOUS
  <2>3. /\ U \in Seq(SessionEvent) /\ Len(U) = n + 1 /\ U[n + 1] = e
        /\ \A i \in 1..n : U[i] = T[i]
    BY <2>1, <2>2
  <2>4. PICK x : x = SubSeq(T, c + 1, n)
    OBVIOUS
  <2>5. x \in Seq(SessionEvent) /\ Len(x) = n - c /\ \A i \in 1..n - c : x[i] = T[c + i]
    BY <2>1, <2>4
  <2>6. PICK y : y = SubSeq(U, c + 1, n + 1)
    OBVIOUS
  <2>7. /\ y \in Seq(SessionEvent) /\ Len(y) = n - c + 1
        /\ \A i \in 1..n - c + 1 : y[i] = U[c + i]
    BY <2>1, <2>3, <2>6
  <2>8. PICK z : z = Append(x, e)
    OBVIOUS
  <2>9. /\ z \in Seq(SessionEvent) /\ Len(z) = n - c + 1
        /\ \A i \in 1..n - c : z[i] = x[i]
        /\ z[n - c + 1] = e
    <3>1. /\ z \in Seq(SessionEvent) /\ Len(z) = Len(x) + 1
          /\ \A i \in 1..Len(x) : z[i] = x[i]
          /\ z[Len(x) + 1] = e
      BY <2>5, <2>8, OneEventMore
    <3> QED
      BY <2>5, <3>1
  <2>10. ASSUME NEW i \in 1..n - c + 1 PROVE y[i] = z[i]
    <3>1. CASE i = n - c + 1
      <4>1. c + i = n + 1
        BY <2>1, <3>1
      <4> QED
        BY <2>3, <2>7, <2>9, <3>1, <4>1
    <3>2. CASE i \in 1..n - c
      <4>1. c + i \in 1..n
        BY <2>1, <3>2
      <4>2. y[i] = U[c + i] /\ z[i] = x[i] /\ x[i] = T[c + i]
        BY <2>5, <2>7, <2>9, <3>2
      <4> QED
        BY <2>3, <4>1, <4>2
    <3> QED
      BY <2>1, <3>1, <3>2
  <2>11. y = z
    <3>1. Len(y) = Len(z) /\ \A i \in 1..Len(y) : y[i] = z[i]
      BY <2>7, <2>9, <2>10
    <3> QED
      BY <2>7, <2>9, <3>1
  <2> QED
    BY <2>1, <2>2, <2>3, <2>4, <2>6, <2>8, <2>11
<1>4. SubSeq(T, c + 1, Len(T)) \in Seq(SessionEvent)
  BY <1>1
<1>5. Since(Append(T, e)) = ReplayEvent(Since(T), e)
  BY <1>1, <1>2, <1>3, <1>4, ReplayAppends DEF Since, ReplayState
<1>6. c # 0 => /\ SubSeq(Append(T, e), 1, c - 1) = SubSeq(T, 1, c - 1)
               /\ Append(T, e)[c] = T[c]
  BY <1>1
<1> QED
  BY <1>1, <1>2, <1>5, <1>6 DEF Base, BaseOK

\* What a history and all that was said share stays shared.
LEMMA EndGrows ==
    ASSUME NEW m \in Seq(Message), NEW all \in Seq(Message), NEW x \in Message,
           EndOf(m, all)
    PROVE  EndOf(Append(m, x), Append(all, x))
<1>1. PICK k \in Nat, n \in Nat : k = Len(m) /\ n = Len(all) /\ k <= n
  BY DEF EndOf
<1>2. PICK p, q : p = Append(m, x) /\ q = Append(all, x)
  OBVIOUS
<1>3. /\ Len(p) = k + 1 /\ p[k + 1] = x /\ \A i \in 1..k : p[i] = m[i]
      /\ Len(q) = n + 1 /\ q[n + 1] = x /\ \A i \in 1..n : q[i] = all[i]
  BY <1>1, <1>2
<1>4. ASSUME NEW i \in 2..k + 1 PROVE p[i] = q[i + (n - k)]
  <2>1. CASE i = k + 1
    <3>1. i + (n - k) = n + 1
      BY <1>1, <2>1
    <3> QED
      BY <1>3, <2>1, <3>1
  <2>2. CASE i \in 2..k
    <3>1. i + (n - k) \in 1..n /\ i \in 1..k
      BY <1>1, <2>2
    <3>2. m[i] = all[i + (n - k)]
      BY <1>1, <2>2 DEF EndOf
    <3> QED
      BY <1>3, <3>1, <3>2
  <2> QED
    BY <1>1, <2>1, <2>2
<1>5. (n + 1) - (k + 1) = n - k /\ k + 1 <= n + 1
  BY <1>1
<1> QED
  BY <1>2, <1>3, <1>4, <1>5 DEF EndOf

\* Log and history go on together.
LEMMA RebuildsOn ==
    ASSUME NEW T \in Seq(SessionEvent), NEW m \in Seq(Message),
           NEW e \in SessionEvent, NEW n \in Nat, NEW t, NEW s,
           Rebuilds(T, m, n, t, s), e.type # "compact.ended",
           n > 0 => e.type = "tool.result" /\ e.turn = t /\ e.step = s
    PROVE  /\ Rebuilds(Append(T, e),
                       IF e.type \in VisibleTypes THEN Append(m, e.message) ELSE m,
                       CASE e.type = "assistant.message" -> Len(e.message.calls)
                         [] e.type = "tool.result" /\ n > 0 -> n - 1
                         [] OTHER -> n,
                       IF e.type = "assistant.message" THEN e.turn ELSE t,
                       IF e.type = "assistant.message" THEN e.step ELSE s)
           /\ ReplayState(Append(T, e)).messages =
                IF e.type \in VisibleTypes
                THEN Append(ReplayState(T).messages, e.message)
                ELSE ReplayState(T).messages
<1>1. ReplayState(Append(T, e)) = ReplayEvent(ReplayState(T), e)
  BY ReplayAppends
<1>2. /\ Base(Append(T, e)) = Base(T)
      /\ BaseOK(Append(T, e)) <=> BaseOK(T)
      /\ Since(Append(T, e)) = ReplayEvent(Since(T), e)
  BY SinceGrows
<1>3. e.message \in Message
  BY DEF SessionEvent
<1>4. PICK n1, t1, s1_ :
        /\ n1 = CASE e.type = "assistant.message" -> Len(e.message.calls)
                  [] e.type = "tool.result" /\ n > 0 -> n - 1
                  [] OTHER -> n
        /\ t1 = IF e.type = "assistant.message" THEN e.turn ELSE t
        /\ s1_ = IF e.type = "assistant.message" THEN e.step ELSE s
  OBVIOUS
<1>5. Waits(ReplayState(T), n, t, s) /\ Waits(Since(T), n, t, s)
  BY DEF Rebuilds
<1>6. /\ Waits(ReplayEvent(ReplayState(T), e), n1, t1, s1_)
      /\ ReplayEvent(ReplayState(T), e).messages =
           IF e.type \in VisibleTypes THEN Append(ReplayState(T).messages, e.message)
           ELSE ReplayState(T).messages
  BY <1>4, <1>5, EventTaken
<1>7. /\ Waits(ReplayEvent(Since(T), e), n1, t1, s1_)
      /\ ReplayEvent(Since(T), e).messages =
           IF e.type \in VisibleTypes THEN Append(Since(T).messages, e.message)
           ELSE Since(T).messages
  BY <1>4, <1>5, EventTaken
<1>8. PICK m1 : m1 = IF e.type \in VisibleTypes THEN Append(m, e.message) ELSE m
  OBVIOUS
<1>9. m1 = Base(T) \o ReplayEvent(Since(T), e).messages
  <2>1. /\ Base(T) \in Seq(Message) /\ Since(T).messages \in Seq(Message)
        /\ m = Base(T) \o Since(T).messages
    BY <1>5 DEF Rebuilds, Waits
  <2>2. CASE e.type \in VisibleTypes
    <3>1. Append(Base(T) \o Since(T).messages, e.message)
            = Base(T) \o Append(Since(T).messages, e.message)
      BY <1>3, <2>1, AppendOfConcat
    <3> QED
      BY <1>7, <1>8, <2>1, <2>2, <3>1
  <2>3. CASE e.type \notin VisibleTypes
    BY <1>7, <1>8, <2>1, <2>3
  <2> QED
    BY <2>2, <2>3
<1>10. EndOf(m1, ReplayEvent(ReplayState(T), e).messages)
  <2>1. EndOf(m, ReplayState(T).messages) /\ ReplayState(T).messages \in Seq(Message)
    BY <1>5 DEF Rebuilds, Waits
  <2> QED
    BY <1>3, <1>6, <1>8, <2>1, EndGrows
<1>11. Rebuilds(Append(T, e), m1, n1, t1, s1_)
  BY <1>1, <1>2, <1>6, <1>7, <1>9, <1>10 DEF Rebuilds
<1> QED
  BY <1>1, <1>4, <1>6, <1>8, <1>11

\* The ids of messages: none is given out twice, and tool results have none.
TellsApart(all, last) ==
    /\ \A j, k \in GroupStarts(all) : all[j].id = all[k].id => j = k
    /\ \A j \in GroupStarts(all) : all[j].id \in 1..last
    /\ \A j \in ResultIndices(all) : all[j].id = 0

\* In such messages an id is found where it is.
LEMMA FoundByItsId ==
    ASSUME NEW all \in Seq(Message), NEW last \in Nat, TellsApart(all, last),
           NEW k \in GroupStarts(all), NEW e, e.tailStart = all[k].id
    PROVE  KeptStart(all, e) = k /\ k # 0 /\ e.tailStart # 0
<1> DEFINE I == {j \in 1..Len(all) : all[j].id = e.tailStart}
<1>1. k \in 1..Len(all) /\ all[k].id \in 1..last
  BY DEF GroupStarts, TellsApart
<1>2. ASSUME NEW j \in I PROVE j = k
  <2>1. j \in DOMAIN all
    OBVIOUS
  <2>2. j \in GroupStarts(all)
    BY <1>1, <1>2, <2>1 DEF TellsApart, ResultIndices
  <2> QED
    BY <1>2, <2>2 DEF TellsApart
<1>3. I = {k}
  BY <1>1, <1>2
<1>4. KeptStart(all, e) = IF I # {} THEN Min(I) ELSE 0
  BY DEF KeptStart, SelectInSeq
<1> HIDE DEF I
<1>5. Min(I) = k
  BY <1>1, <1>3 DEF Min
<1> QED
  BY <1>1, <1>3, <1>4, <1>5

\* What a history shares with all that was said has the same messages there.
LEMMA SharedTail ==
    ASSUME NEW m \in Seq(Message), NEW all \in Seq(Message), EndOf(m, all),
           NEW i \in 2..Len(m), NEW k, k = i + (Len(all) - Len(m))
    PROVE  /\ k \in 1..Len(all) /\ all[k] = m[i]
           /\ SubSeq(all, k, Len(all)) = SubSeq(m, i, Len(m))
<1>1. PICK n \in Nat, p \in Nat : n = Len(m) /\ p = Len(all) /\ n <= p
  BY DEF EndOf
<1>2. i \in 2..n /\ k = i + (p - n) /\ k \in 1..p /\ p - k = n - i
  BY <1>1
<1>3. PICK x : x = SubSeq(all, k, p)
  OBVIOUS
<1>4. PICK y : y = SubSeq(m, i, n)
  OBVIOUS
<1>5. /\ x \in Seq(Message) /\ Len(x) = p - k + 1
      /\ \A j \in 1..p - k + 1 : x[j] = all[k + j - 1]
  BY <1>1, <1>2, <1>3
<1>6. /\ y \in Seq(Message) /\ Len(y) = n - i + 1
      /\ \A j \in 1..n - i + 1 : y[j] = m[i + j - 1]
  BY <1>1, <1>2, <1>4
<1>7. Len(x) = Len(y)
  BY <1>2, <1>5, <1>6
<1>8. ASSUME NEW j \in 1..Len(x) PROVE x[j] = y[j]
  <2>0. j \in Int /\ 1 <= j /\ j <= p - k + 1
    BY <1>1, <1>2, <1>5
  <2>1. i + j - 1 \in 2..n /\ k + j - 1 = (i + j - 1) + (p - n)
    BY <1>1, <1>2, <2>0
  <2>2. m[i + j - 1] = all[(i + j - 1) + (p - n)]
    BY <1>1, <2>1 DEF EndOf
  <2> QED
    BY <1>2, <1>5, <1>6, <1>7, <2>1, <2>2
<1>9. x = y
  <2>1. x \in Seq(Message) /\ y \in Seq(Message)
    BY <1>5, <1>6
  <2>2. Len(x) = Len(y) /\ \A j \in 1..Len(x) : x[j] = y[j]
    BY <1>7, <1>8
  <2> QED
    BY <2>1, <2>2
<1>10. all[k] = m[i]
  BY <1>1, <1>2 DEF EndOf
<1> QED
  BY <1>1, <1>2, <1>3, <1>4, <1>9, <1>10

\* A summary and the end of the history share that end with all that was said.
LEMMA CondensedEnd ==
    ASSUME NEW m \in Seq(Message), NEW all \in Seq(Message), EndOf(m, all),
           NEW i \in 2..Len(m), NEW x \in Message
    PROVE  /\ <<x>> \o SubSeq(m, i, Len(m)) \in Seq(Message)
           /\ EndOf(<<x>> \o SubSeq(m, i, Len(m)), all)
<1>1. PICK n \in Nat, p \in Nat : n = Len(m) /\ p = Len(all) /\ n <= p
  BY DEF EndOf
<1>2. i \in 2..n
  BY <1>1
<1>3. PICK y : y = SubSeq(m, i, n)
  OBVIOUS
<1>4. /\ y \in Seq(Message) /\ Len(y) = n - i + 1
      /\ \A j \in 1..n - i + 1 : y[j] = m[i + j - 1]
  BY <1>1, <1>2, <1>3
<1>5. PICK z : z = <<x>> \o y
  OBVIOUS
<1>6. /\ <<x>> \in Seq(Message) /\ Len(<<x>>) = 1
  OBVIOUS
<1>7. /\ z \in Seq(Message) /\ Len(z) = 1 + Len(y)
      /\ \A j \in 1..Len(y) : z[1 + j] = y[j]
  BY <1>4, <1>5, <1>6, JoinedMessages
<1>8. Len(z) = n - i + 2 /\ Len(z) <= p
  BY <1>1, <1>2, <1>4, <1>7
<1>9. ASSUME NEW j \in 2..Len(z) PROVE z[j] = all[j + (p - Len(z))]
  <2>1. PICK l \in 1..Len(y) : j = 1 + l
    <3>1. j - 1 \in 1..Len(y) /\ j = 1 + (j - 1)
      BY <1>2, <1>4, <1>8
    <3> QED
      BY <3>1
  <2>2. z[j] = m[i + l - 1]
    BY <1>4, <1>7, <2>1
  <2>3. i + l - 1 \in 2..n /\ (i + l - 1) + (p - n) = j + (p - Len(z))
    BY <1>1, <1>2, <1>4, <1>8, <2>1
  <2>4. m[i + l - 1] = all[(i + l - 1) + (p - n)]
    BY <1>1, <2>3 DEF EndOf
  <2> QED
    BY <2>2, <2>3, <2>4
<1>10. EndOf(z, all)
  BY <1>1, <1>8, <1>9 DEF EndOf
<1> QED
  BY <1>1, <1>3, <1>5, <1>7, <1>10

\* A compaction that is written leaves log and history in agreement: what the
\* log, all earlier compactions ignored, shows from the recorded id on is the
\* tail that was kept.
LEMMA RebuildsCondensed ==
    ASSUME NEW T \in Seq(SessionEvent), NEW m \in Seq(Message), NEW t, NEW s,
           Rebuilds(T, m, 0, t, s), NEW e \in SessionEvent,
           e.type = "compact.ended",
           NEW last \in Nat, TellsApart(ReplayState(T).messages, last),
           NEW i \in GroupStarts(m), i > 1, e.tailStart = m[i].id
    PROVE  /\ Rebuilds(Append(T, e), <<e.message>> \o SubSeq(m, i, Len(m)), 0, t, s)
           /\ ReplayState(Append(T, e)).messages = ReplayState(T).messages
<1>1. PICK a : a = ReplayState(T)
  OBVIOUS
<1>2. /\ a.accepted /\ a.open = 0 /\ a.messages \in Seq(Message)
      /\ EndOf(m, a.messages) /\ TellsApart(a.messages, last)
  BY <1>1 DEF Rebuilds, Waits
<1>3. e.message \in Message
  BY DEF SessionEvent
<1>4. /\ ReplayState(Append(T, e)).messages = a.messages
      /\ ReplayState(Append(T, e)).accepted /\ ReplayState(Append(T, e)).open = 0
  <2>1. ReplayState(Append(T, e)) = ReplayEvent(a, e)
    BY <1>1, ReplayAppends
  <2>2. e.type \notin VisibleTypes
    BY DEF VisibleTypes
  <2> QED
    BY <1>2, <2>1, <2>2 DEF ReplayEvent, OpenAfter
<1>5. i \in 2..Len(m) /\ m[i].role # "tool"
  BY DEF GroupStarts
<1>6. PICK k : k = i + (Len(a.messages) - Len(m))
  OBVIOUS
<1>7. /\ k \in 1..Len(a.messages) /\ a.messages[k] = m[i]
      /\ SubSeq(a.messages, k, Len(a.messages)) = SubSeq(m, i, Len(m))
  <2>1. PICK all : all = a.messages
    OBVIOUS
  <2>2. all \in Seq(Message) /\ EndOf(m, all) /\ k = i + (Len(all) - Len(m))
    BY <1>2, <1>6, <2>1
  <2>3. /\ k \in 1..Len(all) /\ all[k] = m[i]
        /\ SubSeq(all, k, Len(all)) = SubSeq(m, i, Len(m))
    BY <1>5, <2>2, SharedTail
  <2> QED
    BY <2>1, <2>3
<1>8. KeptStart(a.messages, e) = k /\ k # 0
  <2>1. k \in GroupStarts(a.messages)
    BY <1>2, <1>5, <1>7 DEF GroupStarts
  <2> QED
    BY <1>2, <1>7, <2>1, FoundByItsId
<1>9. PICK z : z = <<e.message>> \o SubSeq(m, i, Len(m))
  OBVIOUS
<1>10. z \in Seq(Message) /\ EndOf(z, a.messages)
  BY <1>2, <1>3, <1>5, <1>9, CondensedEnd
<1>11. Condensed(a, e) = z /\ Condensable(a, e)
  BY <1>2, <1>7, <1>8, <1>9 DEF Condensed, Condensable
<1>12. LatestSuccessfulCompact(Append(T, e)) = Len(T) + 1
  BY LatestCompact
<1>13. /\ SubSeq(Append(T, e), 1, (Len(T) + 1) - 1) = T
       /\ Append(T, e)[Len(T) + 1] = e
       /\ SubSeq(Append(T, e), (Len(T) + 1) + 1, Len(Append(T, e))) = <<>>
  <2>1. Len(Append(T, e)) = Len(T) + 1 /\ Len(T) \in Nat
    OBVIOUS
  <2>2. SubSeq(Append(T, e), 1, Len(T)) = T
    OBVIOUS
  <2>3. SubSeq(Append(T, e), (Len(T) + 1) + 1, Len(T) + 1) = <<>>
    OBVIOUS
  <2>4. (Len(T) + 1) - 1 = Len(T)
    BY <2>1
  <2> QED
    BY <2>1, <2>2, <2>3, <2>4
<1>14. Base(Append(T, e)) = z /\ BaseOK(Append(T, e))
  <2>1. Len(T) + 1 # 0
    OBVIOUS
  <2> QED
    BY <1>1, <1>11, <1>12, <1>13, <2>1 DEF Base, BaseOK
<1>15. Since(Append(T, e)) = StartOfReplay
  BY <1>12, <1>13, ReplayBegins DEF Since
<1>16. /\ StartOfReplay.accepted /\ StartOfReplay.messages = <<>>
       /\ StartOfReplay.open = 0 /\ <<>> \in Seq(Message)
  BY DEF StartOfReplay
<1>17. z = z \o <<>>
  BY <1>10
<1>18. Waits(ReplayState(Append(T, e)), 0, t, s) /\ Waits(Since(Append(T, e)), 0, t, s)
  BY <1>2, <1>4, <1>15, <1>16 DEF Waits
<1>19. Rebuilds(Append(T, e), z, 0, t, s)
  BY <1>4, <1>10, <1>14, <1>15, <1>16, <1>17, <1>18 DEF Rebuilds
<1> QED
  BY <1>1, <1>4, <1>9, <1>19

\* A log to which nothing is missing is replayed to the history it stands for.
LEMMA RebuiltIsReplayed ==
    ASSUME NEW T \in Seq(SessionEvent), NEW m \in Seq(Message), NEW t, NEW s,
           Rebuilds(T, m, 0, t, s), Paired(m)
    PROVE  MessagesFromEvents(T) = [accepted |-> TRUE, messages |-> m]
<1>1. PICK c : c = LatestSuccessfulCompact(T)
  OBVIOUS
<1>2. Projects(m)
  BY ProjectsIsPaired
<1>3. /\ Since(T).accepted /\ Since(T).open = 0 /\ Since(T).messages \in Seq(Message)
      /\ m = Base(T) \o Since(T).messages
  BY DEF Rebuilds, Waits
<1>4. \A r, a : [accepted |-> a, messages |-> r].messages = r
  OBVIOUS
<1>5. PICK all : all = IF c = 0 THEN MessagesFromVisibleEvents(T)
                       ELSE MessagesAfterCompact(T, c)
  OBVIOUS
<1>6. all = [accepted |-> TRUE, messages |-> m]
  <2>1. CASE c = 0
    <3>1. SubSeq(T, 0 + 1, Len(T)) = T
      OBVIOUS
    <3>2. Since(T) = ReplayState(T)
      BY <1>1, <2>1, <3>1 DEF Since
    <3>3. m = ReplayState(T).messages
      BY <1>1, <1>3, <2>1, <3>2 DEF Base
    <3> QED
      BY <1>3, <1>5, <2>1, <3>2, <3>3 DEF MessagesFromVisibleEvents, ReplayState
  <2>2. CASE c # 0
    <3>1. PICK r : r = ReplayState(SubSeq(T, 1, c - 1))
      OBVIOUS
    <3>2. PICK e : e = T[c]
      OBVIOUS
    <3>3. /\ r.accepted /\ r.open = 0
          /\ e.tailStart # NoTail => KeptStart(r.messages, e) # 0
          /\ Base(T) = Condensed(r, e)
      BY <1>1, <2>2, <3>1, <3>2 DEF Rebuilds, BaseOK, Base, Condensable
    <3>4. PICK p : p = MessagesFromVisibleEvents(SubSeq(T, 1, c - 1))
      OBVIOUS
    <3>5. p.accepted /\ p.messages = r.messages
      BY <3>1, <3>3, <3>4 DEF MessagesFromVisibleEvents, ReplayState
    <3>6. PICK f : f = MessagesFromVisibleEvents(SubSeq(T, c + 1, Len(T)))
      OBVIOUS
    <3>7. f.accepted /\ f.messages = Since(T).messages
      BY <1>1, <1>3, <3>6 DEF MessagesFromVisibleEvents, ReplayState, Since
    <3>8. PICK l : l = KeptStart(p.messages, e)
      OBVIOUS
    <3>9. MessagesAfterCompact(T, c)
            = [accepted |-> p.accepted /\ f.accepted /\ (e.tailStart # NoTail => l # 0),
               messages |-> <<e.message>>
                              \o (IF l = 0 THEN <<>>
                                  ELSE SubSeq(p.messages, l, Len(p.messages)))
                              \o f.messages]
      <4>1. l = SelectInSeq(p.messages, LAMBDA x : x.id = T[c].tailStart)
        BY <3>2, <3>8 DEF KeptStart, SelectInSeq
      <4>2. MessagesAfterCompact(T, c)
              = [accepted |-> p.accepted /\ f.accepted
                                /\ (T[c].tailStart # NoTail => l # 0),
                 messages |-> <<T[c].message>>
                                \o (IF l = 0 THEN <<>>
                                    ELSE SubSeq(p.messages, l, Len(p.messages)))
                                \o f.messages]
        BY <3>4, <3>6, <4>1 DEF MessagesAfterCompact, SelectInSeq
      <4> QED
        BY <3>2, <4>2
    <3>10. Base(T) = <<e.message>> \o (IF l = 0 THEN <<>>
                                       ELSE SubSeq(p.messages, l, Len(p.messages)))
      BY <3>3, <3>5, <3>8 DEF Condensed
    <3>11. p.accepted /\ f.accepted /\ (e.tailStart # NoTail => l # 0)
      BY <3>3, <3>5, <3>7, <3>8
    <3>12. /\ (p.accepted /\ f.accepted /\ (e.tailStart # NoTail => l # 0)) = TRUE
           /\ m = Base(T) \o f.messages
      BY <1>3, <3>7, <3>11
    <3> QED
      BY <1>5, <2>2, <3>9, <3>10, <3>12
  <2> QED
    BY <2>1, <2>2
<1>7. MessagesFromEvents(T) = [all EXCEPT !.accepted = @ /\ Projects(all.messages)]
  BY <1>1, <1>5 DEF MessagesFromEvents
<1> QED
  BY <1>2, <1>6, <1>7
-------------------------------------------------------------------------------
(***************************************************************************)
(* The invariant, while no write has failed                                *)
(***************************************************************************)
Prompting == {"turnStarted", "userMessage"}
Stepping == StepWalk \union CompactLabels \union {"assistantMessage"}

\* All that was ever said, compactions notwithstanding.
Spoken == ReplayState(transcript).messages

\* The results the batch of o still has to log.
Awaits(o) ==
    CASE pc[o] \in {"toolCalls", "tools"} -> Len(turn[o].calls)
      [] pc[o] \in {"results", "pairingResults"} -> Len(turn[o].out)
      [] OTHER -> 0

\* An id given out for a message that has not been said yet.
Unspoken(id) == /\ id \in 1..nextId
                /\ \A j \in GroupStarts(Spoken) : Spoken[j].id # id

IdsFree(o) ==
    /\ pc[o] \in Prompting => Unspoken(turn[o].userId)
    /\ o \in UserOps /\ pc[o] \in Stepping => Unspoken(turn[o].step)

Agrees == Rebuilds(transcript, messages, 0, 0, 0)
BatchAgrees(o) == Rebuilds(transcript, messages, Awaits(o), turn[o].id, turn[o].step)

ReplayInv ==
    /\ \A o \in Ops : pc[o] \in BatchLabels => BatchAgrees(o)
    /\ (\A o \in Ops : pc[o] \notin BatchLabels) => Agrees
    /\ TellsApart(Spoken, nextId)
    /\ \A o \in Ops : IdsFree(o)

LEMMA Kinds ==
    /\ Prompting \intersect (BatchLabels \union Stepping) = {}
    /\ Stepping \intersect BatchLabels = {}
    /\ Prompting \subseteq Running /\ Stepping \subseteq Running
    /\ BatchLabels \subseteq Running
    /\ {"new", "rejected", "done", "promptHook", "stepStarted", "errorEvent",
        "stepEnded", "turnEnded", "stopHook", "commandOutput", "diagnostics"}
         \intersect (Prompting \union Stepping \union BatchLabels) = {}
  BY DEF Prompting, Stepping, StepWalk, BatchLabels, CompactLabels, TurnLabels, Running

LEMMA NothingToWaitFor ==
    ASSUME NEW T, NEW m, NEW t, NEW s, Rebuilds(T, m, 0, t, s)
    PROVE  Rebuilds(T, m, 0, 0, 0)
  BY DEF Rebuilds, Waits

LEMMA NothingSaid ==
    /\ ReplayState(<<>>) = StartOfReplay
    /\ Rebuilds(<<>>, <<>>, 0, 0, 0)
    /\ TellsApart(<<>>, 0)
<1>1. ReplayState(<<>>) = StartOfReplay
  BY ReplayBegins
<1>2. LatestSuccessfulCompact(<<>>) = 0
  BY DEF LatestSuccessfulCompact, SelectLastInSeq
<1>3. Since(<<>>) = StartOfReplay
  <2>1. SubSeq(<<>>, 0 + 1, Len(<<>>)) = <<>>
    OBVIOUS
  <2> QED
    BY <1>1, <1>2, <2>1 DEF Since
<1>4. Base(<<>>) = <<>> /\ BaseOK(<<>>)
  BY <1>2 DEF Base, BaseOK
<1>5. <<>> \in Seq(Message) /\ <<>> = <<>> \o <<>>
  OBVIOUS
<1>6. Waits(StartOfReplay, 0, 0, 0)
  BY <1>5 DEF Waits, StartOfReplay
<1>7. EndOf(<<>>, <<>>)
  BY DEF EndOf
<1>8. StartOfReplay.messages = <<>>
  BY DEF StartOfReplay
<1>9. GroupStarts(<<>>) = {} /\ ResultIndices(<<>>) = {}
  BY DEF GroupStarts, ResultIndices
<1> QED
  BY <1>1, <1>3, <1>4, <1>5, <1>6, <1>7, <1>8, <1>9 DEF Rebuilds, TellsApart

\* A message with an id of its own, or a result, keeps messages apart.
LEMMA SpeaksOn ==
    ASSUME NEW all \in Seq(Message), NEW last \in Nat, NEW later \in Nat,
           last <= later, TellsApart(all, last), NEW x \in Message,
           \/ x.role = "tool" /\ x.id = 0
           \/ /\ x.role # "tool" /\ x.id \in 1..later
              /\ \A j \in GroupStarts(all) : all[j].id # x.id
    PROVE  /\ TellsApart(Append(all, x), later)
           /\ \A j \in GroupStarts(Append(all, x)) :
                 \/ \E k \in GroupStarts(all) : Append(all, x)[j].id = all[k].id
                 \/ x.role # "tool" /\ Append(all, x)[j].id = x.id
<1>0. PICK n \in Nat : n = Len(all)
  OBVIOUS
<1>1. PICK s : n = Len(all) /\ s = Append(all, x)
  BY <1>0
<1>2. /\ DOMAIN s = 1..n + 1 /\ DOMAIN all = 1..n /\ s[n + 1] = x
      /\ \A j \in 1..n : s[j] = all[j]
  BY <1>1
<1>3. \A j \in GroupStarts(s) :
         \/ j \in GroupStarts(all) /\ s[j] = all[j]
         \/ j = n + 1 /\ s[j] = x /\ x.role # "tool"
  <2> SUFFICES ASSUME NEW j \in 1..n + 1, s[j].role # "tool"
               PROVE  \/ j \in GroupStarts(all) /\ s[j] = all[j]
                      \/ j = n + 1 /\ s[j] = x /\ x.role # "tool"
    BY <1>2 DEF GroupStarts
  <2>1. CASE j = n + 1
    BY <1>2, <2>1
  <2>2. CASE j \in 1..n
    BY <1>2, <2>2 DEF GroupStarts
  <2> QED
    BY <1>1, <2>1, <2>2
<1>4. \A j \in ResultIndices(s) :
         \/ j \in ResultIndices(all) /\ s[j] = all[j]
         \/ s[j] = x /\ x.role = "tool"
  <2> SUFFICES ASSUME NEW j \in 1..n + 1, s[j].role = "tool"
               PROVE  \/ j \in ResultIndices(all) /\ s[j] = all[j]
                      \/ s[j] = x /\ x.role = "tool"
    BY <1>2 DEF GroupStarts, ResultIndices
  <2>1. CASE j = n + 1
    BY <1>2, <2>1
  <2>2. CASE j \in 1..n
    BY <1>2, <2>2 DEF GroupStarts, ResultIndices
  <2> QED
    BY <1>1, <2>1, <2>2
<1>5. \A j \in GroupStarts(all) : all[j].id \in 1..later
  BY DEF TellsApart
<1>6. \A j, k \in GroupStarts(s) : s[j].id = s[k].id => j = k
  BY <1>3 DEF TellsApart
<1>7. \A j \in GroupStarts(s) : s[j].id \in 1..later
  BY <1>3, <1>5
<1>8. \A j \in ResultIndices(s) : s[j].id = 0
  BY <1>4 DEF TellsApart
<1>9. TellsApart(s, later)
  BY <1>6, <1>7, <1>8 DEF TellsApart
<1> QED
  BY <1>1, <1>3, <1>9

\* What has to be shown of a step of o alone.
LEMMA ReplayKept ==
    ASSUME NEW o \in Ops, Alone(o),
           pc'[o] \in BatchLabels => BatchAgrees(o)',
           pc'[o] \notin BatchLabels => Agrees',
           TellsApart(Spoken', nextId'), IdsFree(o)'
    PROVE  ReplayInv'
<1>1. \A q \in Ops \ {o} : pc'[q] \notin Running
  BY DEF Alone
<1>2. \A q \in Ops \ {o} : IdsFree(q)' /\ pc'[q] \notin BatchLabels
  BY <1>1, Kinds DEF IdsFree
<1> QED
  BY <1>2 DEF ReplayInv

\* Nothing new is said, and no batch is open: log and history still agree.
SpeaksNot(o) ==
    /\ \A q \in Ops \ {o} : pc'[q] = pc[q] /\ turn'[q] = turn[q]
    /\ pc'[o] \notin BatchLabels
    /\ messages' = messages
    /\ nextId' \in {nextId, nextId + 1}
    /\ \/ transcript' = transcript
       \/ \E e \in SessionEvent :
             /\ e.type \notin VisibleTypes \union {"compact.ended"}
             /\ transcript' = Append(transcript, e)

\* The ids o goes on with were free before or are new.
IdsGoOn(o) ==
    /\ pc'[o] \in Prompting =>
          \/ pc[o] \in Prompting /\ turn'[o].userId = turn[o].userId
          \/ nextId' = nextId + 1 /\ turn'[o].userId = nextId'
    /\ o \in UserOps /\ pc'[o] \in Stepping =>
          \/ pc[o] \in Stepping /\ turn'[o].step = turn[o].step
          \/ nextId' = nextId + 1 /\ turn'[o].step = nextId'

\* Ids that were free before or are new are free as long as nothing is said.
LEMMA FreeIdsStay ==
    ASSUME HistoryInv, ReplayInv, NEW o \in Ops, IdsGoOn(o), Spoken' = Spoken,
           nextId' \in {nextId, nextId + 1}
    PROVE  IdsFree(o)' /\ TellsApart(Spoken', nextId')
<1>1. nextId \in Nat /\ IdsFree(o) /\ TellsApart(Spoken, nextId)
  BY SessionFacts DEF ReplayInv
<1>2. TellsApart(Spoken', nextId')
  BY <1>1 DEF TellsApart
<1>3. ASSUME NEW id, Unspoken(id)
      PROVE  id \in 1..nextId' /\ \A j \in GroupStarts(Spoken) : Spoken[j].id # id
  BY <1>1, <1>3 DEF Unspoken
<1>4. ASSUME nextId' = nextId + 1
      PROVE  /\ nextId' \in 1..nextId'
             /\ \A j \in GroupStarts(Spoken) : Spoken[j].id # nextId'
  BY <1>1, <1>4 DEF TellsApart
<1>5. pc'[o] \in Prompting =>
         /\ turn'[o].userId \in 1..nextId'
         /\ \A j \in GroupStarts(Spoken) : Spoken[j].id # turn'[o].userId
  BY <1>1, <1>3, <1>4 DEF IdsGoOn, IdsFree
<1>6. o \in UserOps /\ pc'[o] \in Stepping =>
         /\ turn'[o].step \in 1..nextId'
         /\ \A j \in GroupStarts(Spoken) : Spoken[j].id # turn'[o].step
  BY <1>1, <1>3, <1>4 DEF IdsGoOn, IdsFree
<1> QED
  BY <1>2, <1>5, <1>6 DEF IdsFree, Unspoken

LEMMA NothingNew ==
    ASSUME HistoryInv, ReplayInv, NEW o \in Ops, OthersRest(o),
           pc[o] \notin BatchLabels, SpeaksNot(o), IdsGoOn(o)
    PROVE  ReplayInv'
<1>1. /\ messages \in Seq(Message) /\ transcript \in Seq(SessionEvent)
      /\ nextId \in Nat
  BY SessionFacts DEF DataOK
<1>2. Agrees /\ TellsApart(Spoken, nextId)
  BY Kinds DEF ReplayInv, OthersRest
<1>3. Agrees' /\ Spoken' = Spoken
  <2>1. CASE transcript' = transcript
    BY <1>2, <2>1 DEF SpeaksNot, Agrees, Spoken
  <2>2. ASSUME NEW e \in SessionEvent,
               e.type \notin VisibleTypes \union {"compact.ended"},
               transcript' = Append(transcript, e)
        PROVE  Agrees' /\ Spoken' = Spoken
    <3>1. /\ e.type \notin VisibleTypes /\ e.type # "compact.ended"
          /\ e.type # "assistant.message"
      BY <2>2 DEF VisibleTypes
    <3>2. 0 \in Nat /\ ~(0 > 0)
      OBVIOUS
    <3>3. /\ Rebuilds(Append(transcript, e), messages, 0, 0, 0)
          /\ ReplayState(Append(transcript, e)).messages = ReplayState(transcript).messages
      BY <1>1, <1>2, <3>1, <3>2, RebuildsOn DEF Agrees
    <3> QED
      BY <2>2, <3>3 DEF SpeaksNot, Agrees, Spoken
  <2> QED
    BY <2>1, <2>2 DEF SpeaksNot
<1>4. IdsFree(o)' /\ TellsApart(Spoken', nextId')
  BY <1>3, FreeIdsStay DEF SpeaksNot
<1>5. Alone(o)
  BY DEF Alone, OthersRest, SpeaksNot
<1> QED
  BY <1>3, <1>4, <1>5, ReplayKept DEF SpeaksNot
-------------------------------------------------------------------------------
(***************************************************************************)
(* Steps that say nothing                                                  *)
(***************************************************************************)
LEMMA NoWriteFails ==
    ASSUME HistoryInv, failures' = 0
    PROVE  \A e : ~EmitFails(e)
<1>1. failures \in Nat
  BY BoundsAssumption DEF HistoryInv, ExclusionInv, Inv, TypeOK, DataOK
<1> QED
  BY <1>1 DEF EmitFails

StaysQuiet(o) ==
    /\ \A q \in Ops \ {o} : pc'[q] = pc[q] /\ turn'[q] = turn[q]
    /\ pc'[o] \notin BatchLabels \union Prompting
    /\ pc'[o] \in Stepping /\ o \in UserOps =>
          pc[o] \in Stepping /\ turn'[o].step = turn[o].step

LEMMA MovesOnQuietly ==
    ASSUME ControlOK, NEW o \in Ops,
           \/ \E l \in {"promptHook", "stepStarted", "turnEnded", "stopHook",
                        "commandOutput"} : Goto(o, l)
           \/ pc[o] \in Stepping /\ \E l \in Stepping : Goto(o, l)
           \/ pc[o] \in Stepping /\ \E l \in Stepping : \E t :
                 GotoWith(o, l, t) /\ t.step = turn[o].step
           \/ Finish(o)
           \/ \E r : EndStep(o, r) \/ EndTurn(o, r)
           \/ StepThrows(o)
           \/ CompactionThrows(o)
    PROVE  StaysQuiet(o)
<1>1. ASSUME NEW l \in {"promptHook", "stepStarted", "turnEnded", "stopHook",
                        "commandOutput", "errorEvent"}, Goto(o, l)
      PROVE  StaysQuiet(o)
  BY <1>1, Kinds DEF Goto, ControlOK, StaysQuiet
<1>2. ASSUME pc[o] \in Stepping, NEW l \in Stepping, Goto(o, l) PROVE StaysQuiet(o)
  BY <1>2, Kinds DEF Goto, ControlOK, StaysQuiet
<1>3. ASSUME pc[o] \in Stepping, NEW l \in Stepping, NEW t, GotoWith(o, l, t),
             t.step = turn[o].step
      PROVE  StaysQuiet(o)
  BY <1>3, Kinds DEF GotoWith, ControlOK, StaysQuiet
<1>4. ASSUME Finish(o) PROVE StaysQuiet(o)
  BY <1>4, Kinds DEF Finish, ControlOK, StaysQuiet
<1>5. ASSUME NEW l \in {"stepEnded", "turnEnded"}, NEW t, GotoWith(o, l, t)
      PROVE  StaysQuiet(o)
  BY <1>5, Kinds DEF GotoWith, ControlOK, StaysQuiet
<1>6. ASSUME NEW r, EndStep(o, r) \/ EndTurn(o, r) PROVE StaysQuiet(o)
  BY <1>5, <1>6 DEF EndStep, EndTurn
<1>7. ASSUME StepThrows(o) PROVE StaysQuiet(o)
  BY <1>1, <1>6, <1>7 DEF StepThrows
<1> QED
  BY <1>1, <1>2, <1>3, <1>4, <1>6, <1>7 DEF CompactionThrows

\* A compaction begins.
LEMMA CompactionStartsQuietly ==
    ASSUME ControlOK, NEW o \in Ops, NEW t, NEW b, StartCompaction(o, t, b),
           turn'[o].step = turn[o].step, \A q \in Ops \ {o} : turn'[q] = turn[q],
           o \in UserOps => pc[o] \in Stepping
    PROVE  StaysQuiet(o)
<1>1. "compactStarted" \in Stepping
  BY DEF Stepping, CompactLabels
<1> QED
  BY <1>1, Kinds DEF StartCompaction, ControlOK, StaysQuiet

\* A compaction is over.
LEMMA CompactionReturnsQuietly ==
    ASSUME ControlOK, NEW o \in Ops, compaction[o].trigger \in Triggers,
           pc[o] \in CompactLabels,
           CompactReturnsSucceeded(o) \/ CompactReturnsFailed(o)
    PROVE  StaysQuiet(o)
<1>1. pc[o] \in Stepping /\ {"reassemble", "contextStep", "assemble"} \subseteq Stepping
  BY DEF Stepping, StepWalk
<1>2. CASE GotoWith(o, "assemble", [turn[o] EXCEPT !.attempt = @ + 1])
  <2>1. [turn[o] EXCEPT !.attempt = @ + 1].step = turn[o].step
    BY DEF ControlOK, Turn
  <2> QED
    BY <1>1, <1>2, <2>1, MovesOnQuietly
<1>3. CASE compaction[o].trigger \in {"manual", "auto"}
  BY <1>1, <1>3, MovesOnQuietly
     DEF CompactReturnsSucceeded, CompactReturnsFailed, ManualCompactReturns
<1>4. CASE compaction[o].trigger = "overflow_retry"
  BY <1>1, <1>2, <1>4, MovesOnQuietly
     DEF CompactReturnsSucceeded, CompactReturnsFailed
<1> QED
  BY <1>3, <1>4 DEF Triggers

\* A quiet step that writes nothing, or nothing visible, keeps the invariant.
LEMMA QuietStep ==
    ASSUME HistoryInv, ReplayInv, NEW o \in Ops,
           pc[o] \in Running \/ activeTurn = None, pc[o] \notin BatchLabels,
           StaysQuiet(o), messages' = messages, nextId' \in {nextId, nextId + 1},
           \/ transcript' = transcript
           \/ \E e \in SessionEvent :
                 /\ e.type \notin VisibleTypes \union {"compact.ended"}
                 /\ Emit(e)
    PROVE  ReplayInv'
<1>1. OthersRest(o)
  BY RunsAlone
<1>2. \A e : e.type \in ReplayTypes /\ Emit(e) => transcript' = Append(transcript, e)
  BY DEF Emit, Logged
<1>3. \A e \in SessionEvent : e.type \in ReplayTypes
  BY DEF SessionEvent
<1>4. SpeaksNot(o) /\ IdsGoOn(o)
  BY <1>2, <1>3, Kinds DEF SpeaksNot, IdsGoOn, StaysQuiet
<1> QED
  BY <1>1, <1>4, NothingNew

LEMMA SubmitReplay ==
    ASSUME SlashOps = {}, HistoryInv, ReplayInv, NEW o \in Ops,
           Submit(o) \/ CommandInvoked(o) \/ CommandOutput(o)
    PROVE  ReplayInv'
<1>1. /\ ControlOK /\ turn[o] \in Turn
      /\ \A q \in Ops : pc[q] = "command" => q \in SlashOps
  BY DEF HistoryInv, ExclusionInv, OnlySlashCommands, Inv, TypeOK, ControlOK
<1>2. CASE Reject(o)
  <2>1. /\ pc[o] = "new" /\ pc'[o] = "rejected"
        /\ \A q \in Ops \ {o} : pc'[q] = pc[q]
        /\ UNCHANGED <<messages, transcript, turn, nextId>>
    BY <1>1, <1>2 DEF Reject, Goto, history, log, ControlOK
  <2>2. /\ pc[o] \notin BatchLabels /\ pc'[o] \notin BatchLabels
        /\ pc'[o] \notin Prompting \union Stepping
    BY <2>1, Kinds
  <2>3. \A q \in Ops : IdsFree(q)'
    BY <2>1, <2>2 DEF ReplayInv, IdsFree, Unspoken, Spoken
  <2>4. \A q \in Ops : (pc'[q] \in BatchLabels) <=> (pc[q] \in BatchLabels)
    BY <2>1, <2>2
  <2>5. \A q \in Ops : pc'[q] \in BatchLabels => BatchAgrees(q)'
    BY <2>1, <2>2 DEF ReplayInv, BatchAgrees, Awaits
  <2> QED
    BY <2>1, <2>3, <2>4, <2>5 DEF ReplayInv, Agrees, Spoken
<1>3. CASE SubmitUser(o)
  <2>1. /\ pc'[o] = "promptHook"
        /\ \A q \in Ops \ {o} : pc'[q] = pc[q] /\ turn'[q] = turn[q]
        /\ messages' = messages /\ transcript' = transcript /\ nextId' = nextId + 1
        /\ pc[o] = "new" /\ activeTurn = None
    BY <1>1, <1>3 DEF SubmitUser, history, log, ControlOK
  <2>2. StaysQuiet(o) /\ pc[o] \notin BatchLabels
    BY <2>1, Kinds DEF StaysQuiet
  <2> QED
    BY <2>1, <2>2, QuietStep
<1>4. CASE SubmitCompact(o)
  <2>1. /\ pc[o] = "new" /\ activeTurn = None /\ o \notin UserOps
        /\ turn' = turn /\ messages' = messages /\ transcript' = transcript
        /\ nextId' = nextId + 1
    BY <1>4, OpsAssumption DEF SubmitCompact, StartCompaction, history, log
  <2>2. pc[o] \notin BatchLabels
    BY <2>1, Kinds
  <2>3. StaysQuiet(o)
    BY <1>1, <1>4, <2>1, CompactionStartsQuietly DEF SubmitCompact
  <2> QED
    BY <2>1, <2>2, <2>3, QuietStep
<1>5. CASE CommandOutput(o)
  <2>1. pc[o] \in Running /\ pc[o] \notin BatchLabels
    BY <1>5, Kinds DEF CommandOutput, Running
  <2>2. StaysQuiet(o)
    BY <1>1, <1>5, MovesOnQuietly DEF CommandOutput
  <2> QED
    BY <1>5, <2>1, <2>2, QuietStep DEF CommandOutput, history, log
<1>6. ~SubmitSlash(o) /\ ~CommandInvoked(o)
  BY <1>1 DEF SubmitSlash, CommandInvoked
<1> QED
  BY <1>2, <1>3, <1>4, <1>5, <1>6 DEF Submit
-------------------------------------------------------------------------------
(***************************************************************************)
(* Compactions and provider steps                                          *)
(***************************************************************************)
\* The summary takes the place of what it sums up, in the log by the id of the
\* first message that is kept.
LEMMA CompactEndedReplay ==
    ASSUME HistoryInv, ReplayInv, failures' = 0, NEW o \in Ops, CompactEnded(o)
    PROVE  ReplayInv'
<1>1. /\ ControlOK /\ messages \in Seq(Message) /\ transcript \in Seq(SessionEvent)
      /\ compaction[o].trigger \in Triggers /\ compaction[o].id \in Nat
      /\ nextId \in Nat /\ nextId' = nextId
  BY SessionFacts DEF DataOK, CompactEnded
<1>2. pc[o] = "compactEnded" /\ pc[o] \in CompactLabels /\ pc[o] \notin BatchLabels
      /\ OthersRest(o)
  <2>1. pc[o] = "compactEnded" /\ pc[o] \in CompactLabels
    BY DEF CompactEnded, CompactLabels
  <2> QED
    BY <2>1, Labelled, RunsAlone
<1>3. Paired(messages) /\ Agrees /\ TellsApart(Spoken, nextId)
  BY <1>2, PairedNow, Kinds DEF OthersRest, ReplayInv
<1>4. PICK m : m = messages
  OBVIOUS
<1>5. PICK i : i = TailStart(m, RecentTail)
  OBVIOUS
<1>6. m \in Seq(Message) /\ compaction[o].snapshot = m /\ i > 1
  BY <1>1, <1>2, <1>4, <1>5 DEF HistoryInv, OpHistory, CompactHistory
<1>7. i \in GroupStarts(m)
  <2>1. m # <<>>
    <3>1. SUFFICES ASSUME m = <<>> PROVE FALSE
      OBVIOUS
    <3>2. i = 1
      <4>1. DOMAIN m = {} /\ GroupStarts(m) = {}
        BY <3>1 DEF GroupStarts
      <4> QED
        BY <1>5, <4>1 DEF TailStart
    <3> QED
      BY <1>6, <3>2
  <2> QED
    BY <1>3, <1>4, <1>5, <1>6, <2>1, TailStartIsGroup, BoundsAssumption
<1>8. PICK tail : tail = SubSeq(m, i, Len(m))
  OBVIOUS
<1>9. tail = KeptTail(compaction[o].snapshot, RecentTail) /\ Head(tail) = m[i]
      /\ m[i].id \in Nat
  <2>1. i \in 1..Len(m)
    BY <1>7 DEF GroupStarts
  <2>2. tail = KeptTail(m, RecentTail)
    BY <1>5, <1>8 DEF KeptTail
  <2>3. Head(tail) = m[i]
    BY <1>6, <1>8, <2>1
  <2>4. m[i] \in Message
    BY <1>6, <2>1
  <2> QED
    BY <1>6, <2>2, <2>3, <2>4 DEF Message
<1>10. PICK e : e = CompactSucceeded(UserMessage(compaction[o].id), m[i].id)
  OBVIOUS
<1>11. UserMessage(compaction[o].id) \in Message
  <2>1. <<>> \in Seq(CallId)
    OBVIOUS
  <2> QED
    BY <1>1, <2>1, MessageTypes
<1>12. /\ e \in SessionEvent /\ e.type = "compact.ended"
       /\ e.tailStart = m[i].id /\ e.message = UserMessage(compaction[o].id)
  <2>1. "compact.ended" \in ReplayTypes
    BY DEF ReplayTypes
  <2>2. e \in SessionEvent
    BY <1>1, <1>9, <1>10, <1>11, <2>1, EventTypes
  <2> QED
    BY <1>10, <2>2 DEF CompactSucceeded
<1>13. /\ Emit(e) /\ messages' = <<e.message>> \o tail
       /\ CompactReturnsSucceeded(o)
  BY <1>6, <1>9, <1>10, <1>12, NoWriteFails DEF CompactEnded
<1>14. transcript' = Append(transcript, e)
  BY <1>12, <1>13 DEF Emit, Logged, SessionEvent
<1>15. /\ Rebuilds(Append(transcript, e), <<e.message>> \o SubSeq(m, i, Len(m)), 0, 0, 0)
       /\ ReplayState(Append(transcript, e)).messages = ReplayState(transcript).messages
  <2>1. /\ Rebuilds(transcript, m, 0, 0, 0)
        /\ TellsApart(ReplayState(transcript).messages, nextId)
    BY <1>3, <1>4 DEF Agrees, Spoken
  <2> QED
    BY <1>1, <1>6, <1>7, <1>12, <2>1, RebuildsCondensed
<1>16. Agrees' /\ Spoken' = Spoken
  BY <1>8, <1>13, <1>14, <1>15 DEF Agrees, Spoken
<1>17. StaysQuiet(o)
  BY <1>1, <1>2, <1>13, CompactionReturnsQuietly
<1>18. IdsGoOn(o) /\ Alone(o) /\ pc'[o] \notin BatchLabels
  BY <1>2, <1>17 DEF IdsGoOn, StaysQuiet, Alone, OthersRest
<1>19. IdsFree(o)' /\ TellsApart(Spoken', nextId')
  BY <1>1, <1>16, <1>18, FreeIdsStay
<1> QED
  BY <1>16, <1>18, <1>19, ReplayKept

LEMMA CompactReplay ==
    ASSUME HistoryInv, ReplayInv, failures' = 0, NEW o \in Ops, Compact(o)
    PROVE  ReplayInv'
<1>1. ControlOK /\ compaction[o].trigger \in Triggers
  BY SessionFacts
<1>2. /\ pc[o] \in CompactLabels /\ pc[o] \notin BatchLabels /\ pc[o] \in Running
      /\ pc[o] \in Stepping
      /\ {"summarize", "compactEnded", "compactFailed"} \subseteq Stepping
  <2>1. pc[o] \in CompactLabels
    BY DEF Compact, CompactStarted, Summarize, CompactEnded, CompactFailed, CompactLabels
  <2> QED
    BY <2>1, Labelled DEF Stepping, CompactLabels
<1>3. ASSUME StaysQuiet(o), UNCHANGED <<messages, transcript, nextId>>
      PROVE  ReplayInv'
  BY <1>2, <1>3, QuietStep
<1>4. CASE CompactStarted(o)
  <2>1. \E l \in Stepping : Goto(o, l)
    BY <1>2, <1>4, NoWriteFails DEF CompactStarted
  <2>2. StaysQuiet(o)
    BY <1>1, <1>2, <2>1, MovesOnQuietly
  <2> QED
    BY <1>3, <1>4, <2>2, NoWriteFails DEF CompactStarted, history, log
<1>5. CASE Summarize(o)
  <2>1. StaysQuiet(o)
    BY <1>1, <1>2, <1>5, MovesOnQuietly DEF Summarize
  <2> QED
    BY <1>3, <1>5, <2>1 DEF Summarize, history, log
<1>6. CASE CompactFailed(o)
  <2>1. CompactReturnsFailed(o) /\ UNCHANGED log
    BY <1>6, NoWriteFails DEF CompactFailed
  <2>2. StaysQuiet(o)
    BY <1>1, <1>2, <2>1, CompactionReturnsQuietly
  <2> QED
    BY <1>3, <1>6, <2>1, <2>2 DEF CompactFailed, log
<1> QED
  BY <1>4, <1>5, <1>6, CompactEndedReplay DEF Compact

LEMMA ProviderStepReplay ==
    ASSUME HistoryInv, ReplayInv, failures' = 0, NEW o \in UserOps, ProviderStep(o)
    PROVE  ReplayInv'
<1>1. o \in Ops /\ ControlOK /\ turn[o] \in Turn
  <2>1. o \in Ops
    BY DEF Ops
  <2> QED
    BY <2>1, SessionFacts
<1>2. /\ pc[o] \in StepWalk /\ pc[o] \notin BatchLabels /\ pc[o] \in Running
      /\ pc[o] \in Stepping
      /\ {"contextStep", "provider", "backoff", "assemble", "assistantMessage"}
            \subseteq Stepping
  <2>1. pc[o] \in StepWalk
    BY DEF ProviderStep, AutoCompact, Assembled, AssembleThrows, ContextStep,
           ProviderAborts, ProviderAnswers, ProviderFails, ProviderRetries,
           BackoffEnds, ProviderOverflows, StepWalk
  <2> QED
    BY <2>1, Labelled DEF Stepping, StepWalk
<1>3. /\ messages' = messages /\ transcript' = transcript
      /\ nextId' \in {nextId, nextId + 1}
  BY NoWriteFails
     DEF ProviderStep, AutoCompact, Assembled, AssembleThrows, ContextStep,
         ProviderAborts, ProviderAnswers, ProviderFails, ProviderRetries,
         BackoffEnds, ProviderOverflows, StartCompaction, history, log
<1>4. CASE AutoCompact(o)
  BY <1>1, <1>2, <1>3, <1>4, CompactionStartsQuietly, QuietStep DEF AutoCompact
<1>5. CASE ProviderOverflows(o)
  <2>1. turn'[o].step = turn[o].step /\ \A q \in Ops \ {o} : turn'[q] = turn[q]
    BY <1>1, <1>5 DEF ProviderOverflows, ControlOK, Turn
  <2> QED
    BY <1>1, <1>2, <1>3, <1>5, <2>1, CompactionStartsQuietly, QuietStep
       DEF ProviderOverflows
<1>6. CASE Assembled(o) \/ AssembleThrows(o) \/ ContextStep(o)
  <2>1. StaysQuiet(o)
    BY <1>1, <1>2, <1>6, MovesOnQuietly DEF Assembled, AssembleThrows, ContextStep
  <2> QED
    BY <1>1, <1>2, <1>3, <2>1, QuietStep
<1>7. CASE ProviderAborts(o) \/ ProviderFails(o) \/ ProviderRetries(o)
  <2>1. StaysQuiet(o)
    BY <1>1, <1>2, <1>7, MovesOnQuietly
       DEF ProviderAborts, ProviderFails, ProviderRetries
  <2> QED
    BY <1>1, <1>2, <1>3, <2>1, QuietStep
<1>8. CASE BackoffEnds(o)
  <2>1. [turn[o] EXCEPT !.attempt = @ + 1].step = turn[o].step
    BY <1>1 DEF Turn
  <2>2. StaysQuiet(o)
    BY <1>1, <1>2, <1>8, <2>1, MovesOnQuietly DEF BackoffEnds
  <2> QED
    BY <1>1, <1>2, <1>3, <2>2, QuietStep
<1>9. CASE ProviderAnswers(o)
  <2>1. PICK calls : GotoWith(o, "assistantMessage",
                              [turn[o] EXCEPT !.calls = calls, !.start = Len(messages)])
    BY <1>9 DEF ProviderAnswers
  <2>2. [turn[o] EXCEPT !.calls = calls, !.start = Len(messages)].step = turn[o].step
    BY <1>1 DEF Turn
  <2>3. StaysQuiet(o)
    BY <1>1, <1>2, <2>1, <2>2, MovesOnQuietly
  <2> QED
    BY <1>1, <1>2, <1>3, <2>3, QuietStep
<1> QED
  BY <1>4, <1>5, <1>6, <1>7, <1>8, <1>9 DEF ProviderStep
-------------------------------------------------------------------------------
(***************************************************************************)
(* What is said                                                            *)
(***************************************************************************)
\* A message is said under an id of its own.
LEMMA Saying ==
    ASSUME ReplayInv, DataOK, NEW e \in SessionEvent, e.type \in VisibleTypes,
           NEW n \in Nat, NEW t, NEW s, Rebuilds(transcript, messages, n, t, s),
           n > 0 => e.type = "tool.result" /\ e.turn = t /\ e.step = s,
           \/ e.message.role = "tool" /\ e.message.id = 0
           \/ e.message.role # "tool" /\ Unspoken(e.message.id),
           Emit(e), messages' = Append(messages, e.message), nextId' = nextId
    PROVE  /\ Rebuilds(transcript', messages',
                       CASE e.type = "assistant.message" -> Len(e.message.calls)
                         [] e.type = "tool.result" /\ n > 0 -> n - 1
                         [] OTHER -> n,
                       IF e.type = "assistant.message" THEN e.turn ELSE t,
                       IF e.type = "assistant.message" THEN e.step ELSE s)
           /\ TellsApart(Spoken', nextId')
<1>1. /\ messages \in Seq(Message) /\ transcript \in Seq(SessionEvent)
      /\ nextId \in Nat /\ e.message \in Message
  BY DEF DataOK, SessionEvent
<1>2. transcript' = Append(transcript, e)
  BY DEF Emit, Logged, SessionEvent
<1>3. e.type # "compact.ended"
  BY DEF VisibleTypes
<1>4. /\ Rebuilds(Append(transcript, e), Append(messages, e.message),
                  CASE e.type = "assistant.message" -> Len(e.message.calls)
                    [] e.type = "tool.result" /\ n > 0 -> n - 1
                    [] OTHER -> n,
                  IF e.type = "assistant.message" THEN e.turn ELSE t,
                  IF e.type = "assistant.message" THEN e.step ELSE s)
      /\ ReplayState(Append(transcript, e)).messages
           = Append(ReplayState(transcript).messages, e.message)
  BY <1>1, <1>3, RebuildsOn
<1>5. PICK all : all = Spoken
  OBVIOUS
<1>6. all \in Seq(Message) /\ TellsApart(all, nextId)
  BY <1>5 DEF ReplayInv, Rebuilds, Waits, Spoken
<1>7. TellsApart(Append(all, e.message), nextId)
  <2>1. \/ e.message.role = "tool" /\ e.message.id = 0
        \/ /\ e.message.role # "tool" /\ e.message.id \in 1..nextId
           /\ \A j \in GroupStarts(all) : all[j].id # e.message.id
    BY <1>5 DEF Unspoken
  <2> QED
    BY <1>1, <1>6, <2>1, SpeaksOn
<1>8. Spoken' = Append(all, e.message)
  BY <1>2, <1>4, <1>5 DEF Spoken
<1> QED
  BY <1>2, <1>4, <1>7, <1>8

LEMMA PushUserMessageReplay ==
    ASSUME HistoryInv, ReplayInv, failures' = 0, NEW o \in UserOps,
           PushUserMessage(o)
    PROVE  ReplayInv'
<1>1. o \in Ops /\ ControlOK /\ DataOK /\ turn[o].userId \in Nat /\ nextId' = nextId
  <2>1. o \in Ops
    BY DEF Ops
  <2> QED
    BY <2>1, SessionFacts DEF Turn, PushUserMessage
<1>2. /\ pc[o] = "userMessage" /\ pc[o] \in Prompting /\ pc[o] \notin BatchLabels
      /\ OthersRest(o)
  <2>1. pc[o] = "userMessage" /\ pc[o] \in Prompting
    BY DEF PushUserMessage, Prompting
  <2> QED
    BY <1>1, <2>1, Kinds, RunsAlone
<1>3. Agrees /\ Unspoken(turn[o].userId)
  BY <1>1, <1>2, Kinds DEF ReplayInv, OthersRest, IdsFree
<1>4. PICK e : e = TurnEvent(o, "user.message", UserMessage(turn[o].userId))
  OBVIOUS
<1>5. /\ e \in SessionEvent /\ e.type = "user.message"
      /\ e.message = UserMessage(turn[o].userId)
      /\ e.message.role = "user" /\ e.message.id = turn[o].userId
  <2>1. <<>> \in Seq(CallId) /\ "user.message" \in ReplayTypes
    BY DEF ReplayTypes
  <2>2. UserMessage(turn[o].userId) \in Message
    BY <1>1, <2>1, MessageTypes
  <2>3. e \in SessionEvent
    BY <1>1, <1>4, <2>1, <2>2, EventTypes
  <2> QED
    BY <1>4, <2>3 DEF TurnEvent, Event, UserMessage
<1>6. /\ Emit(e) /\ messages' = Append(messages, e.message)
      /\ Goto(o, "stepStarted") \/ \E r : EndTurn(o, r)
  BY <1>4, <1>5, NoWriteFails DEF PushUserMessage
<1>7. StaysQuiet(o)
  BY <1>1, <1>6, MovesOnQuietly
<1>8. Rebuilds(transcript', messages', 0, 0, 0) /\ TellsApart(Spoken', nextId')
  <2>1. e.type \in VisibleTypes /\ e.type # "assistant.message"
    BY <1>5 DEF VisibleTypes
  <2>2. 0 \in Nat /\ ~(0 > 0)
    OBVIOUS
  <2> QED
    BY <1>1, <1>3, <1>5, <1>6, <2>1, <2>2, Saying DEF Agrees
<1>9. Alone(o) /\ pc'[o] \notin BatchLabels /\ pc'[o] \notin Prompting
      /\ pc'[o] \notin Stepping
  BY <1>2, <1>7, Kinds DEF StaysQuiet, Alone, OthersRest
<1>10. Agrees' /\ IdsFree(o)'
  BY <1>8, <1>9 DEF IdsFree, Agrees
<1> QED
  BY <1>1, <1>8, <1>9, <1>10, ReplayKept

LEMMA PushAssistantMessageReplay ==
    ASSUME HistoryInv, ReplayInv, failures' = 0, NEW o \in UserOps,
           PushAssistantMessage(o)
    PROVE  ReplayInv'
<1>1. /\ o \in Ops /\ ControlOK /\ DataOK /\ nextId' = nextId
      /\ turn[o].step \in Nat /\ turn[o].id \in Nat /\ turn[o].calls \in Seq(CallId)
  <2>1. o \in Ops
    BY DEF Ops
  <2> QED
    BY <2>1, SessionFacts DEF Turn, PushAssistantMessage
<1>2. /\ pc[o] \in Stepping /\ pc[o] \notin BatchLabels /\ OthersRest(o)
  <2>1. pc[o] \in Stepping
    BY DEF PushAssistantMessage, Stepping
  <2> QED
    BY <1>1, <2>1, Kinds, RunsAlone
<1>3. Agrees /\ Unspoken(turn[o].step)
  BY <1>1, <1>2, Kinds DEF ReplayInv, OthersRest, IdsFree
<1>4. PICK e : e = StepEvent(o, "assistant.message",
                             AssistantMessage(turn[o].step, turn[o].calls))
  OBVIOUS
<1>5. /\ e \in SessionEvent /\ e.type = "assistant.message"
      /\ e.message = AssistantMessage(turn[o].step, turn[o].calls)
      /\ e.message.role = "assistant" /\ e.message.id = turn[o].step
      /\ e.message.calls = turn[o].calls
      /\ e.turn = turn[o].id /\ e.step = turn[o].step
  <2>1. "assistant.message" \in ReplayTypes
    BY DEF ReplayTypes
  <2>2. AssistantMessage(turn[o].step, turn[o].calls) \in Message
    BY <1>1, MessageTypes
  <2>3. e \in SessionEvent
    BY <1>1, <1>4, <2>1, <2>2, EventTypes
  <2> QED
    BY <1>4, <2>3 DEF StepEvent, Event, AssistantMessage
<1>6. /\ Emit(e) /\ messages' = Append(messages, e.message)
      /\ IF turn[o].calls = <<>> THEN EndStep(o, "assistant_message")
         ELSE Goto(o, "toolCalls")
  BY <1>4, <1>5, NoWriteFails DEF PushAssistantMessage
<1>7. /\ Rebuilds(transcript', messages', Len(turn[o].calls), turn[o].id, turn[o].step)
      /\ TellsApart(Spoken', nextId')
  <2>1. e.type \in VisibleTypes /\ 0 \in Nat /\ ~(0 > 0)
    BY <1>5 DEF VisibleTypes
  <2> QED
    BY <1>1, <1>3, <1>5, <1>6, <2>1, Saying DEF Agrees
<1>8. CASE turn[o].calls = <<>>
  <2>1. StaysQuiet(o)
    BY <1>1, <1>6, <1>8, MovesOnQuietly
  <2>2. pc'[o] = "stepEnded"
    BY <1>1, <1>6, <1>8 DEF EndStep, GotoWith, ControlOK
  <2>3. Agrees'
    BY <1>7, <1>8, NothingToWaitFor DEF Agrees
  <2>4. Alone(o) /\ pc'[o] \notin BatchLabels
    BY <1>2, <2>1 DEF StaysQuiet, Alone, OthersRest
  <2>5. IdsFree(o)'
    BY <2>2, Kinds DEF IdsFree
  <2> QED
    BY <1>1, <1>7, <2>3, <2>4, <2>5, ReplayKept
<1>9. CASE turn[o].calls # <<>>
  <2>1. /\ pc'[o] = "toolCalls" /\ turn' = turn
        /\ \A q \in Ops \ {o} : pc'[q] = pc[q] /\ turn'[q] = turn[q]
    BY <1>1, <1>6, <1>9 DEF Goto, ControlOK
  <2>2. pc'[o] \in BatchLabels /\ Awaits(o)' = Len(turn[o].calls)
    BY <2>1 DEF BatchLabels, Awaits
  <2>3. BatchAgrees(o)'
    BY <1>7, <2>1, <2>2 DEF BatchAgrees
  <2>4. Alone(o)
    BY <1>2, <2>1 DEF Alone, OthersRest
  <2>5. IdsFree(o)'
    BY <2>2, Kinds DEF IdsFree
  <2> QED
    BY <1>1, <1>7, <2>2, <2>3, <2>4, <2>5, ReplayKept
<1> QED
  BY <1>8, <1>9
\* The calls are announced and executed; log and history wait for as many
\* results as before.
LEMMA ToolsReturnReplay ==
    ASSUME HistoryInv, ReplayInv, failures' = 0, NEW o \in UserOps,
           EmitToolCalls(o) \/ ToolsAborted(o) \/ ToolsAnswer(o) \/ ToolsMispair(o)
    PROVE  ReplayInv'
<1>1. /\ pc[o] \in {"toolCalls", "tools"} /\ pc[o] \in BatchLabels
      /\ nextId' = nextId /\ transcript' = transcript
  BY NoWriteFails
     DEF EmitToolCalls, ToolsAborted, ToolsAnswer, ToolsMispair, BatchLabels, log
<1>2. /\ o \in Ops /\ ControlOK /\ turn[o] \in Turn /\ turn[o].calls \in Seq(CallId)
      /\ OthersRest(o)
  BY <1>1, BatchFacts DEF Turn
<1>3. messages' = messages
  BY ToolsLeaveHistory
<1>4. BatchAgrees(o) /\ Awaits(o) = Len(turn[o].calls) /\ TellsApart(Spoken, nextId)
  BY <1>1, <1>2 DEF ReplayInv, Awaits
<1>5. Len(ToolResults(turn[o].calls)) = Len(turn[o].calls)
  <2>1. PICK calls : calls = turn[o].calls
    OBVIOUS
  <2>2. calls \in Seq(CallId)
    BY <1>2, <2>1
  <2>3. ToolResults(calls) \in Seq(Message)
    <3>1. 0 \in Nat
      OBVIOUS
    <3> QED
      BY <2>2, <3>1, MessageTypes
  <2>4. DOMAIN ToolResults(calls) = 1..Len(calls)
    BY <2>2 DEF ToolResults
  <2>5. Len(ToolResults(calls)) = Len(calls)
    BY <2>2, <2>3, <2>4
  <2> QED
    BY <2>1, <2>5
<1>6. /\ pc'[o] \in BatchLabels /\ Awaits(o)' = Len(turn[o].calls)
      /\ turn'[o].id = turn[o].id /\ turn'[o].step = turn[o].step
      /\ \A q \in Ops \ {o} : pc'[q] = pc[q] /\ turn'[q] = turn[q]
  <2>1. CASE EmitToolCalls(o)
    <3>1. Goto(o, "tools")
      BY <2>1, NoWriteFails DEF EmitToolCalls
    <3>2. pc'[o] = "tools" /\ turn' = turn /\ \A q \in Ops \ {o} : pc'[q] = pc[q]
      BY <1>2, <3>1 DEF Goto, ControlOK
    <3> QED
      BY <3>2 DEF Awaits, BatchLabels
  <2>2. ASSUME NEW label \in {"results", "pairingResults"}, NEW b,
               ToolsReturn(o, label, b)
        PROVE  /\ pc'[o] = label
               /\ turn'[o].out = ToolResults(turn[o].calls)
               /\ turn'[o].id = turn[o].id /\ turn'[o].step = turn[o].step
               /\ \A q \in Ops \ {o} : pc'[q] = pc[q] /\ turn'[q] = turn[q]
    BY <1>2, <2>2 DEF ToolsReturn, GotoWith, ControlOK, Turn
  <2>3. CASE ToolsAborted(o) \/ ToolsAnswer(o) \/ ToolsMispair(o)
    <3>1. PICK label \in {"results", "pairingResults"} : \E b : ToolsReturn(o, label, b)
      BY <2>3 DEF ToolsAborted, ToolsAnswer, ToolsMispair
    <3>2. PICK b : ToolsReturn(o, label, b)
      BY <3>1
    <3> QED
      BY <1>5, <2>2, <3>2 DEF Awaits, BatchLabels
  <2> QED
    BY <2>1, <2>3
<1>7. BatchAgrees(o)'
  BY <1>1, <1>3, <1>4, <1>6 DEF BatchAgrees
<1>8. TellsApart(Spoken', nextId')
  BY <1>1, <1>4 DEF Spoken
<1>9. Alone(o) /\ IdsFree(o)'
  BY <1>2, <1>6, Kinds DEF Alone, OthersRest, IdsFree
<1> QED
  BY <1>2, <1>6, <1>7, <1>8, <1>9, ReplayKept

\* One result more is logged and remembered.
LEMMA PushToolResultReplay ==
    ASSUME HistoryInv, ReplayInv, failures' = 0, NEW o \in UserOps,
           PushToolResult(o)
    PROVE  ReplayInv'
<1>1. /\ pc[o] \in {"results", "pairingResults"} /\ pc[o] \in BatchLabels
      /\ nextId' = nextId
  BY DEF PushToolResult, BatchLabels
<1>2. /\ o \in Ops /\ ControlOK /\ DataOK /\ turn[o] \in Turn /\ OthersRest(o)
      /\ turn[o].step \in Nat /\ turn[o].id \in Nat
  BY <1>1, BatchFacts, SessionFacts DEF Turn
<1>3. PICK out : out = turn[o].out
  OBVIOUS
<1>4. /\ out \in Seq(Message) /\ out # <<>>
      /\ Head(out).role = "tool" /\ Head(out).id = 0
  <2>1. out \in Seq(Message)
    BY <1>2, <1>3 DEF Turn
  <2>2. PICK n \in 1..MaxCalls : \E k \in 0..n :
           k < n /\ turn[o].out = ResultsFrom(turn[o].step, n, k)
    BY <1>1, BatchFacts
  <2>3. PICK k \in 0..n : k < n /\ turn[o].out = ResultsFrom(turn[o].step, n, k)
    BY <2>2
  <2>4. n \in Nat /\ k \in 0..n - 1
    BY <2>3, CallsBounded
  <2>5. PICK step \in Nat : step = turn[o].step
    BY <1>2
  <2>6. /\ Head(ResultsFrom(step, n, k)) = ToolResult(<<step, k + 1>>)
        /\ ResultsFrom(step, n, k) # <<>>
    BY <2>4, ResultsLeft
  <2>7. out # <<>> /\ Head(out) = ToolResult(<<step, k + 1>>)
    BY <1>3, <2>3, <2>5, <2>6
  <2>8. \A c : ToolResult(c).role = "tool" /\ ToolResult(c).id = 0
    BY DEF ToolResult
  <2> QED
    BY <2>1, <2>7, <2>8
<1>5. PICK n \in Nat : n = Len(out)
  BY <1>4
<1>6. n > 0 /\ Head(out) \in Message /\ Tail(out) \in Seq(Message)
      /\ Len(Tail(out)) = n - 1 /\ (Tail(out) = <<>> <=> n - 1 = 0)
  <2>1. n > 0
    BY <1>4, <1>5
  <2>2. Head(out) = out[1] /\ out[1] \in Message
    BY <1>4, <1>5, <2>1
  <2>3. PICK rest : rest = Tail(out)
    OBVIOUS
  <2>4. rest \in Seq(Message) /\ Len(rest) = n - 1
    BY <1>4, <1>5, <2>3
  <2>5. rest = <<>> <=> Len(rest) = 0
    BY <2>4
  <2> QED
    BY <2>1, <2>2, <2>3, <2>4, <2>5
<1>7. Rebuilds(transcript, messages, n, turn[o].id, turn[o].step)
  BY <1>1, <1>2, <1>3, <1>5 DEF ReplayInv, BatchAgrees, Awaits
<1>8. PICK e : e = StepEvent(o, "tool.result", Head(out))
  OBVIOUS
<1>9. /\ e \in SessionEvent /\ e.type = "tool.result" /\ e.message = Head(out)
      /\ e.turn = turn[o].id /\ e.step = turn[o].step
  <2>1. "tool.result" \in ReplayTypes
    BY DEF ReplayTypes
  <2>2. e \in SessionEvent
    BY <1>2, <1>6, <1>8, <2>1, EventTypes
  <2> QED
    BY <1>8, <2>2 DEF StepEvent, Event
<1>10. PICK next :
         /\ Emit(e) /\ messages' = Append(messages, e.message)
         /\ GotoWith(o, next, [turn[o] EXCEPT !.out = Tail(out)])
         /\ Tail(out) # <<>> => next = pc[o]
         /\ Tail(out) = <<>> => next \in {"diagnostics", "errorEvent"}
  BY <1>3, <1>8, <1>9, NoWriteFails DEF PushToolResult
<1>11. /\ Rebuilds(transcript', messages', n - 1, turn[o].id, turn[o].step)
       /\ TellsApart(Spoken', nextId')
  <2>1. e.type \in VisibleTypes /\ e.type # "assistant.message"
    BY <1>9 DEF VisibleTypes
  <2> QED
    BY <1>1, <1>2, <1>4, <1>6, <1>7, <1>9, <1>10, <2>1, Saying
<1>12. /\ pc'[o] = next /\ turn'[o].out = Tail(out)
       /\ turn'[o].id = turn[o].id /\ turn'[o].step = turn[o].step
       /\ \A q \in Ops \ {o} : pc'[q] = pc[q] /\ turn'[q] = turn[q]
  BY <1>2, <1>10 DEF GotoWith, ControlOK, Turn
<1>13. Alone(o)
  BY <1>2, <1>12 DEF Alone, OthersRest
<1>14. CASE Tail(out) # <<>>
  <2>1. pc'[o] = pc[o] /\ pc'[o] \in BatchLabels
    BY <1>1, <1>10, <1>12, <1>14
  <2>2. Awaits(o)' = n - 1
    BY <1>1, <1>6, <1>12, <2>1 DEF Awaits
  <2>3. BatchAgrees(o)' /\ IdsFree(o)'
    BY <1>11, <1>12, <2>1, <2>2, Kinds DEF BatchAgrees, IdsFree
  <2> QED
    BY <1>2, <1>11, <1>13, <2>1, <2>3, ReplayKept
<1>15. CASE Tail(out) = <<>>
  <2>1. pc'[o] \notin BatchLabels /\ IdsFree(o)'
    BY <1>10, <1>12, <1>15, Kinds DEF IdsFree
  <2>2. Agrees'
    BY <1>6, <1>11, <1>15, NothingToWaitFor DEF Agrees
  <2> QED
    BY <1>2, <1>11, <1>13, <2>1, <2>2, ReplayKept
<1> QED
  BY <1>14, <1>15

LEMMA ToolBatchReplay ==
    ASSUME HistoryInv, ReplayInv, failures' = 0, NEW o \in UserOps, ToolBatch(o)
    PROVE  ReplayInv'
<1>1. ~ToolsCannotWrite(o)
  BY NoWriteFails DEF ToolsCannotWrite
<1>2. CASE EmitDiagnostics(o)
  <2>1. /\ pc[o] = "diagnostics" /\ nextId' = nextId
        /\ messages' = messages /\ transcript' = transcript
        /\ \E r : EndStep(o, r)
    BY <1>2, NoWriteFails DEF EmitDiagnostics, log
  <2>2. o \in Ops /\ ControlOK /\ pc[o] \in Running /\ pc[o] \notin BatchLabels
    BY <2>1, Labelled, BatchFacts
  <2>3. StaysQuiet(o)
    BY <2>1, <2>2, MovesOnQuietly
  <2> QED
    BY <2>1, <2>2, <2>3, QuietStep
<1> QED
  BY <1>1, <1>2, PushAssistantMessageReplay, ToolsReturnReplay, PushToolResultReplay
     DEF ToolBatch
-------------------------------------------------------------------------------
(***************************************************************************)
(* The rest of a turn                                                      *)
(***************************************************************************)
LEMMA TurnStartedReplay ==
    ASSUME HistoryInv, ReplayInv, failures' = 0, NEW o \in UserOps,
           TurnStarted(o)
    PROVE  ReplayInv'
<1>1. o \in Ops /\ ControlOK /\ nextId' = nextId /\ messages' = messages
  <2>1. o \in Ops
    BY DEF Ops
  <2> QED
    BY <2>1, SessionFacts DEF TurnStarted, history
<1>2. /\ pc[o] \in Prompting /\ pc[o] \notin BatchLabels /\ OthersRest(o)
  <2>1. pc[o] \in Prompting
    BY DEF TurnStarted, Prompting
  <2> QED
    BY <1>1, <2>1, Kinds, RunsAlone
<1>3. PICK e : e = TurnEvent(o, "turn.started", NoMessage)
  OBVIOUS
<1>4. /\ e \in SessionEvent /\ e.type = "turn.started"
      /\ e.type \notin VisibleTypes \union {"compact.ended"}
  <2>1. "turn.started" \in ReplayTypes
    BY DEF ReplayTypes
  <2>2. e \in SessionEvent
    BY <1>1, <1>3, <2>1, NoMessageType, EventTypes
  <2> QED
    BY <1>3, <2>2 DEF TurnEvent, Event, VisibleTypes
<1>5. transcript' = Append(transcript, e) /\ Goto(o, "userMessage")
  BY <1>3, <1>4, NoWriteFails DEF TurnStarted, Emit, Logged, SessionEvent
<1>6. /\ pc'[o] = "userMessage" /\ pc'[o] \in Prompting /\ turn' = turn
      /\ \A q \in Ops \ {o} : pc'[q] = pc[q]
  BY <1>1, <1>5 DEF Goto, ControlOK, Prompting
<1>7. pc'[o] \notin BatchLabels /\ pc'[o] \notin Stepping
  BY <1>6, Kinds
<1>8. SpeaksNot(o)
  BY <1>1, <1>4, <1>5, <1>6, <1>7 DEF SpeaksNot
<1>9. IdsGoOn(o)
  BY <1>2, <1>6, <1>7 DEF IdsGoOn
<1> QED
  BY <1>1, <1>2, <1>8, <1>9, NothingNew

\* The id of the prompt and the id of a step are new.
LEMMA NewIdReplay ==
    ASSUME HistoryInv, ReplayInv, failures' = 0, NEW o \in UserOps,
           PromptHook(o) \/ StepStarted(o)
    PROVE  ReplayInv'
<1>1. /\ o \in Ops /\ ControlOK /\ turn[o] \in Turn /\ nextId \in Nat
      /\ messages' = messages /\ transcript' = transcript
      /\ nextId' \in {nextId, nextId + 1}
  <2>1. o \in Ops
    BY DEF Ops
  <2> QED
    BY <2>1, SessionFacts, NoWriteFails DEF PromptHook, StepStarted, history, log
<1>2. /\ pc[o] \in Running /\ pc[o] \notin BatchLabels /\ OthersRest(o)
  <2>1. pc[o] \in {"promptHook", "stepStarted"}
    BY DEF PromptHook, StepStarted
  <2>2. pc[o] \in Running
    BY <2>1 DEF Running, TurnLabels
  <2> QED
    BY <1>1, <2>1, <2>2, Kinds, RunsAlone
<1>3. CASE Finish(o)
  BY <1>1, <1>2, <1>3, MovesOnQuietly, QuietStep
<1>4. CASE /\ nextId' = nextId + 1
           /\ GotoWith(o, "turnStarted", [turn[o] EXCEPT !.userId = nextId + 1])
  <2>1. /\ pc'[o] = "turnStarted" /\ turn'[o].userId = nextId'
        /\ \A q \in Ops \ {o} : pc'[q] = pc[q] /\ turn'[q] = turn[q]
    BY <1>1, <1>4 DEF GotoWith, ControlOK, Turn
  <2>2. pc'[o] \notin BatchLabels /\ pc'[o] \notin Stepping
    BY <2>1, Kinds DEF Prompting
  <2>3. SpeaksNot(o) /\ IdsGoOn(o)
    BY <1>1, <1>4, <2>1, <2>2 DEF SpeaksNot, IdsGoOn
  <2> QED
    BY <1>1, <1>2, <2>3, NothingNew
<1>5. CASE /\ nextId' = nextId + 1
           /\ GotoWith(o, "assemble",
                       [turn[o] EXCEPT !.step = nextId + 1, !.index = @ + 1,
                                       !.attempt = 1])
  <2>1. /\ pc'[o] = "assemble" /\ turn'[o].step = nextId'
        /\ \A q \in Ops \ {o} : pc'[q] = pc[q] /\ turn'[q] = turn[q]
    BY <1>1, <1>5 DEF GotoWith, ControlOK, Turn
  <2>2. pc'[o] \notin BatchLabels /\ pc'[o] \notin Prompting
    BY <2>1, Kinds DEF Stepping, StepWalk
  <2>3. SpeaksNot(o) /\ IdsGoOn(o)
    BY <1>1, <1>5, <2>1, <2>2 DEF SpeaksNot, IdsGoOn
  <2> QED
    BY <1>1, <1>2, <2>3, NothingNew
<1> QED
  BY <1>3, <1>4, <1>5, NoWriteFails DEF PromptHook, StepStarted

\* Steps and turns end.
LEMMA EndingReplay ==
    ASSUME HistoryInv, ReplayInv, failures' = 0, NEW o \in UserOps,
           ErrorEvent(o) \/ StepEnded(o) \/ TurnEnded(o) \/ StopHook(o)
    PROVE  ReplayInv'
<1>1. /\ o \in Ops /\ ControlOK /\ nextId' = nextId /\ messages' = messages
  <2>1. o \in Ops
    BY DEF Ops
  <2> QED
    BY <2>1, SessionFacts DEF ErrorEvent, StepEnded, TurnEnded, StopHook, history
<1>2. pc[o] \in Running /\ pc[o] \notin BatchLabels
  BY Kinds DEF ErrorEvent, StepEnded, TurnEnded, StopHook, Running, TurnLabels
<1>3. StaysQuiet(o)
  BY <1>1, NoWriteFails, MovesOnQuietly DEF ErrorEvent, StepEnded, TurnEnded, StopHook
<1>4. \/ transcript' = transcript
      \/ Emit(StepEvent(o, "step.ended", NoMessage))
      \/ Emit(TurnEvent(o, "turn.ended", NoMessage))
  BY NoWriteFails DEF ErrorEvent, StepEnded, TurnEnded, StopHook, log
<1>5. \A e \in {StepEvent(o, "step.ended", NoMessage), TurnEvent(o, "turn.ended", NoMessage)} :
         e \in SessionEvent /\ e.type \notin VisibleTypes \union {"compact.ended"}
  <2>1. "step.ended" \in ReplayTypes /\ "turn.ended" \in ReplayTypes
    BY DEF ReplayTypes
  <2>2. /\ StepEvent(o, "step.ended", NoMessage) \in SessionEvent
        /\ TurnEvent(o, "turn.ended", NoMessage) \in SessionEvent
    BY <1>1, <2>1, NoMessageType, EventTypes
  <2> QED
    BY <2>2 DEF StepEvent, TurnEvent, Event, VisibleTypes
<1>6. \/ transcript' = transcript
      \/ \E e \in SessionEvent :
            /\ e.type \notin VisibleTypes \union {"compact.ended"}
            /\ Emit(e)
  BY <1>4, <1>5
<1> QED
  BY <1>1, <1>2, <1>3, <1>6, QuietStep

LEMMA ReplayStep ==
    ASSUME SlashOps = {}, HistoryInv, ReplayInv, [Next]_vars, failures' = 0
    PROVE  HistoryInv' /\ ReplayInv'
<1>1. HistoryInv'
  BY HistoryStep DEF ToolCallsWritten
<1>2. ASSUME NEW o \in Ops, Submit(o) \/ Advance(o) PROVE ReplayInv'
  <2>1. CASE Submit(o) \/ CommandInvoked(o) \/ CommandOutput(o)
    BY <2>1, SubmitReplay
  <2>2. CASE Compact(o)
    BY <2>2, CompactReplay
  <2>3. CASE o \in UserOps /\ RunTurn(o)
    BY <2>3, TurnStartedReplay, NewIdReplay, EndingReplay, PushUserMessageReplay,
       ProviderStepReplay, ToolBatchReplay DEF RunTurn
  <2> QED
    BY <1>2, <2>1, <2>2, <2>3 DEF Advance
<1>3. ASSUME UNCHANGED <<messages, transcript, pc, turn, nextId>> PROVE ReplayInv'
  BY <1>3 DEF ReplayInv, BatchAgrees, Agrees, Awaits, IdsFree, Unspoken, Spoken
<1>4. ASSUME Abort \/ UNCHANGED vars PROVE ReplayInv'
  BY <1>3, <1>4 DEF Abort, vars, history, log
<1> QED
  BY <1>1, <1>2, <1>4 DEF Next, Terminated

LEMMA ReplayInit ==
    ASSUME Init
    PROVE  HistoryInv /\ ReplayInv
<1>1. /\ messages = <<>> /\ transcript = <<>> /\ nextId = 0
      /\ \A o \in Ops : pc[o] = "new"
  BY DEF Init
<1>2. Agrees /\ Spoken = <<>> /\ TellsApart(Spoken, nextId)
  BY <1>1, NothingSaid DEF Agrees, Spoken, StartOfReplay
<1>3. \A o \in Ops : pc[o] \notin BatchLabels /\ IdsFree(o)
  BY <1>1, Kinds DEF IdsFree
<1> QED
  BY <1>2, <1>3, HistoryInit DEF ReplayInv

\* Whether writes have failed so far is known; none is taken back.
LEMMA FailuresCount ==
    ASSUME failures \in 0..MaxFailures, [Next]_vars
    PROVE  failures' \in 0..MaxFailures /\ (failures' = 0 => failures = 0)
<1>1. MaxFailures \in Nat
  BY BoundsAssumption
<1>2. failures' = failures \/ (failures < MaxFailures /\ failures' = failures + 1)
  <2>1. CASE \E o \in Ops : Submit(o) \/ CommandInvoked(o) \/ CommandOutput(o)
    BY <2>1 DEF Submit, Reject, SubmitUser, SubmitCompact, SubmitSlash,
                CommandInvoked, CommandOutput, EmitFails, log
  <2>2. CASE \E o \in Ops : Compact(o)
    BY <2>2 DEF Compact, CompactStarted, Summarize, CompactEnded, CompactFailed,
                Emit, EmitFails, log
  <2>3. CASE \E o \in Ops : ProviderStep(o)
    BY <2>3 DEF ProviderStep, AutoCompact, Assembled, AssembleThrows, ContextStep,
                ProviderAborts, ProviderAnswers, ProviderFails, ProviderRetries,
                BackoffEnds, ProviderOverflows, EmitFails, log
  <2>4. CASE \E o \in Ops : ToolBatch(o)
    BY <2>4 DEF ToolBatch, PushAssistantMessage, EmitToolCalls, ToolsAborted,
                ToolsAnswer, ToolsMispair, ToolsCannotWrite, PushToolResult,
                EmitDiagnostics, Emit, EmitFails, log
  <2>5. CASE \E o \in Ops :
                \/ PromptHook(o) \/ TurnStarted(o) \/ PushUserMessage(o)
                \/ StepStarted(o) \/ ErrorEvent(o) \/ StepEnded(o) \/ TurnEnded(o)
                \/ StopHook(o)
    BY <2>5 DEF PromptHook, TurnStarted, PushUserMessage, StepStarted, ErrorEvent,
                StepEnded, TurnEnded, StopHook, Emit, EmitFails, log
  <2>6. CASE Abort \/ UNCHANGED vars
    BY <2>6 DEF Abort, vars, log
  <2> QED
    BY <2>1, <2>2, <2>3, <2>4, <2>5, <2>6 DEF Next, Advance, RunTurn, Terminated
<1> QED
  BY <1>1, <1>2

\* Between turns the invariant makes log and memory agree.
LEMMA QuietAgrees ==
    ASSUME HistoryInv, ReplayInv, \A o \in Ops : pc[o] \notin BatchLabels
    PROVE  MessagesFromEvents(transcript) = [accepted |-> TRUE, messages |-> messages]
<1>1. transcript \in Seq(SessionEvent) /\ messages \in Seq(Message)
  BY DEF HistoryInv, ExclusionInv, Inv, TypeOK, DataOK
<1>2. Paired(messages)
  BY Labelled DEF HistoryInv, HistoryPaired
<1>3. Rebuilds(transcript, messages, 0, 0, 0)
  BY DEF ReplayInv, Agrees
<1> QED
  BY <1>1, <1>2, <1>3, RebuiltIsReplayed

\* As long as no write has failed, the log replays to the very history in memory
\* whenever no turn runs: no interleaving of turns, compactions, retries and
\* aborts makes a resumed session remember anything else.
THEOREM ReplayIsMemory ==
    ASSUME SlashOps = {}
    PROVE  Spec => []ReplayMatchesMemory
<1> DEFINE RInv == /\ failures \in 0..MaxFailures
                   /\ failures = 0 => HistoryInv /\ ReplayInv
<1>1. Init => RInv
  <2>1. MaxFailures \in Nat
    BY BoundsAssumption
  <2> QED
    BY <2>1, ReplayInit DEF Init
<1>2. RInv /\ [Next]_vars => RInv'
  <2> SUFFICES ASSUME RInv, [Next]_vars PROVE RInv'
    OBVIOUS
  <2>1. failures' \in 0..MaxFailures /\ (failures' = 0 => failures = 0)
    BY FailuresCount
  <2>2. failures' = 0 => HistoryInv' /\ ReplayInv'
    BY <2>1, ReplayStep
  <2> QED
    BY <2>1, <2>2
<1>3. RInv => ReplayMatchesMemory
  <2> SUFFICES ASSUME RInv, Quiet, failures = 0
               PROVE  MessagesFromEvents(transcript)
                        = [accepted |-> TRUE, messages |-> messages]
    BY DEF ReplayMatchesMemory
  <2>1. \A o \in Ops : pc[o] \notin BatchLabels
    BY Kinds DEF Quiet
  <2> QED
    BY <2>1, QuietAgrees
<1> QED
  BY <1>1, <1>2, <1>3, PTL DEF Spec
-------------------------------------------------------------------------------
(***************************************************************************)
(* Lifetimes                                                               *)
(***************************************************************************)
\* A log to which results are missing is refused.
LEMMA OpenIsRefused ==
    ASSUME NEW T \in Seq(SessionEvent), NEW m, NEW n \in Nat, NEW t, NEW s,
           Rebuilds(T, m, n, t, s), n > 0
    PROVE  ~MessagesFromEvents(T).accepted
<1>1. PICK c : c = LatestSuccessfulCompact(T)
  OBVIOUS
<1>2. Since(T).open # 0
  BY DEF Rebuilds, Waits
<1>3. \A a, r : [accepted |-> a, messages |-> r].accepted = a
  OBVIOUS
<1>4. PICK all : all = IF c = 0 THEN MessagesFromVisibleEvents(T)
                       ELSE MessagesAfterCompact(T, c)
  OBVIOUS
<1>5. (\E a, r : all = [accepted |-> a, messages |-> r]) /\ ~all.accepted
  <2>1. CASE c = 0
    <3>1. SubSeq(T, 0 + 1, Len(T)) = T
      OBVIOUS
    <3>2. Since(T) = ReplayState(T)
      BY <1>1, <2>1, <3>1 DEF Since
    <3>3. all = [accepted |-> Since(T).accepted /\ Since(T).open = 0,
                 messages |-> Since(T).messages]
      BY <1>4, <2>1, <3>2 DEF MessagesFromVisibleEvents, ReplayState
    <3>4. ~all.accepted
      BY <1>2, <3>3
    <3> QED
      BY <3>3, <3>4, Zenon
  <2>2. CASE c # 0
    <3>1. PICK f : f = MessagesFromVisibleEvents(SubSeq(T, c + 1, Len(T)))
      OBVIOUS
    <3>2. ~f.accepted
      BY <1>1, <1>2, <3>1 DEF MessagesFromVisibleEvents, ReplayState, Since
    <3>3. PICK a, r : /\ MessagesAfterCompact(T, c) = [accepted |-> a, messages |-> r]
                      /\ a => f.accepted
      BY <3>1 DEF MessagesAfterCompact
    <3>4. all = [accepted |-> a, messages |-> r] /\ ~a
      BY <1>4, <2>2, <3>2, <3>3
    <3>5. all.accepted = a
      BY <3>4
    <3> QED
      BY <3>4, <3>5, Zenon
  <2> QED
    BY <2>1, <2>2
<1>6. MessagesFromEvents(T) = [all EXCEPT !.accepted = @ /\ Projects(all.messages)]
  BY <1>1, <1>4 DEF MessagesFromEvents
<1> QED
  BY <1>5, <1>6

LEMMA CrashReplay ==
    ASSUME HistoryInv, ReplayInv, CrashAndResume
    PROVE  /\ (\A o \in Ops : pc[o] \notin BatchLabels) =>
                 resumable' = TRUE /\ messages' = messages
           /\ resumable' => HistoryInv' /\ ReplayInv'
<1>1. /\ transcript \in Seq(SessionEvent) /\ messages \in Seq(Message)
      /\ nextId \in Nat /\ TypeOK
  BY DEF HistoryInv, ExclusionInv, Inv, TypeOK, DataOK
<1>2. /\ resumable' = MessagesFromEvents(transcript).accepted
      /\ resumable' => messages' = MessagesFromEvents(transcript).messages
      /\ activeTurn' = None /\ aborted' = {} /\ autoCompactFailures' = 0
      /\ turn' = [o \in Ops |-> NoTurn] /\ compaction' = [o \in Ops |-> NoCompaction]
      /\ pc' = [o \in Ops |-> IF pc[o] = "new" THEN "new" ELSE
                              IF pc[o] = "rejected" THEN "rejected" ELSE "done"]
      /\ UNCHANGED <<transcript, nextId, failures>>
  BY DEF CrashAndResume
<1>3. ASSUME NEW o \in Ops, pc[o] \in BatchLabels PROVE ~resumable'
  <2>1. BatchAgrees(o) /\ LocalsSet(o) /\ turn[o] \in Turn
    BY <1>3, SessionFacts DEF ReplayInv
  <2>2. turn[o].calls \in Seq(CallId) /\ turn[o].out \in Seq(Message)
    BY <2>1 DEF Turn
  <2>3. CASE pc[o] \in {"toolCalls", "tools"}
    <3>1. Awaits(o) = Len(turn[o].calls) /\ turn[o].calls # <<>>
      BY <2>1, <2>3 DEF LocalsSet, Awaits
    <3>2. Awaits(o) \in Nat /\ Awaits(o) > 0
      BY <2>2, <3>1
    <3> QED
      BY <1>1, <1>2, <2>1, <3>2, OpenIsRefused DEF BatchAgrees
  <2>4. CASE pc[o] \in {"results", "pairingResults"}
    <3>1. Awaits(o) = Len(turn[o].out) /\ turn[o].out # <<>>
      BY <2>1, <2>4 DEF LocalsSet, Awaits
    <3>2. Awaits(o) \in Nat /\ Awaits(o) > 0
      BY <2>2, <3>1
    <3> QED
      BY <1>1, <1>2, <2>1, <3>2, OpenIsRefused DEF BatchAgrees
  <2> QED
    BY <1>3, <2>3, <2>4 DEF BatchLabels
<1>4. ASSUME \A o \in Ops : pc[o] \notin BatchLabels
      PROVE  resumable' = TRUE /\ messages' = messages
  <2>1. MessagesFromEvents(transcript) = [accepted |-> TRUE, messages |-> messages]
    BY <1>4, QuietAgrees
  <2> QED
    BY <1>2, <2>1
<1>5. ASSUME resumable' PROVE HistoryInv' /\ ReplayInv'
  <2>1. \A o \in Ops : pc[o] \notin BatchLabels
    BY <1>3, <1>5
  <2>2. messages' = messages /\ Paired(messages) /\ Agrees
    BY <1>4, <2>1, Labelled DEF HistoryInv, HistoryPaired, ReplayInv
  <2>3. ASSUME NEW o \in Ops
        PROVE  /\ pc'[o] \in {"new", "rejected", "done"}
               /\ turn'[o] = NoTurn /\ compaction'[o] = NoCompaction
    BY <1>2
  <2>4. ASSUME NEW o \in Ops
        PROVE  /\ pc'[o] \in Labels /\ pc'[o] \notin Running /\ pc'[o] # "command"
               /\ pc'[o] \in Elsewhere
               /\ pc'[o] \notin {"results", "pairingResults", "toolCalls", "tools",
                                 "summarize", "compactEnded"}
    BY <2>3, Labelled DEF Labels, Finished, Running, TurnLabels, CompactLabels
  <2>5. TypeOK'
    <3>1. ControlOK'
      <4>1. pc' \in [Ops -> Labels]
        BY <1>2, <2>4
      <4>2. turn' \in [Ops -> Turn]
        BY <1>2, NoTurnType
      <4> QED
        BY <1>2, <4>1, <4>2 DEF ControlOK
    <3>2. DataOK'
      <4>1. compaction' \in [Ops -> Compaction]
        BY <1>2, NoCompactionType
      <4> QED
        BY <1>1, <1>2, <2>2, <4>1 DEF TypeOK, DataOK
    <3> QED
      BY <3>1, <3>2 DEF TypeOK
  <2>6. ExclusionInv'
    <3>1. \A o \in Ops : LocalsSet(o)'
      BY <2>4 DEF LocalsSet
    <3>2. RunnerIsActive' /\ OnlySlashCommands'
      BY <2>4 DEF RunnerIsActive, OnlySlashCommands
    <3> QED
      BY <2>5, <3>1, <3>2 DEF ExclusionInv, Inv
  <2>7. HistoryInv'
    <3>1. \A o \in Ops : OpHistory(o)'
      BY <2>4, Labelled
         DEF OpHistory, CompactHistory, StepHistory, AnswerHistory, BatchHistory
    <3>2. \A o \in Ops : turn'[o].step <= nextId'
      BY <1>1, <1>2, <2>3 DEF NoTurn
    <3>3. StepsBelow(messages, nextId)'
      BY <1>2, <2>2 DEF HistoryInv, StepsBelow
    <3>4. HistoryPaired'
      BY <2>2 DEF HistoryPaired
    <3> QED
      BY <2>6, <3>1, <3>2, <3>3, <3>4 DEF HistoryInv
  <2>8. ReplayInv'
    <3>1. \A o \in Ops : pc'[o] \notin BatchLabels /\ IdsFree(o)'
      BY <2>4, Kinds DEF IdsFree
    <3>2. Agrees'
      BY <1>2, <2>2 DEF Agrees
    <3>3. TellsApart(Spoken, nextId)'
      BY <1>2 DEF ReplayInv, Spoken, TellsApart
    <3> QED
      BY <3>1, <3>2, <3>3 DEF ReplayInv
  <2> QED
    BY <2>7, <2>8
<1> QED
  BY <1>4, <1>5

\* The invariant of all lifetimes, until a write fails or a log is refused.
LifeInv ==
    /\ failures \in 0..MaxFailures
    /\ resumable /\ failures = 0 => HistoryInv /\ ReplayInv

LEMMA LifeInit == LInit => LifeInv
<1>1. MaxFailures \in Nat
  BY BoundsAssumption
<1> QED
  BY <1>1, ReplayInit DEF LInit, Init, LifeInv

LEMMA LifeStep ==
    ASSUME SlashOps = {}, LifeInv, [LNext]_lifetimeVars
    PROVE  LifeInv'
<1>1. CASE ((Next /\ resumable) \/ UNCHANGED vars) /\ UNCHANGED resumable
  <2>1. failures' \in 0..MaxFailures /\ (failures' = 0 => failures = 0)
    BY <1>1, FailuresCount DEF LifeInv
  <2>2. resumable' /\ failures' = 0 => HistoryInv' /\ ReplayInv'
    BY <1>1, <2>1, ReplayStep DEF LifeInv
  <2> QED
    BY <2>1, <2>2 DEF LifeInv
<1>2. CASE CrashAndResume
  <2>1. resumable /\ failures' = failures
    BY <1>2 DEF CrashAndResume
  <2> QED
    BY <1>2, <2>1, CrashReplay DEF LifeInv
<1> QED
  BY <1>1, <1>2 DEF LNext, lifetimeVars

\* The same over any number of processes that die: a session resumed from its
\* log holds, between turns, just what the log it goes on with replays to.
THEOREM ResumedIsMemory ==
    ASSUME SlashOps = {}
    PROVE  LSpec => []ResumedMatchesLog
<1>1. LInit => LifeInv
  BY LifeInit
<1>2. LifeInv /\ [LNext]_lifetimeVars => LifeInv'
  BY LifeStep
<1>3. LifeInv => ResumedMatchesLog
  <2> SUFFICES ASSUME LifeInv, resumable, Quiet, failures = 0
               PROVE  MessagesFromEvents(transcript)
                        = [accepted |-> TRUE, messages |-> messages]
    BY DEF ResumedMatchesLog, ReplayMatchesMemory
  <2>1. \A o \in Ops : pc[o] \notin BatchLabels
    BY Kinds DEF Quiet
  <2> QED
    BY <2>1, QuietAgrees DEF LifeInv
<1> QED
  BY <1>1, <1>2, <1>3, PTL DEF LSpec

\* A crash at any await, tool batches apart, loses no message: where no write
\* fails, the log is accepted and the resumed session remembers all of it.
THEOREM CrashLosesNothing ==
    ASSUME SlashOps = {}, MaxFailures = 0
    PROVE  LSpec => CrashOutsideBatchLosesNothing
<1>1. LInit => LifeInv
  BY LifeInit
<1>2. LifeInv /\ [LNext]_lifetimeVars => LifeInv'
  BY LifeStep
<1>3. LifeInv =>
        (CrashAndResume /\ (\A o \in Ops : ~MidBatch(o)) =>
            resumable' /\ messages' = messages)
  <2> SUFFICES ASSUME LifeInv, CrashAndResume, \A o \in Ops : ~MidBatch(o)
               PROVE  resumable' /\ messages' = messages
    OBVIOUS
  <2>1. resumable /\ failures = 0
    BY DEF LifeInv, CrashAndResume
  <2>2. \A o \in Ops : pc[o] \notin BatchLabels
    BY DEF MidBatch, BatchLabels
  <2> QED
    BY <2>1, <2>2, CrashReplay DEF LifeInv
<1> QED
  BY <1>1, <1>2, <1>3, PTL DEF LSpec, CrashOutsideBatchLosesNothing
===============================================================================
