--------------------------- MODULE Projection_proofs ---------------------------
(***************************************************************************)
(* Facts about histories - pairing, cutting and joining - and about sets   *)
(* of numbers that the proofs rest on; and that compaction cuts a history  *)
(* between its groups.                                                     *)
(***************************************************************************)
EXTENDS Histories, Integers, Sequences, WellFoundedInduction, TLAPS

\* A non-empty set of natural numbers has a least element.
LEMMA NatSetHasMinimum ==
    ASSUME NEW T, T \subseteq Nat, T # {}
    PROVE  \E d \in T : \A e \in T : d <= e
<1> DEFINE R == {ss \in Nat \X Nat : ss[1] < ss[2]}
<1>1. IsWellFoundedOn(R, Nat)
  BY NatLessThanWellFounded DEF OpToRel
<1>2. \A e, d \in Nat : <<e, d>> \notin R => d <= e
  OBVIOUS
<1> HIDE DEF R
<1>3. \E d \in T : \A e \in T : ~(<<e, d>> \in R)
  BY <1>1, WFMin
<1> QED
  BY <1>2, <1>3

\* What holds of 0 and, whenever it holds of a number, of the next, holds up to the bound.
LEMMA Climb ==
    ASSUME NEW m \in Nat, NEW G, 0 \in G, \A n \in 1..m : n - 1 \in G => n \in G
    PROVE  \A n \in 0..m : n \in G
<1> DEFINE Bad == {n \in 0..m : n \notin G}
<1>1. SUFFICES ASSUME Bad # {} PROVE FALSE
  OBVIOUS
<1>2. PICK j \in Bad : \A k \in Bad : j <= k
  <2>1. Bad \subseteq Nat
    OBVIOUS
  <2> HIDE DEF Bad
  <2> QED
    BY <1>1, <2>1, NatSetHasMinimum
<1>3. j \in 1..m /\ j - 1 \in 0..m /\ j - 1 < j
  BY <1>2
<1>4. j - 1 \notin Bad
  BY <1>2, <1>3
<1> QED
  BY <1>2, <1>3, <1>4

\* A non-empty set of naturals with an upper bound has a greatest element.
LEMMA BoundedNatSetHasMaximum ==
    ASSUME NEW n \in Nat, NEW S, S \subseteq 0..n, S # {}
    PROVE  \E m \in S : \A j \in S : j <= m
<1> DEFINE T == {n - i : i \in S}
<1>1. T \subseteq Nat
  <2> SUFFICES ASSUME NEW i \in S PROVE n - i \in Nat
    OBVIOUS
  <2>1. i \in 0..n
    OBVIOUS
  <2> QED
    BY <2>1
<1>2. PICK d \in T : \A e \in T : d <= e
  <2>1. PICK i \in S : TRUE
    OBVIOUS
  <2>2. n - i \in T
    BY <2>1
  <2> QED
    BY <1>1, <2>2, NatSetHasMinimum
<1>3. PICK m \in S : d = n - m
  BY <1>2
<1>4. \A j \in S : d <= n - j
  BY <1>2
<1> QED
  BY <1>3, <1>4

-------------------------------------------------------------------------------
(***************************************************************************)
(* The types of messages, and where a compaction cuts                      *)
(***************************************************************************)
LEMMA MessageTypes ==
    ASSUME NEW id \in Nat, NEW calls \in Seq(CallId)
    PROVE  /\ UserMessage(id) \in Message
           /\ AssistantMessage(id, calls) \in Message
           /\ ToolResults(calls) \in Seq(Message)
           /\ calls # <<>> => ToolResults(calls) # <<>>
<1>1. NoCall \in CallId /\ <<>> \in Seq(CallId)
  BY DEF NoCall, CallId
<1>2. \A c \in CallId : ToolResult(c) \in Message
  BY <1>1 DEF ToolResult, Message
<1>3. ToolResults(calls) \in Seq(Message)
  BY <1>2 DEF ToolResults
<1>4. UserMessage(id) \in Message
  BY <1>1 DEF UserMessage, Message
<1>5. AssistantMessage(id, calls) \in Message
  BY <1>1 DEF AssistantMessage, Message
<1>6. ASSUME calls # <<>> PROVE ToolResults(calls) # <<>>
  BY <1>6 DEF ToolResults
<1> QED
  BY <1>3, <1>4, <1>5, <1>6

LEMMA TailStartOfAny ==
    ASSUME NEW Entries, NEW s \in Seq(Entries), s # <<>>, NEW recent \in Nat
    PROVE  TailStart(s, recent) \in 1..Len(s)
<1> DEFINE first == IF recent < Len(s) THEN Len(s) - recent + 1 ELSE 1
           starts == {i \in GroupStarts(s) : i <= first}
<1>1. starts \subseteq 1..Len(s)
  BY DEF GroupStarts
<1>2. CASE first > Len(s) \/ starts = {}
  BY <1>2 DEF TailStart
<1>3. CASE ~(first > Len(s) \/ starts = {})
  <2>1. \E i \in starts : \A j \in starts : j <= i
    <3>1. Len(s) \in Nat /\ starts \subseteq 0..Len(s) /\ starts # {}
      BY <1>1, <1>3
    <3> HIDE DEF starts
    <3> QED
      BY <3>1, BoundedNatSetHasMaximum
  <2>2. (CHOOSE i \in starts : \A j \in starts : j <= i) \in starts
    BY <2>1
  <2> QED
    BY <2>2, <1>1, <1>3 DEF TailStart
<1> QED
  BY <1>2, <1>3

LEMMA TailStartInDomain ==
    ASSUME NEW s \in Seq(Message), s # <<>>, NEW recent \in Nat
    PROVE  TailStart(s, recent) \in 1..Len(s)
  BY TailStartOfAny

LEMMA KeptTailTypes ==
    ASSUME NEW s \in Seq(Message), s # <<>>, NEW recent \in Nat
    PROVE  /\ KeptTail(s, recent) \in Seq(Message)
           /\ KeptTail(s, recent) # <<>>
           /\ Head(KeptTail(s, recent)).id \in Nat
<1> DEFINE i == TailStart(s, recent)
<1>1. i \in 1..Len(s)
  BY TailStartInDomain
<1> HIDE DEF i
<1>2. /\ SubSeq(s, i, Len(s)) \in Seq(Message)
      /\ SubSeq(s, i, Len(s)) # <<>>
  BY <1>1
<1>3. Head(SubSeq(s, i, Len(s))) \in Message
  BY <1>2
<1> QED
  BY <1>2, <1>3 DEF KeptTail, i, Message


-------------------------------------------------------------------------------
(***************************************************************************)
(* Pairing                                                                 *)
(***************************************************************************)
\* The calls that have a result in s.
ResultCalls(s) == {s[j].call : j \in ResultIndices(s)}

LEMMA CallsOfMessages ==
    ASSUME NEW s \in Seq(Message), NEW i \in DOMAIN s
    PROVE  /\ s[i].calls \in Seq(CallId)
           /\ Len(s[i].calls) \in Nat
           /\ DOMAIN s[i].calls = 1..Len(s[i].calls)
<1>1. s[i] \in Message
  OBVIOUS
<1>2. s[i].calls \in Seq(CallId)
  BY <1>1 DEF Message
<1> QED
  BY <1>2

\* Cut where a group starts, a paired history is two paired histories.
LEMMA PairedCut ==
    ASSUME NEW s \in Seq(Message), Paired(s), NEW p \in GroupStarts(s)
    PROVE  /\ Paired(SubSeq(s, 1, p - 1))
           /\ Paired(SubSeq(s, p, Len(s)))
           /\ SubSeq(s, 1, p - 1) \o SubSeq(s, p, Len(s)) = s
<1> DEFINE a == SubSeq(s, 1, p - 1)
           b == SubSeq(s, p, Len(s))
<1>1. p \in 1..Len(s) /\ Len(s) \in Nat /\ s[p].role # "tool"
  BY DEF GroupStarts
<1>2. /\ a \in Seq(Message) /\ Len(a) = p - 1 /\ DOMAIN a = 1..p - 1
      /\ \A i \in DOMAIN a : a[i] = s[i]
  BY <1>1
<1>3. /\ b \in Seq(Message) /\ Len(b) = Len(s) - p + 1
      /\ DOMAIN b = 1..Len(s) - p + 1
      /\ \A i \in DOMAIN b : b[i] = s[i + p - 1]
  BY <1>1
<1>4. \A i \in DOMAIN s : /\ Len(s[i].calls) \in Nat
                          /\ DOMAIN s[i].calls = 1..Len(s[i].calls)
  BY CallsOfMessages
<1>5. p \notin ResultIndices(s)
  BY DEF ResultIndices
\* A group does not reach over the cut.
<1>6. ASSUME NEW i \in GroupStarts(s), i < p
      PROVE  i + Len(s[i].calls) < p
  <2>1. SUFFICES ASSUME i + Len(s[i].calls) >= p PROVE FALSE
    BY <1>1, <1>4 DEF GroupStarts
  <2>2. p - i \in DOMAIN s[i].calls
    BY <1>1, <1>4, <1>6, <2>1 DEF GroupStarts
  <2>3. i + (p - i) \in ResultIndices(s)
    BY <2>2 DEF Paired, Answered
  <2>4. i + (p - i) = p
    BY <1>1 DEF GroupStarts
  <2> QED
    BY <1>5, <2>3, <2>4
<1>7. /\ GroupStarts(a) = {i \in GroupStarts(s) : i < p}
      /\ ResultIndices(a) = {i \in ResultIndices(s) : i < p}
  BY <1>1, <1>2 DEF GroupStarts, ResultIndices
<1>8. /\ \A i \in GroupStarts(b) : i + p - 1 \in GroupStarts(s)
      /\ \A i \in ResultIndices(b) : i + p - 1 \in ResultIndices(s)
      /\ \A i \in GroupStarts(s) : i >= p => i - p + 1 \in GroupStarts(b)
      /\ \A i \in ResultIndices(s) : i >= p => i - p + 1 \in ResultIndices(b)
  <2>1. \A i \in DOMAIN b : i + p - 1 \in DOMAIN s /\ b[i] = s[i + p - 1]
    BY <1>1, <1>3
  <2>2. \A i \in DOMAIN s : i >= p => i - p + 1 \in DOMAIN b
                                      /\ b[i - p + 1] = s[i]
    <3> SUFFICES ASSUME NEW i \in DOMAIN s, i >= p
                 PROVE  i - p + 1 \in DOMAIN b /\ b[i - p + 1] = s[i]
      OBVIOUS
    <3>1. i - p + 1 \in DOMAIN b /\ (i - p + 1) + p - 1 = i
      BY <1>1, <1>3
    <3> QED
      BY <1>3, <3>1
  <2> HIDE DEF b
  <2> QED
    BY <2>1, <2>2 DEF GroupStarts, ResultIndices
<1> HIDE DEF a, b
<1>9. Paired(a)
  <2>1. ASSUME NEW i \in GroupStarts(a) PROVE Answered(a, i)
    <3>1. ASSUME NEW k \in DOMAIN a[i].calls
          PROVE  i + k \in ResultIndices(a) /\ a[i + k].call = a[i].calls[k]
      <4>1. i \in GroupStarts(s) /\ i < p /\ a[i] = s[i] /\ i \in 1..Len(s)
        BY <1>2, <1>7 DEF GroupStarts
      <4>2. i + k \in ResultIndices(s) /\ s[i + k].call = s[i].calls[k]
        BY <3>1, <4>1 DEF Paired, Answered
      <4>3. i + k < p /\ k \in 1..Len(s[i].calls)
        BY <1>1, <1>4, <1>6, <3>1, <4>1
      <4>4. i + k \in DOMAIN a
        BY <1>1, <1>2, <4>1, <4>3
      <4> QED
        BY <1>2, <1>7, <4>1, <4>2, <4>3, <4>4
    <3> QED
      BY <3>1 DEF Answered
  <2>2. ASSUME NEW j \in ResultIndices(a) PROVE Owned(a, j)
    <3>1. j \in ResultIndices(s) /\ j < p /\ j \in 1..Len(s)
      BY <1>7 DEF ResultIndices
    <3>2. PICK i \in GroupStarts(s) : j \in i + 1 .. i + Len(s[i].calls)
      BY <3>1 DEF Paired, Owned
    <3>3. i \in 1..Len(s) /\ i < p
      BY <1>1, <1>4, <3>1, <3>2 DEF GroupStarts
    <3>4. i \in GroupStarts(a) /\ a[i] = s[i]
      BY <1>1, <1>2, <1>7, <3>2, <3>3
    <3> QED
      BY <3>2, <3>4 DEF Owned
  <2>3. ASSUME NEW j \in ResultIndices(a), NEW k \in ResultIndices(a),
               a[j].call = a[k].call
        PROVE  j = k
    BY <1>2, <1>7, <2>3 DEF Paired, ResultIndices
  <2> QED
    BY <2>1, <2>2, <2>3 DEF Paired
<1>10. Paired(b)
  <2>1. ASSUME NEW i \in GroupStarts(b) PROVE Answered(b, i)
    <3>1. ASSUME NEW k \in DOMAIN b[i].calls
          PROVE  i + k \in ResultIndices(b) /\ b[i + k].call = b[i].calls[k]
      <4>1. /\ i \in 1..Len(s) - p + 1 /\ b[i] = s[i + p - 1]
            /\ i + p - 1 \in GroupStarts(s) /\ i + p - 1 \in 1..Len(s)
        BY <1>1, <1>3, <1>8 DEF GroupStarts
      <4>2. k \in Nat /\ k >= 1
        BY <1>4, <3>1, <4>1
      <4>3. (i + p - 1) + k \in ResultIndices(s)
            /\ s[(i + p - 1) + k].call = s[i + p - 1].calls[k]
        BY <3>1, <4>1 DEF Paired, Answered
      <4>4. (i + p - 1) + k >= p /\ ((i + p - 1) + k) - p + 1 = i + k
            /\ (i + k) + p - 1 = (i + p - 1) + k
        BY <1>1, <4>1, <4>2
      <4>5. i + k \in ResultIndices(b)
        BY <1>8, <4>3, <4>4
      <4>6. b[i + k] = s[(i + p - 1) + k]
        BY <1>3, <4>4, <4>5 DEF ResultIndices
      <4> QED
        BY <4>1, <4>3, <4>5, <4>6
    <3> QED
      BY <3>1 DEF Answered
  <2>2. ASSUME NEW j \in ResultIndices(b) PROVE Owned(b, j)
    <3>1. j \in 1..Len(s) - p + 1 /\ j + p - 1 \in ResultIndices(s)
      BY <1>3, <1>8 DEF ResultIndices
    <3>2. PICK i \in GroupStarts(s) : j + p - 1 \in i + 1 .. i + Len(s[i].calls)
      BY <3>1 DEF Paired, Owned
    <3>3. i \in 1..Len(s)
      BY DEF GroupStarts
    <3>4. i >= p
      <4>1. SUFFICES ASSUME i < p PROVE FALSE
        BY <1>1, <3>3
      <4> QED
        BY <1>1, <1>4, <1>6, <3>1, <3>2, <3>3, <4>1
    <3>5. i - p + 1 \in GroupStarts(b) /\ b[i - p + 1] = s[i]
      <4>1. i - p + 1 \in GroupStarts(b)
        BY <1>8, <3>2, <3>4
      <4>2. b[i - p + 1] = s[(i - p + 1) + p - 1]
        BY <1>3, <4>1 DEF GroupStarts
      <4>3. (i - p + 1) + p - 1 = i
        BY <1>1, <3>3
      <4> QED
        BY <4>1, <4>2, <4>3
    <3>6. j \in (i - p + 1) + 1 .. (i - p + 1) + Len(s[i].calls)
      <4>1. PICK n \in Nat : n = Len(s[i].calls)
        BY <1>4, <3>3
      <4>2. j + p - 1 \in i + 1 .. i + n
        BY <3>2, <4>1
      <4>3. j \in (i - p + 1) + 1 .. (i - p + 1) + n
        BY <1>1, <3>1, <3>3, <4>2
      <4> QED
        BY <4>1, <4>3
    <3> QED
      BY <3>5, <3>6 DEF Owned
  <2>3. ASSUME NEW j \in ResultIndices(b), NEW k \in ResultIndices(b),
               b[j].call = b[k].call
        PROVE  j = k
    <3>1. /\ j + p - 1 \in ResultIndices(s) /\ b[j] = s[j + p - 1]
          /\ k + p - 1 \in ResultIndices(s) /\ b[k] = s[k + p - 1]
          /\ j \in Nat /\ k \in Nat
      BY <1>3, <1>8 DEF ResultIndices
    <3>2. j + p - 1 = k + p - 1
      BY <2>3, <3>1 DEF Paired
    <3> QED
      BY <1>1, <3>1, <3>2
  <2> QED
    BY <2>1, <2>2, <2>3 DEF Paired
<1>11. a \o b = s
  BY <1>1 DEF a, b
<1> QED
  BY <1>9, <1>10, <1>11 DEF a, b

\* Where the messages of a joined history come from.
LEMMA JoinedMessages ==
    ASSUME NEW a \in Seq(Message), NEW b \in Seq(Message)
    PROVE  /\ a \o b \in Seq(Message)
           /\ Len(a) \in Nat /\ Len(b) \in Nat
           /\ Len(a \o b) = Len(a) + Len(b)
           /\ DOMAIN (a \o b) = 1..Len(a) + Len(b)
           /\ \A i \in 1..Len(a) : i \in DOMAIN a /\ (a \o b)[i] = a[i]
           /\ \A i \in 1..Len(b) :
                 i \in DOMAIN b /\ (a \o b)[Len(a) + i] = b[i]
           /\ GroupStarts(a \o b) =
                 GroupStarts(a) \union {Len(a) + i : i \in GroupStarts(b)}
           /\ ResultIndices(a \o b) =
                 ResultIndices(a) \union {Len(a) + i : i \in ResultIndices(b)}
<1>1. /\ a \o b \in Seq(Message)
      /\ Len(a) \in Nat /\ Len(b) \in Nat
      /\ Len(a \o b) = Len(a) + Len(b)
      /\ DOMAIN (a \o b) = 1..Len(a) + Len(b)
      /\ DOMAIN a = 1..Len(a) /\ DOMAIN b = 1..Len(b)
      /\ \A i \in 1..Len(a) : i \in DOMAIN a /\ (a \o b)[i] = a[i]
      /\ \A i \in 1..Len(b) : i \in DOMAIN b /\ (a \o b)[Len(a) + i] = b[i]
  OBVIOUS
<1> DEFINE s == a \o b
<1>2. ASSUME NEW i \in DOMAIN s
      PROVE  i \in 1..Len(a) \/ \E k \in 1..Len(b) : i = Len(a) + k
  <2>1. i \in 1..Len(a) + Len(b)
    BY <1>1
  <2>2. CASE i > Len(a)
    <3>1. i - Len(a) \in 1..Len(b) /\ i = Len(a) + (i - Len(a))
      BY <1>1, <2>1, <2>2
    <3> QED
      BY <3>1
  <2> QED
    BY <1>1, <2>1, <2>2
<1>3. DOMAIN a \subseteq DOMAIN s /\ \A k \in DOMAIN b : Len(a) + k \in DOMAIN s
  BY <1>1
<1> HIDE DEF s
<1>4. GroupStarts(s) = GroupStarts(a) \union {Len(a) + i : i \in GroupStarts(b)}
  BY <1>1, <1>2, <1>3 DEF GroupStarts, s
<1>5. ResultIndices(s) =
        ResultIndices(a) \union {Len(a) + i : i \in ResultIndices(b)}
  <2>1. \A i \in DOMAIN s : i \in ResultIndices(s) <=> s[i].role = "tool"
    BY DEF ResultIndices, GroupStarts
  <2>2. \A i \in DOMAIN a : i \in ResultIndices(a) <=> a[i].role = "tool"
    BY DEF ResultIndices, GroupStarts
  <2>3. \A i \in DOMAIN b : i \in ResultIndices(b) <=> b[i].role = "tool"
    BY DEF ResultIndices, GroupStarts
  <2>4. /\ ResultIndices(s) \subseteq DOMAIN s
        /\ ResultIndices(a) \subseteq DOMAIN a
        /\ ResultIndices(b) \subseteq DOMAIN b
    BY DEF ResultIndices
  <2>5. \A i \in ResultIndices(a) : i \in ResultIndices(s)
    BY <1>1, <1>3, <2>1, <2>2, <2>4 DEF s
  <2>6. \A i \in ResultIndices(b) : Len(a) + i \in ResultIndices(s)
    BY <1>1, <1>3, <2>1, <2>3, <2>4 DEF s
  <2>7. ASSUME NEW i \in ResultIndices(s)
        PROVE  i \in ResultIndices(a) \/ \E k \in ResultIndices(b) : i = Len(a) + k
    <3>1. i \in DOMAIN s /\ s[i].role = "tool"
      BY <2>1, <2>4
    <3>2. CASE i \in 1..Len(a)
      BY <1>1, <2>2, <3>1, <3>2 DEF s
    <3>3. ASSUME NEW k \in 1..Len(b), i = Len(a) + k
          PROVE  k \in ResultIndices(b)
      BY <1>1, <2>3, <3>1, <3>3 DEF s
    <3> QED
      BY <1>2, <3>1, <3>2, <3>3
  <2> QED
    BY <2>5, <2>6, <2>7
<1> QED
  BY <1>1, <1>4, <1>5 DEF s

\* Joining histories joins the calls that have results.
LEMMA JoinedCalls ==
    ASSUME NEW a \in Seq(Message), NEW b \in Seq(Message)
    PROVE  ResultCalls(a \o b) = ResultCalls(a) \union ResultCalls(b)
<1>1. /\ ResultIndices(a \o b) =
           ResultIndices(a) \union {Len(a) + i : i \in ResultIndices(b)}
      /\ \A i \in 1..Len(a) : (a \o b)[i] = a[i]
      /\ \A i \in 1..Len(b) : (a \o b)[Len(a) + i] = b[i]
  BY JoinedMessages
<1>2. ResultIndices(a) \subseteq 1..Len(a) /\ ResultIndices(b) \subseteq 1..Len(b)
  BY DEF ResultIndices
<1> DEFINE s == a \o b
<1>3. \A i \in ResultIndices(a) : i \in ResultIndices(s) /\ s[i].call = a[i].call
  BY <1>1, <1>2
<1>4. \A i \in ResultIndices(b) :
         Len(a) + i \in ResultIndices(s) /\ s[Len(a) + i].call = b[i].call
  BY <1>1, <1>2
<1>5. \A j \in ResultIndices(s) :
         j \in ResultIndices(a) \/ \E i \in ResultIndices(b) : j = Len(a) + i
  BY <1>1
<1> HIDE DEF s
<1>6. ResultCalls(a) \union ResultCalls(b) \subseteq ResultCalls(s)
  BY <1>3, <1>4 DEF ResultCalls
<1>7. ResultCalls(s) \subseteq ResultCalls(a) \union ResultCalls(b)
  BY <1>3, <1>4, <1>5 DEF ResultCalls
<1> QED
  BY <1>6, <1>7 DEF s

\* Two paired histories that answer no call twice make a paired history.
LEMMA PairedJoin ==
    ASSUME NEW a \in Seq(Message), NEW b \in Seq(Message), Paired(a), Paired(b),
           ResultCalls(a) \intersect ResultCalls(b) = {}
    PROVE  Paired(a \o b)
<1> DEFINE s == a \o b
<1>1. /\ Len(a) \in Nat /\ Len(b) \in Nat
      /\ \A i \in 1..Len(a) : s[i] = a[i]
      /\ \A i \in 1..Len(b) : s[Len(a) + i] = b[i]
      /\ GroupStarts(s) = GroupStarts(a) \union {Len(a) + i : i \in GroupStarts(b)}
      /\ ResultIndices(s) =
            ResultIndices(a) \union {Len(a) + i : i \in ResultIndices(b)}
  BY JoinedMessages
<1>2. /\ ResultIndices(a) \subseteq 1..Len(a) /\ GroupStarts(a) \subseteq 1..Len(a)
      /\ ResultIndices(b) \subseteq 1..Len(b) /\ GroupStarts(b) \subseteq 1..Len(b)
  BY DEF ResultIndices, GroupStarts
<1>3. /\ \A i \in GroupStarts(a) : DOMAIN a[i].calls = 1..Len(a[i].calls)
                                   /\ Len(a[i].calls) \in Nat
      /\ \A i \in GroupStarts(b) : DOMAIN b[i].calls = 1..Len(b[i].calls)
                                   /\ Len(b[i].calls) \in Nat
  BY CallsOfMessages DEF GroupStarts
<1> HIDE DEF s
<1>4. ASSUME NEW i \in GroupStarts(s) PROVE Answered(s, i)
  <2>1. CASE i \in GroupStarts(a)
    <3>1. Answered(a, i) /\ s[i] = a[i]
      BY <1>1, <1>2, <2>1 DEF Paired
    <3> QED
      BY <1>1, <1>2, <3>1 DEF Answered
  <2>2. ASSUME NEW g \in GroupStarts(b), i = Len(a) + g
        PROVE  Answered(s, i)
    <3>1. Answered(b, g) /\ s[i] = b[g]
      BY <1>1, <1>2, <2>2 DEF Paired
    <3>2. ASSUME NEW k \in DOMAIN b[g].calls
          PROVE  /\ i + k \in ResultIndices(s)
                 /\ s[i + k].call = b[g].calls[k]
      <4>1. g + k \in ResultIndices(b) /\ b[g + k].call = b[g].calls[k]
        BY <3>1 DEF Answered
      <4>2. i + k = Len(a) + (g + k)
        BY <1>1, <1>2, <1>3, <2>2, <3>2
      <4> QED
        BY <1>1, <1>2, <4>1, <4>2
    <3> QED
      BY <3>1, <3>2 DEF Answered
  <2> QED
    BY <1>1, <2>1, <2>2
<1>5. ASSUME NEW j \in ResultIndices(s) PROVE Owned(s, j)
  <2>1. CASE j \in ResultIndices(a)
    <3>1. PICK i \in GroupStarts(a) : j \in i + 1 .. i + Len(a[i].calls)
      BY <2>1 DEF Paired, Owned
    <3>2. i \in GroupStarts(s) /\ s[i] = a[i]
      BY <1>1, <1>2
    <3> QED
      BY <3>1, <3>2 DEF Owned
  <2>2. ASSUME NEW r \in ResultIndices(b), j = Len(a) + r
        PROVE  Owned(s, j)
    <3>1. PICK i \in GroupStarts(b) : r \in i + 1 .. i + Len(b[i].calls)
      BY Paired(b) DEF Paired, Owned
    <3>2. Len(a) + i \in GroupStarts(s) /\ s[Len(a) + i] = b[i]
      BY <1>1, <1>2
    <3>3. PICK n \in Nat : n = Len(b[i].calls)
      BY <1>3
    <3>4. r \in i + 1 .. i + n /\ i \in Nat /\ r \in Nat
      BY <1>1, <1>2, <3>1, <3>3
    <3>5. j \in (Len(a) + i) + 1 .. (Len(a) + i) + n
      BY <1>1, <2>2, <3>4
    <3> QED
      BY <3>2, <3>3, <3>5 DEF Owned
  <2> QED
    BY <1>1, <2>1, <2>2
<1>6. ASSUME NEW j \in ResultIndices(s), NEW k \in ResultIndices(s),
             s[j].call = s[k].call
      PROVE  j = k
  <2>1. \A i \in ResultIndices(a) : s[i] = a[i] /\ s[i].call \in ResultCalls(a)
    BY <1>1, <1>2 DEF ResultCalls
  <2>2. \A i \in ResultIndices(b) : /\ s[Len(a) + i] = b[i]
                                    /\ s[Len(a) + i].call \in ResultCalls(b)
    BY <1>1, <1>2 DEF ResultCalls
  <2> QED
    BY <1>1, <1>6, <2>1, <2>2 DEF Paired
<1>7. Paired(s)
  BY <1>4, <1>5, <1>6 DEF Paired
<1> QED
  BY <1>7 DEF s

\* An assistant message and the results of its calls, if it makes none twice.
LEMMA PairedExchange ==
    ASSUME NEW id \in Nat, NEW calls \in Seq(CallId),
           \A i, j \in DOMAIN calls : calls[i] = calls[j] => i = j
    PROVE  /\ <<AssistantMessage(id, calls)>> \o ToolResults(calls) \in Seq(Message)
           /\ Paired(<<AssistantMessage(id, calls)>> \o ToolResults(calls))
           /\ ResultCalls(<<AssistantMessage(id, calls)>> \o ToolResults(calls))
                = {calls[i] : i \in DOMAIN calls}
<1> DEFINE a == <<AssistantMessage(id, calls)>>
           b == ToolResults(calls)
           s == a \o b
<1>1. a \in Seq(Message) /\ b \in Seq(Message)
  BY MessageTypes
<1>2. /\ Len(a) = 1 /\ a[1].role = "assistant" /\ a[1].calls = calls
      /\ Len(b) = Len(calls) /\ DOMAIN b = 1..Len(calls)
      /\ DOMAIN calls = 1..Len(calls) /\ Len(calls) \in Nat
      /\ \A i \in DOMAIN b : b[i].role = "tool" /\ b[i].call = calls[i]
  BY DEF AssistantMessage, ToolResults, ToolResult
<1>3. /\ GroupStarts(a) = {1} /\ ResultIndices(a) = {}
      /\ GroupStarts(b) = {} /\ ResultIndices(b) = 1..Len(calls)
  BY <1>1, <1>2 DEF GroupStarts, ResultIndices
<1>4. /\ s \in Seq(Message)
      /\ \A i \in 1..Len(a) : s[i] = a[i]
      /\ \A i \in 1..Len(b) : s[Len(a) + i] = b[i]
      /\ GroupStarts(s) = GroupStarts(a) \union {Len(a) + i : i \in GroupStarts(b)}
      /\ ResultIndices(s) =
            ResultIndices(a) \union {Len(a) + i : i \in ResultIndices(b)}
  <2> HIDE DEF a, b
  <2> QED
    BY <1>1, JoinedMessages
<1> HIDE DEF a, b, s
<1>5. GroupStarts(s) = {1} /\ ResultIndices(s) = {1 + i : i \in 1..Len(calls)}
  BY <1>2, <1>3, <1>4
<1>6. s[1].calls = calls /\ \A i \in 1..Len(calls) : s[1 + i].call = calls[i]
  BY <1>2, <1>4
<1>7. \A j \in ResultIndices(s) : j \in 1 + 1 .. 1 + Len(calls)
  BY <1>2, <1>5
<1>8. Paired(s)
  <2>1. Answered(s, 1)
    BY <1>2, <1>5, <1>6 DEF Answered
  <2>2. \A j \in ResultIndices(s) : Owned(s, j)
    BY <1>5, <1>6, <1>7 DEF Owned
  <2>3. \A j, k \in ResultIndices(s) : s[j].call = s[k].call => j = k
    BY <1>2, <1>5, <1>6
  <2> QED
    BY <1>5, <2>1, <2>2, <2>3 DEF Paired
<1>9. ResultCalls(s) = {calls[i] : i \in DOMAIN calls}
  BY <1>2, <1>5, <1>6 DEF ResultCalls
<1> QED
  BY <1>4, <1>8, <1>9 DEF a, b, s

\* A user message, or an answer without calls, is a paired history of its own.
LEMMA PairedMessage ==
    ASSUME NEW m \in Message, m.role # "tool", m.calls = <<>>
    PROVE  /\ <<m>> \in Seq(Message)
           /\ Paired(<<m>>)
           /\ ResultCalls(<<m>>) = {}
<1> DEFINE s == <<m>>
<1>1. s \in Seq(Message) /\ DOMAIN s = {1} /\ s[1] = m
  OBVIOUS
<1> HIDE DEF s
<1>2. GroupStarts(s) = {1} /\ ResultIndices(s) = {}
  BY <1>1 DEF GroupStarts, ResultIndices
<1>3. DOMAIN s[1].calls = {}
  BY <1>1
<1> QED
  BY <1>1, <1>2, <1>3 DEF Paired, Answered, ResultCalls, s

\* A paired history begins with a group.
LEMMA PairedBegins ==
    ASSUME NEW s \in Seq(Message), Paired(s), s # <<>>
    PROVE  1 \in GroupStarts(s)
<1>1. 1 \in DOMAIN s
  OBVIOUS
<1>2. CASE 1 \in ResultIndices(s)
  <2>1. PICK i \in GroupStarts(s) : 1 \in i + 1 .. i + Len(s[i].calls)
    BY <1>2 DEF Paired, Owned
  <2> QED
    BY <2>1 DEF GroupStarts
<1> QED
  BY <1>1, <1>2 DEF ResultIndices

\* The tail a compaction keeps is a group and what follows it, and no shorter
\* than asked for unless it is everything.
LEMMA TailStartIsGroup ==
    ASSUME NEW s \in Seq(Message), Paired(s), s # <<>>, NEW recent \in Nat
    PROVE  /\ TailStart(s, recent) \in GroupStarts(s)
           /\ TailStart(s, recent) = 1 \/ Len(s) - TailStart(s, recent) + 1 >= recent
<1> DEFINE first == IF recent < Len(s) THEN Len(s) - recent + 1 ELSE 1
           starts == {i \in GroupStarts(s) : i <= first}
<1>1. 1 \in GroupStarts(s) /\ GroupStarts(s) \subseteq 1..Len(s) /\ Len(s) \in Nat
  BY PairedBegins DEF GroupStarts
<1>2. first \in Nat /\ first >= 1 /\ 1 \in starts
  BY <1>1
<1>3. CASE first > Len(s)
  BY <1>1, <1>3 DEF TailStart
<1>4. CASE ~(first > Len(s))
  <2>1. \E i \in starts : \A j \in starts : j <= i
    <3>1. starts \subseteq 0..Len(s) /\ starts # {}
      BY <1>1, <1>2
    <3> HIDE DEF starts
    <3> QED
      BY <1>1, <3>1, BoundedNatSetHasMaximum
  <2>2. (CHOOSE i \in starts : \A j \in starts : j <= i) \in starts
    BY <2>1
  <2>3. TailStart(s, recent) = CHOOSE i \in starts : \A j \in starts : j <= i
    BY <1>2, <1>4 DEF TailStart
  <2>4. TailStart(s, recent) \in GroupStarts(s) /\ TailStart(s, recent) <= first
    BY <2>2, <2>3
  <2> QED
    BY <1>1, <2>4
<1> QED
  BY <1>3, <1>4

\* Without its oldest group a paired history is a shorter paired history.
LEMMA DropOldestGroupPaired ==
    ASSUME NEW s \in Seq(Message), Paired(s), s # <<>>
    PROVE  /\ Paired(DropOldestGroup(s))
           /\ Len(DropOldestGroup(s)) < Len(s)
<1>1. 1 \in GroupStarts(s) /\ 1 \in DOMAIN s
  BY PairedBegins
<1>2. PICK n \in Nat : n = Len(s[1].calls) /\ DOMAIN s[1].calls = 1..n
  BY <1>1, CallsOfMessages
<1>3. DropOldestGroup(s) = SubSeq(s, n + 2, Len(s))
  BY <1>2 DEF DropOldestGroup
<1>4. \A k \in 1..n : 1 + k \in ResultIndices(s)
  BY <1>1, <1>2 DEF Paired, Answered
<1>5. CASE n + 2 \in DOMAIN s
  <2>1. n + 2 \notin ResultIndices(s)
    <3>1. SUFFICES ASSUME n + 2 \in ResultIndices(s) PROVE FALSE
      OBVIOUS
    <3>2. PICK i \in GroupStarts(s) : n + 2 \in i + 1 .. i + Len(s[i].calls)
      BY <3>1 DEF Paired, Owned
    <3>3. i \in 1..n + 1
      BY <1>2, <3>2 DEF GroupStarts
    <3>4. i # 1
      BY <1>2, <3>2
    <3>5. i \in ResultIndices(s)
      <4>1. i - 1 \in 1..n /\ 1 + (i - 1) = i
        BY <3>3, <3>4
      <4> QED
        BY <1>4, <4>1
    <3> QED
      BY <3>2, <3>5 DEF ResultIndices
  <2>2. n + 2 \in GroupStarts(s)
    BY <1>5, <2>1 DEF ResultIndices
  <2> QED
    BY <1>3, <1>5, <2>2, PairedCut
<1>6. CASE n + 2 \notin DOMAIN s
  <2>1. DropOldestGroup(s) = <<>>
    BY <1>3, <1>6
  <2> QED
    BY <1>1, <2>1 DEF Paired, GroupStarts, ResultIndices
<1> QED
  BY <1>5, <1>6

\* The last group of a history that has one.
LastGroup(s) ==
    CHOOSE i \in GroupStarts(s) : \A j \in GroupStarts(s) : j <= i

LEMMA LastGroupIsLast ==
    ASSUME NEW s \in Seq(Message), GroupStarts(s) # {}
    PROVE  /\ LastGroup(s) \in GroupStarts(s)
           /\ \A j \in GroupStarts(s) : j <= LastGroup(s)
<1>1. Len(s) \in Nat /\ GroupStarts(s) \subseteq 0..Len(s)
  BY DEF GroupStarts
<1>2. \E i \in GroupStarts(s) : \A j \in GroupStarts(s) : j <= i
  BY <1>1, BoundedNatSetHasMaximum
<1> QED
  BY <1>2 DEF LastGroup

-------------------------------------------------------------------------------
(***************************************************************************)
(* Folds, one element after the other.  FoldLeft is defined through a      *)
(* function on sets of indices that is chosen; these lemmas show that the  *)
(* function exists and what it says of a sequence with one element more.   *)
(* Both scans, of messages and of events, are instances.                   *)
(***************************************************************************)
LEMMA MaxOfInterval ==
    ASSUME NEW k \in Nat
    PROVE  /\ Max(1..k + 1) = k + 1
           /\ (1..k + 1) \ {k + 1} = 1..k
           /\ \A u \in SUBSET (1..k + 1) : k + 1 \in u => Max(u) = k + 1
           /\ \A u \in SUBSET (1..k + 1) : k + 1 \in u => u \ {k + 1} \in SUBSET (1..k)
           /\ \A u \in SUBSET (1..k + 1) : k + 1 \notin u => u \in SUBSET (1..k)
<1>1. ASSUME NEW u \in SUBSET (1..k + 1), k + 1 \in u PROVE Max(u) = k + 1
  <2>1. \A y \in u : k + 1 >= y
    OBVIOUS
  <2>2. \A x \in u : (\A y \in u : x >= y) => x = k + 1
    <3> SUFFICES ASSUME NEW x \in u, \A y \in u : x >= y PROVE x = k + 1
      OBVIOUS
    <3>1. x >= k + 1 /\ k + 1 >= x /\ x \in Nat
      BY <1>1, <2>1
    <3> QED
      BY <3>1
  <2> QED
    BY <1>1, <2>1, <2>2 DEF Max
<1>2. 1..k + 1 \in SUBSET (1..k + 1) /\ k + 1 \in 1..k + 1
  OBVIOUS
<1> QED
  BY <1>1, <1>2

\* What a scan comes to with one message, or one event, more; and a fold by
\* the function f.
ByScan == [name |-> "scan"]
ByReplay == [name |-> "replay"]
ByFunction(f) == [name |-> "function", step |-> f]
Taken(kind, s, e) ==
    CASE kind.name = "scan" -> ScanMessage(s, e)
      [] kind.name = "replay" -> ReplayEvent(s, e)
      [] OTHER -> kind.step[<<s, e>>]

\* g is the fold over the first k elements of s, for every set of indices.
FoldStep(kind, g, s, b, k) ==
    g = [u \in SUBSET (1..k) |->
            IF u = {} THEN b ELSE Taken(kind, g[u \ {Max(u)}], s[Max(u)])]

\* By the least length for which there would be none.
LEMMA FoldExists ==
    ASSUME NEW kind, NEW s, NEW b, NEW n \in Nat
    PROVE  \E g : FoldStep(kind, g, s, b, n)
<1> DEFINE Bad == {k \in Nat : ~ \E g : FoldStep(kind, g, s, b, k)}
<1>1. SUFFICES ASSUME Bad # {} PROVE FALSE
  OBVIOUS
<1>2. PICK m \in Bad : \A k \in Bad : m <= k
  BY <1>1, NatSetHasMinimum
<1>3. CASE m = 0
  <2> DEFINE g == [u \in SUBSET (1..0) |-> b]
  <2>1. \A u \in SUBSET (1..0) : u = {}
    OBVIOUS
  <2>2. FoldStep(kind, g, s, b, 0)
    BY <2>1 DEF FoldStep
  <2> QED
    BY <1>2, <1>3, <2>2
<1>4. CASE m # 0
  <2>1. PICK k \in Nat : m = k + 1
    <3>1. m - 1 \in Nat /\ m = (m - 1) + 1
      BY <1>4
    <3> QED
      BY <3>1
  <2>2. PICK g : FoldStep(kind, g, s, b, k)
    <3>1. k \notin Bad
      BY <1>2, <2>1
    <3> QED
      BY <3>1
  <2> DEFINE h == [u \in SUBSET (1..k + 1) |->
                     IF k + 1 \in u THEN Taken(kind, g[u \ {k + 1}], s[k + 1]) ELSE g[u]]
  <2>3. \A u \in SUBSET (1..k) :
           u \in SUBSET (1..k + 1) /\ k + 1 \notin u /\ h[u] = g[u]
    OBVIOUS
  <2>4. ASSUME NEW u \in SUBSET (1..k + 1)
        PROVE  h[u] = IF u = {} THEN b ELSE Taken(kind, h[u \ {Max(u)}], s[Max(u)])
    <3>1. CASE k + 1 \in u
      <4>1. Max(u) = k + 1 /\ u \ {k + 1} \in SUBSET (1..k)
        BY <3>1, MaxOfInterval
      <4>2. h[u] = Taken(kind, g[u \ {k + 1}], s[k + 1]) /\ u # {}
        BY <3>1
      <4> HIDE DEF h
      <4> QED
        BY <2>3, <4>1, <4>2
    <3>2. CASE k + 1 \notin u
      <4>1. u \in SUBSET (1..k) /\ h[u] = g[u]
        BY <3>2, MaxOfInterval
      <4>2. g[u] = IF u = {} THEN b ELSE Taken(kind, g[u \ {Max(u)}], s[Max(u)])
        BY <2>2, <4>1 DEF FoldStep
      <4>3. u # {} => u \ {Max(u)} \in SUBSET (1..k)
        BY <4>1
      <4> HIDE DEF h
      <4> QED
        BY <2>3, <4>1, <4>2, <4>3
    <3> QED
      BY <3>1, <3>2
  <2>5. h = [u \in SUBSET (1..k + 1) |-> h[u]]
    OBVIOUS
  <2> HIDE DEF h
  <2>6. FoldStep(kind, h, s, b, k + 1)
    BY <2>4, <2>5 DEF FoldStep
  <2> QED
    BY <1>2, <2>1, <2>6
<1> QED
  BY <1>3, <1>4

\* Sequences with a common beginning have the fold of it in common.
LEMMA FoldAgrees ==
    ASSUME NEW kind, NEW s, NEW t, NEW b, NEW m \in Nat, NEW n \in Nat, m <= n,
           \A i \in 1..m : s[i] = t[i],
           NEW g, NEW h, FoldStep(kind, g, s, b, m), FoldStep(kind, h, t, b, n)
    PROVE  g[1..m] = h[1..m]
<1> DEFINE Bad == {k \in 0..m : g[1..k] # h[1..k]}
<1>1. SUFFICES ASSUME Bad # {} PROVE FALSE
  <2>1. m \in 0..m
    OBVIOUS
  <2> QED
    BY <2>1
<1>2. PICK j \in Bad : \A k \in Bad : j <= k
  <2>1. Bad \subseteq Nat
    OBVIOUS
  <2> HIDE DEF Bad
  <2> QED
    BY <1>1, <2>1, NatSetHasMinimum
<1>0. \A k \in 0..m : 1..k \in SUBSET (1..m) /\ 1..k \in SUBSET (1..n)
  OBVIOUS
<1>3. CASE j = 0
  <2>1. 1..0 = {} /\ {} \in SUBSET (1..m) /\ {} \in SUBSET (1..n)
    OBVIOUS
  <2>2. g[{}] = b /\ h[{}] = b
    BY <2>1 DEF FoldStep
  <2> QED
    BY <1>2, <1>3, <2>1, <2>2
<1>4. CASE j # 0
  <2>1. PICK k \in Nat : j = k + 1 /\ k \in 0..m /\ k + 1 \in 1..m
    <3>1. j \in 1..m
      BY <1>4
    <3>2. j - 1 \in Nat /\ j = (j - 1) + 1 /\ j - 1 \in 0..m
      BY <3>1
    <3> QED
      BY <3>1, <3>2
  <2>2. g[1..k] = h[1..k]
    BY <1>2, <2>1
  <2>3. 1..k + 1 # {} /\ Max(1..k + 1) = k + 1 /\ (1..k + 1) \ {k + 1} = 1..k
    <3>1. k + 1 \in 1..k + 1
      OBVIOUS
    <3> QED
      BY <3>1, MaxOfInterval
  <2>4. 1..k + 1 \in SUBSET (1..m) /\ 1..k + 1 \in SUBSET (1..n)
    BY <2>1
  <2> DEFINE u == 1..k + 1
  <2> HIDE DEF u
  <2>5. g[u] = Taken(kind, g[1..k], s[k + 1])
    <3>1. g[u] = IF u = {} THEN b ELSE Taken(kind, g[u \ {Max(u)}], s[Max(u)])
      BY <2>4 DEF FoldStep, u
    <3>2. u # {} /\ Max(u) = k + 1 /\ u \ {k + 1} = 1..k
      BY <2>3 DEF u
    <3> QED
      BY <3>1, <3>2
  <2>6. h[u] = Taken(kind, h[1..k], t[k + 1])
    <3>1. h[u] = IF u = {} THEN b ELSE Taken(kind, h[u \ {Max(u)}], t[Max(u)])
      BY <2>4 DEF FoldStep, u
    <3>2. u # {} /\ Max(u) = k + 1 /\ u \ {k + 1} = 1..k
      BY <2>3 DEF u
    <3> QED
      BY <3>1, <3>2
  <2>7. g[1..k + 1] = h[1..k + 1]
    BY <2>1, <2>2, <2>5, <2>6 DEF u
  <2> QED
    BY <1>2, <2>1, <2>7
<1> QED
  BY <1>3, <1>4

\* What holds of 0 and of every next number holds up to n.
LEMMA UpTo ==
    ASSUME NEW n \in Nat, NEW T, 0 \in T, \A k \in 0..n - 1 : k \in T => k + 1 \in T
    PROVE  0..n \subseteq T
<1> DEFINE Bad == {k \in 0..n : k \notin T}
<1>1. SUFFICES ASSUME Bad # {} PROVE FALSE
  OBVIOUS
<1>2. PICK m \in Bad : \A k \in Bad : m <= k
  <2>1. Bad \subseteq Nat
    OBVIOUS
  <2> HIDE DEF Bad
  <2> QED
    BY <1>1, <2>1, NatSetHasMinimum
<1>3. m \in 0..n /\ m \notin T /\ m # 0
  BY <1>2
<1>4. m - 1 \in 0..n - 1 /\ m - 1 \in 0..n /\ ~(m <= m - 1) /\ (m - 1) + 1 = m
  BY <1>3
<1>5. m - 1 \in T
  BY <1>2, <1>4
<1> QED
  BY <1>3, <1>4, <1>5

\* g is the fold of s by f, with b for no indices; its values and items are in
\* the sets.
FoldBy(f, g, s, b) ==
    g = [u \in SUBSET DOMAIN s |->
            IF u = {} THEN b ELSE f[<<g[u \ {Max(u)}], s[Max(u)]>>]]
FoldIn(States, Items, g, s) ==
    \A u \in SUBSET DOMAIN s : u # {} => g[u \ {Max(u)}] \in States /\ s[Max(u)] \in Items

\* A fold by a function into a set has its values in that set.
LEMMA TypedFold ==
    ASSUME NEW States, NEW Items, NEW f \in [States \X Items -> States],
           NEW b \in States, NEW s \in Seq(Items)
    PROVE  \E g : FoldBy(f, g, s, b) /\ FoldIn(States, Items, g, s)
<1> DEFINE n == Len(s)
<1>1. n \in Nat /\ \A i \in 1..n : s[i] \in Items
  OBVIOUS
<1> HIDE DEF n
<1>2. PICK g : FoldStep(ByFunction(f), g, s, b, n)
  BY <1>1, FoldExists
<1>3. \A u \in SUBSET (1..n) :
         g[u] = IF u = {} THEN b ELSE f[<<g[u \ {Max(u)}], s[Max(u)]>>]
  <2>1. \A a, e : Taken(ByFunction(f), a, e) = f[<<a, e>>]
    BY DEF Taken, ByFunction
  <2> QED
    BY <1>2, <2>1 DEF FoldStep
<1> DEFINE T == {k \in 0..n : \A u \in SUBSET (1..k) : g[u] \in States}
<1>4. 0 \in T
  <2>1. \A u \in SUBSET (1..0) : u = {}
    OBVIOUS
  <2>2. {} \in SUBSET (1..n) /\ 0 \in 0..n
    BY <1>1
  <2> QED
    BY <1>3, <2>1, <2>2
<1>5. ASSUME NEW k \in 0..n - 1, k \in T PROVE k + 1 \in T
  <2>1. k \in Nat /\ k + 1 \in 0..n /\ k + 1 \in 1..n
        /\ \A u \in SUBSET (1..k + 1) : u \in SUBSET (1..n)
    BY <1>1
  <2>2. \A u \in SUBSET (1..k) : g[u] \in States
    BY <1>5
  <2>3. ASSUME NEW u \in SUBSET (1..k + 1) PROVE g[u] \in States
    <3>1. CASE k + 1 \in u
      <4>1. Max(u) = k + 1 /\ u \ {k + 1} \in SUBSET (1..k)
        BY <2>1, <3>1, MaxOfInterval
      <4>2. g[u] = f[<<g[u \ {k + 1}], s[k + 1]>>]
        BY <1>3, <2>1, <3>1, <4>1
      <4>3. g[u \ {k + 1}] \in States /\ s[k + 1] \in Items
        BY <1>1, <2>1, <2>2, <4>1
      <4> QED
        BY <4>2, <4>3
    <3>2. CASE k + 1 \notin u
      BY <2>1, <2>2, <3>2, MaxOfInterval
    <3> QED
      BY <3>1, <3>2
  <2> QED
    BY <2>1, <2>3
<1>6. n \in T
  <2>1. n \in 0..n
    BY <1>1
  <2> HIDE DEF T
  <2> QED
    BY <1>1, <1>4, <1>5, <2>1, UpTo
<1>7. ASSUME NEW u \in SUBSET (1..n), u # {}
      PROVE  g[u \ {Max(u)}] \in States /\ s[Max(u)] \in Items
  <2>1. Max(u) \in 1..n
    <3>1. u \subseteq 0..n /\ u \subseteq Nat
      BY <1>1
    <3>2. PICK m \in u : \A j \in u : j <= m
      BY <1>1, <1>7, <3>1, BoundedNatSetHasMaximum
    <3>3. \A j \in u : m >= j
      BY <3>1, <3>2
    <3> QED
      BY <3>3 DEF Max
  <2> QED
    BY <1>1, <1>6, <2>1
<1>8. DOMAIN s = 1..n
  BY DEF n
<1>9. FoldBy(f, g, s, b)
  <2>1. \A a, e : Taken(ByFunction(f), a, e) = f[<<a, e>>]
    BY DEF Taken, ByFunction
  <2> QED
    BY <1>2, <1>8, <2>1 DEF FoldStep, FoldBy
<1> QED
  BY <1>7, <1>8, <1>9 DEF FoldIn

\* The first indices, one more at a time.
LEMMA OneIndexMore ==
    ASSUME NEW n \in Nat
    PROVE  /\ 1..0 = {} /\ {} \in SUBSET (1..n)
           /\ \A k \in 0..n - 1 :
                 /\ 1..k + 1 \in SUBSET (1..n) /\ 1..k + 1 # {}
                 /\ Max(1..k + 1) = k + 1 /\ (1..k + 1) \ {k + 1} = 1..k
<1>1. ASSUME NEW k \in 0..n - 1
      PROVE  /\ 1..k + 1 \in SUBSET (1..n) /\ 1..k + 1 # {}
             /\ Max(1..k + 1) = k + 1 /\ (1..k + 1) \ {k + 1} = 1..k
  <2>1. k \in Nat /\ k + 1 \in 1..k + 1 /\ 1..k + 1 \in SUBSET (1..n)
    OBVIOUS
  <2> QED
    BY <2>1, MaxOfInterval
<1>2. 1..0 = {} /\ {} \in SUBSET (1..n)
  OBVIOUS
<1> QED
  BY <1>1, <1>2

\* w follows s: it starts with b, and f makes each value of the one before.
Follows(f, w, s, b) ==
    w = [n \in 0..Len(s) |-> IF n = 0 THEN b ELSE f[<<w[n - 1], s[n]>>]]

\* A recursion along a sequence has a solution, with its values in the set.
LEMMA Recursion ==
    ASSUME NEW States, NEW Items, NEW f \in [States \X Items -> States],
           NEW b \in States, NEW s \in Seq(Items)
    PROVE  \E w \in [0..Len(s) -> States] : Follows(f, w, s, b)
<1> DEFINE n == Len(s)
<1>1. n \in Nat /\ DOMAIN s = 1..n /\ \A k \in 1..n : s[k] \in Items
  OBVIOUS
<1>2. PICK g : FoldBy(f, g, s, b) /\ FoldIn(States, Items, g, s)
  BY TypedFold
<1> HIDE DEF n
<1>3. g[{}] = b /\ \A u \in SUBSET (1..n) : u # {} =>
                      /\ g[u] = f[<<g[u \ {Max(u)}], s[Max(u)]>>]
                      /\ g[u \ {Max(u)}] \in States
  BY <1>1, <1>2 DEF FoldBy, FoldIn
<1> DEFINE w == [k \in 0..n |-> g[1..k]]
<1>4. g[1..0] = b
  BY <1>1, <1>3, OneIndexMore
<1>5. ASSUME NEW k \in 1..n
      PROVE  g[1..k] = f[<<g[1..k - 1], s[k]>>] /\ g[1..k - 1] \in States
  <2> DEFINE u == 1..k
  <2>1. k - 1 \in 0..n - 1 /\ (k - 1) + 1 = k
    BY <1>1
  <2>2. u \in SUBSET (1..n) /\ u # {} /\ Max(u) = k /\ u \ {k} = 1..k - 1
    BY <1>1, <2>1, OneIndexMore
  <2> HIDE DEF u
  <2>3. g[u] = f[<<g[1..k - 1], s[k]>>] /\ g[1..k - 1] \in States
    BY <1>3, <2>2
  <2> QED
    BY <2>3 DEF u
<1>6. \A k \in 1..n : k \in 0..n /\ k - 1 \in 0..n
  BY <1>1
<1>7. \A k \in 0..n : k # 0 => k \in 1..n
  BY <1>1
<1>8. \A k \in 0..n : g[1..k] \in States
  BY <1>1, <1>4, <1>5, <1>7
<1>9. w \in [0..n -> States] /\ \A k \in 0..n : w[k] = g[1..k]
  BY <1>8
<1>10. ASSUME NEW k \in 0..n
       PROVE  w[k] = IF k = 0 THEN b ELSE f[<<w[k - 1], s[k]>>]
  <2> HIDE DEF w
  <2>1. CASE k = 0
    BY <1>4, <1>9, <2>1
  <2>2. CASE k # 0
    <3>1. k \in 1..n /\ k - 1 \in 0..n
      BY <1>6, <1>7, <2>2
    <3> QED
      BY <1>5, <1>9, <2>2, <3>1
  <2> QED
    BY <2>1, <2>2
<1> HIDE DEF w
<1>11. w = [k \in 0..n |-> IF k = 0 THEN b ELSE f[<<w[k - 1], s[k]>>]]
  BY <1>9, <1>10
<1> QED
  BY <1>9, <1>11 DEF n, Follows

LEMMA ScanFold ==
    ASSUME NEW s \in Seq(Message), NEW b
    PROVE  \E g : /\ FoldStep(ByScan, g, s, b, Len(s))
                  /\ FoldLeft(ScanMessage, b, s) = g[1..Len(s)]
<1> DEFINE F(g) == g = [u \in SUBSET DOMAIN s |->
                          IF u = {} THEN b ELSE ScanMessage(g[u \ {Max(u)}], s[Max(u)])]
<1>1. FoldLeft(ScanMessage, b, s) = (CHOOSE g : F(g))[DOMAIN s]
  BY DEF FoldLeft, MapThenFoldSet
<1>2. DOMAIN s = 1..Len(s) /\ Len(s) \in Nat
  OBVIOUS
<1>3. \A g : F(g) <=> FoldStep(ByScan, g, s, b, Len(s))
  BY <1>2 DEF FoldStep, Taken, ByScan, ByReplay
<1>4. \E g : F(g)
  BY <1>2, <1>3, FoldExists
<1> HIDE DEF F
<1>5. F(CHOOSE g : F(g))
  BY <1>4
<1> QED
  BY <1>1, <1>2, <1>3, <1>5

LEMMA ReplayFold ==
    ASSUME NEW s \in Seq(SessionEvent), NEW b
    PROVE  \E g : /\ FoldStep(ByReplay, g, s, b, Len(s))
                  /\ FoldLeft(ReplayEvent, b, s) = g[1..Len(s)]
<1> DEFINE F(g) == g = [u \in SUBSET DOMAIN s |->
                          IF u = {} THEN b ELSE ReplayEvent(g[u \ {Max(u)}], s[Max(u)])]
<1>1. FoldLeft(ReplayEvent, b, s) = (CHOOSE g : F(g))[DOMAIN s]
  BY DEF FoldLeft, MapThenFoldSet
<1>2. DOMAIN s = 1..Len(s) /\ Len(s) \in Nat
  OBVIOUS
<1>3. \A g : F(g) <=> FoldStep(ByReplay, g, s, b, Len(s))
  BY <1>2 DEF FoldStep, Taken, ByScan, ByReplay
<1>4. \E g : F(g)
  BY <1>2, <1>3, FoldExists
<1> HIDE DEF F
<1>5. F(CHOOSE g : F(g))
  BY <1>4
<1> QED
  BY <1>1, <1>2, <1>3, <1>5

\* Where the scan of the messages s, and of the events s, has come to.
ScanState(s) == FoldLeft(ScanMessage, StartOfScan, s)
ReplayState(s) == FoldLeft(ReplayEvent, StartOfReplay, s)

LEMMA ScanBegins == ScanState(<<>>) = StartOfScan
<1>1. <<>> \in Seq(Message) /\ Len(<<>>) = 0 /\ 1..0 = {} /\ {} \in SUBSET (1..0)
  OBVIOUS
<1>2. PICK g : /\ FoldStep(ByScan, g, <<>>, StartOfScan, 0)
               /\ FoldLeft(ScanMessage, StartOfScan, <<>>) = g[1..0]
  BY <1>1, ScanFold
<1> QED
  BY <1>1, <1>2 DEF FoldStep, ScanState

LEMMA ScanAppends ==
    ASSUME NEW s \in Seq(Message), NEW e \in Message
    PROVE  ScanState(Append(s, e)) = ScanMessage(ScanState(s), e)
<1> DEFINE t == Append(s, e)
           n == Len(s)
           b == StartOfScan
<1>1. /\ t \in Seq(Message) /\ n \in Nat /\ Len(t) = n + 1
      /\ t[n + 1] = e /\ \A i \in 1..n : s[i] = t[i]
  OBVIOUS
<1> HIDE DEF t, n, b
<1>2. PICK g : FoldStep(ByScan, g, s, b, n) /\ FoldLeft(ScanMessage, b, s) = g[1..n]
  BY ScanFold DEF n
<1>3. PICK h : /\ FoldStep(ByScan, h, t, b, n + 1)
               /\ FoldLeft(ScanMessage, b, t) = h[1..n + 1]
  BY <1>1, ScanFold
<1>4. g[1..n] = h[1..n]
  BY <1>1, <1>2, <1>3, FoldAgrees
<1>5. h[1..n + 1] = Taken(ByScan, h[1..n], t[n + 1])
  <2>1. 1..n + 1 # {} /\ Max(1..n + 1) = n + 1 /\ (1..n + 1) \ {n + 1} = 1..n
    <3>1. n + 1 \in 1..n + 1
      BY <1>1
    <3> QED
      BY <1>1, <3>1, MaxOfInterval
  <2> QED
    BY <1>3, <2>1 DEF FoldStep
<1> QED
  BY <1>1, <1>2, <1>3, <1>4, <1>5 DEF t, b, ScanState, Taken, ByScan

LEMMA ReplayBegins == ReplayState(<<>>) = StartOfReplay
<1>1. <<>> \in Seq(SessionEvent) /\ Len(<<>>) = 0 /\ 1..0 = {} /\ {} \in SUBSET (1..0)
  OBVIOUS
<1>2. PICK g : /\ FoldStep(ByReplay, g, <<>>, StartOfReplay, 0)
               /\ FoldLeft(ReplayEvent, StartOfReplay, <<>>) = g[1..0]
  BY <1>1, ReplayFold
<1> QED
  BY <1>1, <1>2 DEF FoldStep, ReplayState

LEMMA ReplayAppends ==
    ASSUME NEW s \in Seq(SessionEvent), NEW e \in SessionEvent
    PROVE  ReplayState(Append(s, e)) = ReplayEvent(ReplayState(s), e)
<1> DEFINE t == Append(s, e)
           n == Len(s)
           b == StartOfReplay
<1>1. /\ t \in Seq(SessionEvent) /\ n \in Nat /\ Len(t) = n + 1
      /\ t[n + 1] = e /\ \A i \in 1..n : s[i] = t[i]
  OBVIOUS
<1> HIDE DEF t, n, b
<1>2. PICK g : FoldStep(ByReplay, g, s, b, n) /\ FoldLeft(ReplayEvent, b, s) = g[1..n]
  BY ReplayFold DEF n
<1>3. PICK h : /\ FoldStep(ByReplay, h, t, b, n + 1)
               /\ FoldLeft(ReplayEvent, b, t) = h[1..n + 1]
  BY <1>1, ReplayFold
<1>4. g[1..n] = h[1..n]
  BY <1>1, <1>2, <1>3, FoldAgrees
<1>5. h[1..n + 1] = Taken(ByReplay, h[1..n], t[n + 1])
  <2>1. 1..n + 1 # {} /\ Max(1..n + 1) = n + 1 /\ (1..n + 1) \ {n + 1} = 1..n
    <3>1. n + 1 \in 1..n + 1
      BY <1>1
    <3> QED
      BY <1>1, <3>1, MaxOfInterval
  <2> QED
    BY <1>3, <2>1 DEF FoldStep
<1> QED
  BY <1>1, <1>2, <1>3, <1>4, <1>5 DEF t, b, ReplayState, Taken, ByScan, ByReplay

-------------------------------------------------------------------------------
(***************************************************************************)
(* The scan of projectMessages accepts exactly the paired histories        *)
(***************************************************************************)
\* The values the scan's variables have.
Scans == [accepted : BOOLEAN, pending : Seq(CallId), seenToolResults : SUBSET CallId]

\* Paired as far as it goes: the results of the last group may be missing.
AnsweredSoFar(s, i) ==
    \A k \in DOMAIN s[i].calls :
        i + k <= Len(s) => /\ i + k \in ResultIndices(s)
                           /\ s[i + k].call = s[i].calls[k]
PairedSoFar(s) ==
    /\ \A i \in GroupStarts(s) : AnsweredSoFar(s, i)
    /\ \A j \in ResultIndices(s) : Owned(s, j)
    /\ \A j, k \in ResultIndices(s) : s[j].call = s[k].call => j = k

\* What the scan knows of a history it has accepted so far.
ScanKnows(s, e) ==
    /\ e.seenToolResults = ResultCalls(s)
    /\ s = <<>> => e.pending = <<>>
    /\ s # <<>> => \E g \in GroupStarts(s) :
          /\ \A j \in GroupStarts(s) : j <= g
          /\ Len(s) <= g + Len(s[g].calls)
          /\ e.pending = SubSeq(s[g].calls, Len(s) - g + 1, Len(s[g].calls))

\* Taking the first of a remaining part leaves the part from the next one on.
LEMMA RestOfSubSeq ==
    ASSUME NEW E, NEW c \in Seq(E), NEW a \in 1..Len(c) + 1
    PROVE  /\ Len(SubSeq(c, a, Len(c))) = Len(c) - a + 1
           /\ SubSeq(c, a, Len(c)) # <<>> <=> a <= Len(c)
           /\ a <= Len(c) => /\ Head(SubSeq(c, a, Len(c))) = c[a]
                             /\ Tail(SubSeq(c, a, Len(c))) = SubSeq(c, a + 1, Len(c))
<1>1. Len(SubSeq(c, a, Len(c))) = Len(c) - a + 1
  OBVIOUS
<1>2. SubSeq(c, a, Len(c)) # <<>> <=> a <= Len(c)
  <2>1. SubSeq(c, a, Len(c)) \in Seq(E) /\ Len(c) \in Nat
    OBVIOUS
  <2>2. \A x \in Seq(E) : x = <<>> <=> Len(x) = 0
    OBVIOUS
  <2>3. SubSeq(c, a, Len(c)) = <<>> <=> Len(SubSeq(c, a, Len(c))) = 0
    BY <2>1, <2>2
  <2>4. Len(SubSeq(c, a, Len(c))) = 0 <=> ~(a <= Len(c))
    BY <1>1, <2>1
  <2> QED
    BY <2>3, <2>4
<1>3. ASSUME a <= Len(c)
      PROVE  /\ Head(SubSeq(c, a, Len(c))) = c[a]
             /\ Tail(SubSeq(c, a, Len(c))) = SubSeq(c, a + 1, Len(c))
  <2>1. Head(SubSeq(c, a, Len(c))) = c[a]
    BY <1>3
  <2>2. Tail(SubSeq(c, a, Len(c))) = SubSeq(c, a + 1, Len(c))
    BY <1>3
  <2> QED
    BY <2>1, <2>2
<1> QED
  BY <1>1, <1>2, <1>3

\* What one message more changes.
LEMMA OneMore ==
    ASSUME NEW s \in Seq(Message), NEW m \in Message
    PROVE  LET t == Append(s, m)
               n == Len(s)
           IN  /\ t \in Seq(Message) /\ n \in Nat /\ Len(t) = n + 1
               /\ t[n + 1] = m /\ \A i \in 1..n : t[i] = s[i]
               /\ DOMAIN t = 1..n + 1
               /\ m.role = "tool" => /\ GroupStarts(t) = GroupStarts(s)
                                     /\ ResultIndices(t) = ResultIndices(s) \union {n + 1}
               /\ m.role # "tool" => /\ GroupStarts(t) = GroupStarts(s) \union {n + 1}
                                     /\ ResultIndices(t) = ResultIndices(s)
               /\ GroupStarts(s) \subseteq 1..n /\ ResultIndices(s) \subseteq 1..n
<1> DEFINE t == Append(s, m)
           n == Len(s)
<1>1. /\ t \in Seq(Message) /\ n \in Nat /\ Len(t) = n + 1
      /\ t[n + 1] = m /\ \A i \in 1..n : t[i] = s[i]
      /\ DOMAIN t = 1..n + 1 /\ DOMAIN s = 1..n
  OBVIOUS
<1> HIDE DEF t, n
<1>2. /\ GroupStarts(s) = {i \in 1..n : s[i].role # "tool"}
      /\ GroupStarts(t) = {i \in 1..n + 1 : t[i].role # "tool"}
      /\ ResultIndices(s) = {i \in 1..n : s[i].role = "tool"}
      /\ ResultIndices(t) = {i \in 1..n + 1 : t[i].role = "tool"}
  BY <1>1 DEF GroupStarts, ResultIndices
<1>3. 1..n + 1 = (1..n) \union {n + 1} /\ n + 1 \notin 1..n
  BY <1>1
<1>4. m.role = "tool" => /\ GroupStarts(t) = GroupStarts(s)
                         /\ ResultIndices(t) = ResultIndices(s) \union {n + 1}
  BY <1>1, <1>2, <1>3
<1>5. m.role # "tool" => /\ GroupStarts(t) = GroupStarts(s) \union {n + 1}
                         /\ ResultIndices(t) = ResultIndices(s)
  BY <1>1, <1>2, <1>3
<1> QED
  BY <1>1, <1>2, <1>4, <1>5 DEF t, n

\* A beginning of what is paired as far as it goes is so too.
LEMMA PairedSoFarBegins ==
    ASSUME NEW s \in Seq(Message), NEW m \in Message, PairedSoFar(Append(s, m))
    PROVE  PairedSoFar(s)
<1> DEFINE t == Append(s, m)
           n == Len(s)
<1>1. /\ n \in Nat /\ Len(t) = n + 1
      /\ \A i \in 1..n : t[i] = s[i]
      /\ GroupStarts(s) \subseteq GroupStarts(t)
      /\ ResultIndices(s) \subseteq ResultIndices(t)
      /\ GroupStarts(s) \subseteq 1..n /\ ResultIndices(s) \subseteq 1..n
      /\ GroupStarts(t) \subseteq GroupStarts(s) \union {n + 1}
      /\ ResultIndices(t) \subseteq ResultIndices(s) \union {n + 1}
  BY OneMore
<1>2. PairedSoFar(t)
  OBVIOUS
<1>3. \A i \in GroupStarts(s) : DOMAIN s[i].calls = 1..Len(s[i].calls)
                                /\ Len(s[i].calls) \in Nat
  BY CallsOfMessages DEF GroupStarts
<1> HIDE DEF t, n
<1>4. ASSUME NEW i \in GroupStarts(s) PROVE AnsweredSoFar(s, i)
  <2> SUFFICES ASSUME NEW k \in DOMAIN s[i].calls, i + k <= Len(s)
               PROVE  i + k \in ResultIndices(s) /\ s[i + k].call = s[i].calls[k]
    BY DEF AnsweredSoFar
  <2>1. i \in 1..n /\ k \in Nat /\ k >= 1 /\ i + k \in 1..n /\ t[i] = s[i]
    BY <1>1, <1>3 DEF n
  <2>2. i + k \in ResultIndices(t) /\ t[i + k].call = t[i].calls[k]
    BY <1>1, <1>2, <2>1 DEF PairedSoFar, AnsweredSoFar
  <2> QED
    BY <1>1, <2>1, <2>2
<1>5. ASSUME NEW j \in ResultIndices(s) PROVE Owned(s, j)
  <2>1. PICK i \in GroupStarts(t) : j \in i + 1 .. i + Len(t[i].calls)
    BY <1>1, <1>2 DEF PairedSoFar, Owned
  <2>2. i # n + 1
    BY <1>1, <2>1
  <2>3. i \in GroupStarts(s) /\ t[i] = s[i]
    BY <1>1, <2>1, <2>2
  <2> QED
    BY <2>1, <2>3 DEF Owned
<1>6. \A j, k \in ResultIndices(s) : s[j].call = s[k].call => j = k
  BY <1>1, <1>2 DEF PairedSoFar
<1> QED
  BY <1>4, <1>5, <1>6 DEF PairedSoFar

\* The scan accepts one message more exactly if the history stays paired as
\* far as it goes: if that is a result ...
LEMMA ScanTakesResult ==
    ASSUME NEW s \in Seq(Message), NEW m \in Message, m.role = "tool",
           NEW e \in Scans, e.accepted, PairedSoFar(s), ScanKnows(s, e)
    PROVE  /\ Accepts(e, m) <=> PairedSoFar(Append(s, m))
           /\ Accepts(e, m) => ScanKnows(Append(s, m),
                                  [e EXCEPT !.pending = Tail(@),
                                            !.seenToolResults = @ \union {m.call}])
<1> DEFINE t == Append(s, m)
           n == Len(s)
           f == [e EXCEPT !.pending = Tail(@), !.seenToolResults = @ \union {m.call}]
<1>1. /\ t \in Seq(Message) /\ n \in Nat /\ Len(t) = n + 1
      /\ t[n + 1] = m /\ \A i \in 1..n : t[i] = s[i]
      /\ GroupStarts(t) = GroupStarts(s)
      /\ ResultIndices(t) = ResultIndices(s) \union {n + 1}
      /\ GroupStarts(s) \subseteq 1..n /\ ResultIndices(s) \subseteq 1..n
  BY OneMore
<1>2. \A i \in GroupStarts(s) : DOMAIN s[i].calls = 1..Len(s[i].calls)
                                /\ Len(s[i].calls) \in Nat /\ s[i].calls \in Seq(CallId)
  BY CallsOfMessages DEF GroupStarts
<1> HIDE DEF t
<1>3. CASE s = <<>>
  <2>1. ~Accepts(e, m)
    BY <1>3 DEF Accepts, ScanKnows
  <2>2. ~Owned(t, 1)
    BY <1>1, <1>3 DEF Owned
  <2>3. 1 \in ResultIndices(t)
    BY <1>1, <1>3
  <2>4. ~PairedSoFar(t)
    BY <2>2, <2>3 DEF PairedSoFar
  <2> QED
    BY <2>1, <2>4 DEF t
<1>4. CASE s # <<>>
  <2>1. PICK g \in GroupStarts(s) :
          /\ \A j \in GroupStarts(s) : j <= g
          /\ n <= g + Len(s[g].calls)
          /\ e.pending = SubSeq(s[g].calls, n - g + 1, Len(s[g].calls))
    BY <1>4 DEF ScanKnows
  <2> DEFINE c == s[g].calls
             a == n - g + 1
  <2>2. /\ c \in Seq(CallId) /\ Len(c) \in Nat /\ g \in 1..n
        /\ a \in 1..Len(c) + 1 /\ t[g] = s[g] /\ DOMAIN c = 1..Len(c)
    BY <1>1, <1>2, <2>1
  <2>3. /\ e.pending # <<>> <=> a <= Len(c)
        /\ a <= Len(c) => /\ Head(e.pending) = c[a]
                          /\ Tail(e.pending) = SubSeq(c, a + 1, Len(c))
    <3>1. /\ SubSeq(c, a, Len(c)) # <<>> <=> a <= Len(c)
          /\ a <= Len(c) => /\ Head(SubSeq(c, a, Len(c))) = c[a]
                            /\ Tail(SubSeq(c, a, Len(c))) = SubSeq(c, a + 1, Len(c))
      <4> HIDE DEF a, c
      <4> QED
        BY <2>2, RestOfSubSeq
    <3> QED
      BY <2>1, <3>1
  <2>4. g + a = n + 1 /\ a + 1 = Len(t) - g + 1
    BY <1>1, <2>2
  <2> HIDE DEF a, c, n
  <2>5. Accepts(e, m) <=> /\ a <= Len(c)
                          /\ m.call = c[a]
                          /\ m.call \notin ResultCalls(s)
    BY <2>3 DEF Accepts, ScanKnows
  <2>6. ASSUME a <= Len(c), m.call = c[a], m.call \notin ResultCalls(s)
        PROVE  PairedSoFar(t)
    <3>1. ASSUME NEW i \in GroupStarts(t) PROVE AnsweredSoFar(t, i)
      <4> SUFFICES ASSUME NEW k \in DOMAIN t[i].calls, i + k <= n + 1
                   PROVE  i + k \in ResultIndices(t) /\ t[i + k].call = t[i].calls[k]
        BY <1>1 DEF AnsweredSoFar
      <4>1. i \in GroupStarts(s) /\ i \in 1..n /\ t[i] = s[i] /\ k \in Nat /\ k >= 1
        BY <1>1, <1>2
      <4>2. CASE i + k <= n
        <5>1. i + k \in ResultIndices(s) /\ s[i + k].call = s[i].calls[k]
          BY <4>1, <4>2 DEF PairedSoFar, AnsweredSoFar, n
        <5> QED
          BY <1>1, <4>1, <5>1
      <4>3. CASE i + k = n + 1
        <5>1. i = g
          <6>1. SUFFICES ASSUME i # g PROVE FALSE
            OBVIOUS
          <6>2. i < g /\ g - i < k
            BY <1>1, <2>1, <2>2, <4>1, <4>3, <6>1
          <6>3. g - i \in DOMAIN s[i].calls /\ i + (g - i) = g
            BY <1>2, <2>2, <4>1, <6>2
          <6>4. g \in ResultIndices(s)
            BY <2>2, <4>1, <6>3 DEF PairedSoFar, AnsweredSoFar, n
          <6> QED
            BY <2>1, <6>4 DEF ResultIndices
        <5>2. k = a /\ t[i].calls = c
          BY <1>1, <2>2, <2>4, <4>1, <4>3, <5>1 DEF c, a
        <5> QED
          BY <1>1, <2>6, <4>3, <5>2
      <4> QED
        BY <1>1, <4>1, <4>2, <4>3
    <3>2. ASSUME NEW j \in ResultIndices(t) PROVE Owned(t, j)
      <4>1. CASE j \in ResultIndices(s)
        <5>1. PICK i \in GroupStarts(s) : j \in i + 1 .. i + Len(s[i].calls)
          BY <4>1 DEF PairedSoFar, Owned
        <5>2. i \in GroupStarts(t) /\ t[i] = s[i]
          BY <1>1
        <5> QED
          BY <5>1, <5>2 DEF Owned
      <4>2. CASE j = n + 1
        <5>1. j \in g + 1 .. g + Len(c)
          BY <1>1, <2>2, <2>4, <2>6, <4>2
        <5> QED
          BY <1>1, <2>2, <5>1 DEF Owned, c
      <4> QED
        BY <1>1, <4>1, <4>2
    <3>3. ASSUME NEW j \in ResultIndices(t), NEW k \in ResultIndices(t), t[j].call = t[k].call
          PROVE  j = k
      <4>1. \A i \in ResultIndices(s) : t[i] = s[i] /\ s[i].call \in ResultCalls(s)
        BY <1>1 DEF ResultCalls
      <4> QED
        BY <1>1, <2>6, <3>3, <4>1 DEF PairedSoFar
    <3> QED
      BY <3>1, <3>2, <3>3 DEF PairedSoFar
  <2>7. ASSUME PairedSoFar(t)
        PROVE  a <= Len(c) /\ m.call = c[a] /\ m.call \notin ResultCalls(s)
    <3>1. n + 1 \in ResultIndices(t)
      BY <1>1
    <3>2. PICK i \in GroupStarts(t) : n + 1 \in i + 1 .. i + Len(t[i].calls)
      BY <2>7, <3>1 DEF PairedSoFar, Owned
    <3>3. i \in GroupStarts(s) /\ i \in 1..n /\ t[i] = s[i] /\ Len(s[i].calls) \in Nat
      BY <1>1, <1>2
    <3>4. i = g
      <4>1. SUFFICES ASSUME i # g PROVE FALSE
        OBVIOUS
      <4>2. i < g /\ g - i \in 1..Len(s[i].calls)
        <5>1. PICK l \in Nat : l = Len(s[i].calls)
          BY <3>3
        <5>2. n + 1 \in i + 1 .. i + l /\ i <= g
          BY <2>1, <3>2, <3>3, <5>1
        <5>3. i < g /\ g - i \in 1..l
          BY <1>1, <2>2, <3>3, <4>1, <5>1, <5>2
        <5> QED
          BY <5>1, <5>3
      <4>3. g - i \in DOMAIN t[i].calls /\ i + (g - i) = g /\ g <= Len(t)
        BY <1>1, <1>2, <2>2, <3>3, <4>2
      <4>4. g \in ResultIndices(t)
        BY <2>7, <4>3 DEF PairedSoFar, AnsweredSoFar
      <4> QED
        BY <1>1, <2>1, <4>4 DEF ResultIndices
    <3>5. a <= Len(c)
      BY <1>1, <2>2, <2>4, <3>2, <3>3, <3>4 DEF c
    <3>6. a \in DOMAIN t[g].calls /\ g + a <= Len(t)
      BY <1>1, <2>2, <2>4, <3>5 DEF c
    <3>7. t[g + a].call = t[g].calls[a]
      BY <1>1, <2>1, <2>7, <3>6 DEF PairedSoFar, AnsweredSoFar
    <3>8. m.call = c[a]
      BY <1>1, <2>2, <2>4, <3>7 DEF c
    <3>9. m.call \notin ResultCalls(s)
      <4> SUFFICES ASSUME NEW j \in ResultIndices(s), s[j].call = m.call PROVE FALSE
        BY DEF ResultCalls
      <4>1. j \in ResultIndices(t) /\ t[j].call = t[n + 1].call /\ j # n + 1
        BY <1>1
      <4> QED
        BY <2>7, <3>1, <4>1 DEF PairedSoFar
    <3> QED
      BY <3>5, <3>8, <3>9
  <2>8. ASSUME a <= Len(c), m.call = c[a], m.call \notin ResultCalls(s)
        PROVE  ScanKnows(t, f)
    <3>1. f.seenToolResults = e.seenToolResults \union {m.call} /\ f.pending = Tail(e.pending)
      BY DEF Scans
    <3>2. ResultCalls(t) = ResultCalls(s) \union {m.call}
      BY <1>1 DEF ResultCalls
    <3>3. t # <<>>
      BY <1>1
    <3>4. Len(t) <= g + Len(t[g].calls)
      BY <1>1, <2>2, <2>4, <2>8 DEF c
    <3>5. f.pending = SubSeq(t[g].calls, Len(t) - g + 1, Len(t[g].calls))
      BY <2>2, <2>3, <2>4, <2>8, <3>1 DEF c
    <3> QED
      BY <1>1, <2>1, <3>1, <3>2, <3>3, <3>4, <3>5 DEF ScanKnows
  <2> QED
    BY <2>5, <2>6, <2>7, <2>8 DEF t
<1> QED
  BY <1>3, <1>4

\* ... and if it is any other message.
LEMMA ScanTakesMessage ==
    ASSUME NEW s \in Seq(Message), NEW m \in Message, m.role # "tool",
           NEW e \in Scans, e.accepted, PairedSoFar(s), ScanKnows(s, e)
    PROVE  /\ Accepts(e, m) <=> PairedSoFar(Append(s, m))
           /\ ScanKnows(Append(s, m), [e EXCEPT !.pending = m.calls])
<1> DEFINE t == Append(s, m)
           n == Len(s)
           f == [e EXCEPT !.pending = m.calls]
<1>1. /\ t \in Seq(Message) /\ n \in Nat /\ Len(t) = n + 1
      /\ t[n + 1] = m /\ \A i \in 1..n : t[i] = s[i]
      /\ GroupStarts(t) = GroupStarts(s) \union {n + 1}
      /\ ResultIndices(t) = ResultIndices(s)
      /\ GroupStarts(s) \subseteq 1..n /\ ResultIndices(s) \subseteq 1..n
  BY OneMore
<1>2. /\ \A i \in GroupStarts(s) : DOMAIN s[i].calls = 1..Len(s[i].calls)
                                   /\ Len(s[i].calls) \in Nat /\ s[i].calls \in Seq(CallId)
      /\ m.calls \in Seq(CallId) /\ Len(m.calls) \in Nat
  <2>1. m.calls \in Seq(CallId)
    BY DEF Message
  <2>2. \A i \in GroupStarts(s) : DOMAIN s[i].calls = 1..Len(s[i].calls)
                                  /\ Len(s[i].calls) \in Nat /\ s[i].calls \in Seq(CallId)
    BY CallsOfMessages DEF GroupStarts
  <2> QED
    BY <2>1, <2>2
<1> HIDE DEF t
<1>3. Accepts(e, m) <=> e.pending = <<>>
  BY DEF Accepts
<1>4. ScanKnows(t, f)
  <2>1. f.pending = m.calls /\ f.seenToolResults = e.seenToolResults
    BY DEF Scans
  <2>2. ResultCalls(t) = ResultCalls(s)
    BY <1>1 DEF ResultCalls
  <2>3. m.calls = SubSeq(t[n + 1].calls, Len(t) - (n + 1) + 1, Len(t[n + 1].calls))
    <3>1. Len(t) - (n + 1) + 1 = 1 /\ t[n + 1].calls = m.calls
      BY <1>1
    <3>2. SubSeq(m.calls, 1, Len(m.calls)) = m.calls
      BY <1>2
    <3> QED
      BY <3>1, <3>2
  <2>4. /\ n + 1 \in GroupStarts(t) /\ \A j \in GroupStarts(t) : j <= n + 1
        /\ Len(t) <= (n + 1) + Len(t[n + 1].calls)
        /\ t # <<>>
    <3>1. n + 1 \in GroupStarts(t) /\ t # <<>>
      BY <1>1
    <3>2. \A j \in GroupStarts(t) : j <= n + 1
      BY <1>1
    <3>3. PICK l \in Nat : l = Len(t[n + 1].calls)
      BY <1>1, <1>2
    <3>4. Len(t) <= (n + 1) + Len(t[n + 1].calls)
      <4>1. n + 1 <= (n + 1) + l
        BY <1>1
      <4> QED
        BY <1>1, <3>3, <4>1
    <3> QED
      BY <3>1, <3>2, <3>4
  <2> QED
    BY <2>1, <2>2, <2>3, <2>4 DEF ScanKnows
\* A group that is complete does not reach the new message.
<1>5. ASSUME \A i \in GroupStarts(s) : i + Len(s[i].calls) < n + 1
      PROVE  PairedSoFar(t)
  <2>1. ASSUME NEW i \in GroupStarts(t) PROVE AnsweredSoFar(t, i)
    <3> SUFFICES ASSUME NEW k \in DOMAIN t[i].calls, i + k <= n + 1
                 PROVE  i + k \in ResultIndices(t) /\ t[i + k].call = t[i].calls[k]
      BY <1>1 DEF AnsweredSoFar
    <3>1. i # n + 1
      BY <1>1, <1>2
    <3>2. i \in GroupStarts(s) /\ i \in 1..n /\ t[i] = s[i]
      BY <1>1, <3>1
    <3>3. PICK l \in Nat : l = Len(s[i].calls) /\ k \in 1..l /\ i + l < n + 1
      BY <1>2, <1>5, <3>2
    <3>4. i + k <= n /\ i + k \in 1..n
      BY <1>1, <3>2, <3>3
    <3>5. i + k \in ResultIndices(s) /\ s[i + k].call = s[i].calls[k]
      BY <3>2, <3>4 DEF PairedSoFar, AnsweredSoFar
    <3> QED
      BY <1>1, <3>2, <3>4, <3>5
  <2>2. ASSUME NEW j \in ResultIndices(t) PROVE Owned(t, j)
    <3>1. PICK i \in GroupStarts(s) : j \in i + 1 .. i + Len(s[i].calls)
      BY <1>1, <2>2 DEF PairedSoFar, Owned
    <3>2. i \in GroupStarts(t) /\ t[i] = s[i]
      BY <1>1
    <3> QED
      BY <3>1, <3>2 DEF Owned
  <2>3. \A j, k \in ResultIndices(t) : t[j].call = t[k].call => j = k
    BY <1>1 DEF PairedSoFar
  <2> QED
    BY <2>1, <2>2, <2>3 DEF PairedSoFar
<1>6. ASSUME PairedSoFar(t), NEW i \in GroupStarts(s)
      PROVE  i + Len(s[i].calls) < n + 1
  <2>1. SUFFICES ASSUME i + Len(s[i].calls) >= n + 1 PROVE FALSE
    BY <1>1, <1>2
  <2>2. PICK l \in Nat : l = Len(s[i].calls)
    BY <1>2
  <2>3. (n + 1) - i \in 1..l /\ i + ((n + 1) - i) = n + 1 /\ i \in 1..n
    BY <1>1, <2>1, <2>2
  <2>4. (n + 1) - i \in DOMAIN t[i].calls /\ t[i] = s[i]
    BY <1>1, <1>2, <2>2, <2>3
  <2>5. n + 1 \in ResultIndices(t)
    BY <1>1, <1>6, <2>3, <2>4 DEF PairedSoFar, AnsweredSoFar
  <2> QED
    BY <1>1, <2>5
<1>7. CASE s = <<>>
  <2>1. e.pending = <<>> /\ GroupStarts(s) = {}
    BY <1>1, <1>7 DEF ScanKnows
  <2> QED
    BY <1>3, <1>4, <1>5, <2>1 DEF t
<1>8. CASE s # <<>>
  <2>1. PICK g \in GroupStarts(s) :
          /\ \A j \in GroupStarts(s) : j <= g
          /\ n <= g + Len(s[g].calls)
          /\ e.pending = SubSeq(s[g].calls, n - g + 1, Len(s[g].calls))
    BY <1>8 DEF ScanKnows
  <2> DEFINE c == s[g].calls
             a == n - g + 1
  <2>2. /\ c \in Seq(CallId) /\ Len(c) \in Nat /\ g \in 1..n
        /\ a \in 1..Len(c) + 1
    BY <1>1, <1>2, <2>1
  <2>3. e.pending # <<>> <=> a <= Len(c)
    <3>1. SubSeq(c, a, Len(c)) # <<>> <=> a <= Len(c)
      <4> HIDE DEF a, c
      <4> QED
        BY <2>2, RestOfSubSeq
    <3> QED
      BY <2>1, <3>1
  <2>4. ASSUME e.pending = <<>>, NEW i \in GroupStarts(s)
        PROVE  i + Len(s[i].calls) < n + 1
    <3>1. CASE i = g
      BY <1>1, <2>2, <2>3, <2>4, <3>1
    <3>2. CASE i # g
      <4>1. PICK l \in Nat : l = Len(s[i].calls) /\ DOMAIN s[i].calls = 1..l
        BY <1>2
      <4>2. i < g /\ i \in 1..n
        BY <1>1, <2>1, <2>2, <3>2
      <4>3. SUFFICES ASSUME i + l >= g PROVE FALSE
        BY <1>1, <2>2, <4>1, <4>2
      <4>4. g - i \in DOMAIN s[i].calls /\ i + (g - i) = g /\ g <= n
        BY <2>2, <4>1, <4>2, <4>3
      <4>5. g \in ResultIndices(s)
        BY <4>4 DEF PairedSoFar, AnsweredSoFar
      <4> QED
        BY <2>1, <4>5 DEF ResultIndices
    <3> QED
      BY <3>1, <3>2
  <2>5. ASSUME g + Len(s[g].calls) < n + 1 PROVE e.pending = <<>>
    BY <1>1, <2>2, <2>3, <2>5
  <2> QED
    BY <1>3, <1>4, <1>5, <1>6, <2>1, <2>4, <2>5 DEF t
<1> QED
  BY <1>7, <1>8

\* By the shortest beginning for which it would be wrong.
LEMMA ScanIsRight ==
    ASSUME NEW s \in Seq(Message)
    PROVE  /\ ScanState(s) \in Scans
           /\ ScanState(s).accepted <=> PairedSoFar(s)
           /\ ScanState(s).accepted => ScanKnows(s, ScanState(s))
<1> DEFINE Right(t) == /\ ScanState(t) \in Scans
                       /\ ScanState(t).accepted <=> PairedSoFar(t)
                       /\ ScanState(t).accepted => ScanKnows(t, ScanState(t))
           Begin(k) == SubSeq(s, 1, k)
           Bad == {k \in 0..Len(s) : ~Right(Begin(k))}
<1>1. Right(<<>>)
  <2>1. ScanState(<<>>) = StartOfScan
    BY ScanBegins
  <2>2. GroupStarts(<<>>) = {} /\ ResultIndices(<<>>) = {}
    BY DEF GroupStarts, ResultIndices
  <2>3. PairedSoFar(<<>>) /\ ResultCalls(<<>>) = {}
    BY <2>2 DEF PairedSoFar, ResultCalls
  <2>4. StartOfScan \in Scans
    BY DEF StartOfScan, Scans
  <2>5. ScanKnows(<<>>, StartOfScan) /\ StartOfScan.accepted
    BY <2>3 DEF ScanKnows, StartOfScan
  <2> QED
    BY <2>1, <2>3, <2>4, <2>5
<1>2. ASSUME NEW t \in Seq(Message), NEW m \in Message, Right(t)
      PROVE  Right(Append(t, m))
  <2> DEFINE e == ScanState(t)
  <2>1. ScanState(Append(t, m)) = ScanMessage(e, m)
    BY ScanAppends
  <2>2. e \in Scans
    BY <1>2
  <2>3. m.calls \in Seq(CallId) /\ m.call \in CallId
    BY DEF Message
  <2> HIDE DEF e
  <2>4. ScanMessage(e, m) \in Scans
    <3>1. CASE ~Accepts(e, m)
      BY <2>2, <3>1 DEF ScanMessage, Scans
    <3>2. CASE Accepts(e, m) /\ m.role = "tool"
      <4>1. e.pending \in Seq(CallId) /\ e.pending # <<>>
        BY <2>2, <3>2 DEF Accepts, Scans
      <4>2. Tail(e.pending) \in Seq(CallId)
        BY <4>1
      <4> QED
        BY <2>2, <2>3, <3>2, <4>2 DEF ScanMessage, Scans
    <3>3. CASE Accepts(e, m) /\ m.role # "tool"
      BY <2>2, <2>3, <3>3 DEF ScanMessage, Scans
    <3> QED
      BY <3>1, <3>2, <3>3
  <2>5. ScanMessage(e, m).accepted <=> Accepts(e, m)
    BY <2>2 DEF ScanMessage, Scans, Accepts
  <2>6. Accepts(e, m) => e.accepted
    BY DEF Accepts
  <2>7. CASE ~e.accepted
    <3>1. ~PairedSoFar(t)
      BY <1>2, <2>7 DEF e
    <3>2. ~PairedSoFar(Append(t, m))
      BY <3>1, PairedSoFarBegins
    <3> QED
      BY <2>1, <2>4, <2>5, <2>6, <2>7, <3>2
  <2>8. CASE e.accepted
    <3>1. PairedSoFar(t) /\ ScanKnows(t, e)
      BY <1>2, <2>8 DEF e
    <3>2. CASE m.role = "tool"
      <4>1. /\ Accepts(e, m) <=> PairedSoFar(Append(t, m))
            /\ Accepts(e, m) => ScanKnows(Append(t, m),
                                  [e EXCEPT !.pending = Tail(@),
                                            !.seenToolResults = @ \union {m.call}])
        BY <2>2, <2>8, <3>1, <3>2, ScanTakesResult
      <4>2. Accepts(e, m) => ScanKnows(Append(t, m), ScanMessage(e, m))
        BY <3>2, <4>1 DEF ScanMessage
      <4> QED
        BY <2>1, <2>4, <2>5, <4>1, <4>2
    <3>3. CASE m.role # "tool"
      <4>1. /\ Accepts(e, m) <=> PairedSoFar(Append(t, m))
            /\ ScanKnows(Append(t, m), [e EXCEPT !.pending = m.calls])
        BY <2>2, <2>8, <3>1, <3>3, ScanTakesMessage
      <4>2. Accepts(e, m) => ScanKnows(Append(t, m), ScanMessage(e, m))
        BY <3>3, <4>1 DEF ScanMessage
      <4> QED
        BY <2>1, <2>4, <2>5, <4>1, <4>2
    <3> QED
      BY <3>2, <3>3
  <2> QED
    BY <2>7, <2>8
<1>3. SUFFICES ASSUME Bad # {} PROVE FALSE
  <2>1. Begin(Len(s)) = s /\ Len(s) \in 0..Len(s)
    OBVIOUS
  <2>2. Right(Begin(Len(s)))
    BY <2>1
  <2>3. Right(s)
    BY <2>1, <2>2
  <2> QED
    BY <2>3
<1> HIDE DEF Right
<1>4. PICK j \in Bad : \A k \in Bad : j <= k
  <2>1. Bad \subseteq Nat
    OBVIOUS
  <2> HIDE DEF Bad
  <2> QED
    BY <1>3, <2>1, NatSetHasMinimum
<1>5. CASE j = 0
  <2>1. Begin(0) = <<>>
    OBVIOUS
  <2> QED
    BY <1>1, <1>4, <1>5, <2>1
<1>6. CASE j # 0
  <2>1. j \in 1..Len(s) /\ j - 1 \in 0..Len(s) /\ ~(j <= j - 1)
    BY <1>6
  <2>2. Right(Begin(j - 1))
    BY <1>4, <2>1
  <2>3. /\ Begin(j - 1) \in Seq(Message) /\ s[j] \in Message
        /\ Begin(j) = Append(Begin(j - 1), s[j])
    BY <2>1
  <2>4. Right(Begin(j))
    BY <1>2, <2>2, <2>3
  <2> QED
    BY <1>4, <2>4
<1> QED
  BY <1>5, <1>6

\* projectMessages accepts exactly the paired histories.
LEMMA ProjectsIsPaired ==
    ASSUME NEW s \in Seq(Message)
    PROVE  Projects(s) <=> Paired(s)
<1> DEFINE e == ScanState(s)
           n == Len(s)
<1>1. Projects(s) <=> e.accepted /\ e.pending = <<>>
  BY DEF Projects, ScanState
<1>2. /\ e.accepted <=> PairedSoFar(s)
      /\ e.accepted => ScanKnows(s, e)
  BY ScanIsRight
<1> HIDE DEF e
<1>3. \A i \in GroupStarts(s) : /\ DOMAIN s[i].calls = 1..Len(s[i].calls)
                                /\ Len(s[i].calls) \in Nat
                                /\ s[i].calls \in Seq(CallId)
                                /\ i \in 1..n
  BY CallsOfMessages DEF GroupStarts
<1>4. n \in Nat /\ ResultIndices(s) \subseteq 1..n
  BY DEF ResultIndices
<1>5. Paired(s) => PairedSoFar(s)
  BY DEF Paired, PairedSoFar, Answered, AnsweredSoFar
<1>6. CASE s = <<>>
  <2>1. GroupStarts(s) = {} /\ ResultIndices(s) = {}
    BY <1>6 DEF GroupStarts, ResultIndices
  <2>2. Paired(s) /\ PairedSoFar(s)
    BY <2>1 DEF Paired, PairedSoFar
  <2> QED
    BY <1>1, <1>2, <1>6, <2>2 DEF ScanKnows
<1>7. CASE s # <<>> /\ PairedSoFar(s)
  <2>1. PICK g \in GroupStarts(s) :
          /\ \A j \in GroupStarts(s) : j <= g
          /\ n <= g + Len(s[g].calls)
          /\ e.pending = SubSeq(s[g].calls, n - g + 1, Len(s[g].calls))
    BY <1>2, <1>7 DEF ScanKnows
  <2> DEFINE c == s[g].calls
             a == n - g + 1
  <2>2. /\ c \in Seq(CallId) /\ Len(c) \in Nat /\ g \in 1..n
        /\ a \in 1..Len(c) + 1 /\ DOMAIN c = 1..Len(c)
    BY <1>3, <1>4, <2>1
  <2>3. e.pending # <<>> <=> a <= Len(c)
    <3>1. SubSeq(c, a, Len(c)) # <<>> <=> a <= Len(c)
      <4> HIDE DEF a, c
      <4> QED
        BY <2>2, RestOfSubSeq
    <3> QED
      BY <2>1, <3>1
  <2>4. ASSUME Paired(s), a <= Len(c) PROVE FALSE
    <3>1. a \in DOMAIN c /\ g + a = n + 1
      BY <1>4, <2>2, <2>4
    <3>2. g + a \in ResultIndices(s)
      BY <2>4, <3>1 DEF Paired, Answered
    <3> QED
      BY <1>4, <3>1, <3>2
  <2>5. ASSUME ~(a <= Len(c)) PROVE Paired(s)
    <3>1. ASSUME NEW i \in GroupStarts(s), NEW k \in DOMAIN s[i].calls
          PROVE  i + k <= n
      <4>1. PICK l \in Nat : l = Len(s[i].calls) /\ DOMAIN s[i].calls = 1..l /\ k \in 1..l
        BY <1>3, <3>1
      <4>2. CASE i = g
        BY <1>4, <2>2, <2>5, <4>1, <4>2
      <4>3. CASE i # g
        <5>1. i < g /\ i \in 1..n
          BY <1>3, <2>1, <2>2, <4>3
        <5>2. SUFFICES ASSUME i + l >= g PROVE FALSE
          BY <2>2, <4>1, <5>1
        <5>3. g - i \in DOMAIN s[i].calls /\ i + (g - i) = g /\ g <= n
          BY <2>2, <4>1, <5>1, <5>2
        <5>4. g \in ResultIndices(s)
          BY <1>7, <5>3 DEF PairedSoFar, AnsweredSoFar
        <5> QED
          BY <2>1, <5>4 DEF ResultIndices
      <4> QED
        BY <4>2, <4>3
    <3>2. \A i \in GroupStarts(s) : Answered(s, i)
      BY <1>7, <3>1 DEF PairedSoFar, AnsweredSoFar, Answered
    <3> QED
      BY <1>7, <3>2 DEF PairedSoFar, Paired
  <2> QED
    BY <1>1, <1>2, <1>7, <2>3, <2>4, <2>5
<1> QED
  BY <1>1, <1>2, <1>5, <1>6, <1>7

-------------------------------------------------------------------------------
(***************************************************************************)
(* Compaction on histories of any length, for any number of recent         *)
(* messages                                                                *)
(***************************************************************************)
LEMMA SampleIsHistory == HSpec => [](sample \in Seq(Message))
<1>1. HInit => sample \in Seq(Message)
  BY DEF HInit
<1>2. sample \in Seq(Message) /\ [HNext]_sample => (sample \in Seq(Message))'
  <2> SUFFICES ASSUME sample \in Seq(Message), [HNext]_sample
               PROVE  sample' \in Seq(Message)
    OBVIOUS
  <2>1. /\ Len(sample) + 1 \in Nat /\ <<>> \in Seq(CallId)
        /\ CallChoices \subseteq Seq(CallId) /\ Answerable \subseteq CallId
    BY HistoriesAssumption
  <2>2. ASSUME NEW m \in Message, Add(m) PROVE sample' \in Seq(Message)
    BY <2>2 DEF Add
  <2>3. UserMessage(Len(sample) + 1) \in Message
    BY <2>1, MessageTypes
  <2>4. \A calls \in CallChoices :
           AssistantMessage(Len(sample) + 1, calls) \in Message
    BY <2>1, MessageTypes
  <2>5. \A c \in Answerable : ToolResult(c) \in Message
    BY <2>1 DEF ToolResult, Message
  <2> QED
    BY <2>2, <2>3, <2>4, <2>5 DEF HNext
<1> QED
  BY <1>1, <1>2, PTL DEF HSpec

\* Whatever paired history is compacted or shortened, no call is cut off from
\* its results and no message is lost or in both parts.
THEOREM GroupsAreKept == HSpec => []CompactionKeepsGroups
<1>1. sample \in Seq(Message) => CompactionKeepsGroups
  <2> SUFFICES ASSUME sample \in Seq(Message), Paired(sample), sample # <<>>
               PROVE  /\ \A recent \in 0..MaxRecent :
                            /\ Paired(Summarized(sample, recent))
                            /\ Paired(KeptTail(sample, recent))
                            /\ Summarized(sample, recent) \o KeptTail(sample, recent)
                                  = sample
                            /\ \/ Len(KeptTail(sample, recent)) >= recent
                               \/ Summarized(sample, recent) = <<>>
                      /\ Paired(DropOldestGroup(sample))
                      /\ Len(DropOldestGroup(sample)) < Len(sample)
    BY DEF CompactionKeepsGroups
  <2>1. ASSUME NEW recent \in 0..MaxRecent
        PROVE  /\ Paired(Summarized(sample, recent))
               /\ Paired(KeptTail(sample, recent))
               /\ Summarized(sample, recent) \o KeptTail(sample, recent) = sample
               /\ \/ Len(KeptTail(sample, recent)) >= recent
                  \/ Summarized(sample, recent) = <<>>
    <3>1. recent \in Nat
      BY HistoriesAssumption
    <3>2. PICK t : t = TailStart(sample, recent)
      OBVIOUS
    <3>3. t \in GroupStarts(sample) /\ (t = 1 \/ Len(sample) - t + 1 >= recent)
      BY <3>1, <3>2, TailStartIsGroup
    <3>4. t \in 1..Len(sample)
      BY <3>3 DEF GroupStarts
    <3>5. /\ Len(SubSeq(sample, t, Len(sample))) = Len(sample) - t + 1
          /\ t = 1 => SubSeq(sample, 1, t - 1) = <<>>
      BY <3>4
    <3> QED
      BY <3>2, <3>3, <3>5, PairedCut DEF Summarized, KeptTail
  <2> QED
    BY <2>1, DropOldestGroupPaired
<1> QED
  BY <1>1, SampleIsHistory, PTL

-------------------------------------------------------------------------------
(***************************************************************************)
(* What the scan accepts, for samples of any kind and length and for       *)
(* conversations                                                           *)
(***************************************************************************)
\* An abstract conversation, whatever is said, answered, withdrawn and
\* condensed, is a paired history.
ConversationInv == exchanges \in Seq(Message) /\ Paired(exchanges)

LEMMA AppendedTypes ==
    ASSUME NEW s \in Seq(Message), NEW t \in Seq(Message)
    PROVE  s \o t \in Seq(Message)
OBVIOUS

LEMMA ConversationStep == ConversationInv /\ [CNext]_exchanges => ConversationInv'
<1> SUFFICES ASSUME exchanges \in Seq(Message), Paired(exchanges), [CNext]_exchanges
             PROVE  exchanges' \in Seq(Message) /\ Paired(exchanges')
  BY DEF ConversationInv
<1>1. \A id \in Ids : id \in Nat
  BY ConversationAssumption
<1>2. ASSUME NEW id \in Ids, Say(id)
      PROVE  exchanges' \in Seq(Message) /\ Paired(exchanges')
  <2> DEFINE m == UserMessage(id)
  <2>1. m \in Message /\ m.role = "user" /\ m.calls = <<>>
    <3>1. <<>> \in Seq(CallId)
      OBVIOUS
    <3> QED
      BY <1>1, <3>1, MessageTypes DEF UserMessage
  <2>2. exchanges' = exchanges \o <<m>>
    BY <1>2, <2>1 DEF Say
  <2> HIDE DEF m
  <2>3. <<m>> \in Seq(Message) /\ Paired(<<m>>) /\ ResultCalls(<<m>>) = {}
    BY <2>1, PairedMessage
  <2>4. ResultCalls(exchanges) \intersect ResultCalls(<<m>>) = {}
    BY <2>3
  <2> QED
    BY <2>2, <2>3, <2>4, PairedJoin, AppendedTypes
<1>3. ASSUME NEW id \in Ids, NEW n \in 0..MaxResults, Answer(id, n)
      PROVE  exchanges' \in Seq(Message) /\ Paired(exchanges')
  <2> DEFINE c == Calls(id, n)
             x == <<AssistantMessage(id, c)>> \o ToolResults(c)
  <2>1. /\ c \in Seq(CallId) /\ \A i, j \in DOMAIN c : c[i] = c[j] => i = j
        /\ \A i \in DOMAIN c : c[i][1] = id
    <3>1. n \in Nat /\ id \in Nat
      BY <1>1, ConversationAssumption
    <3>2. \A k \in 1..n : <<id, k>> \in CallId
      BY <3>1 DEF CallId
    <3> QED
      BY <3>1, <3>2 DEF Calls
  <2>2. exchanges' = exchanges \o x
    BY <1>3 DEF Answer, Exchange
  <2> HIDE DEF c
  <2>3. x \in Seq(Message) /\ Paired(x) /\ ResultCalls(x) = {c[i] : i \in DOMAIN c}
    BY <1>1, <2>1, PairedExchange
  <2>4. ResultCalls(exchanges) \intersect ResultCalls(x) = {}
    <3>1. \A j \in ResultIndices(exchanges) : exchanges[j].call[1] # id
      BY <1>3 DEF Answer, Fresh
    <3>2. \A y \in ResultCalls(exchanges) : y[1] # id
      BY <3>1 DEF ResultCalls
    <3>3. \A y \in ResultCalls(x) : y[1] = id
      BY <2>1, <2>3
    <3> QED
      BY <3>2, <3>3
  <2> HIDE DEF x
  <2> QED
    BY <2>2, <2>3, <2>4, PairedJoin, AppendedTypes
<1>4. ASSUME NEW i \in GroupStarts(exchanges), Withdraw(i)
      PROVE  exchanges' \in Seq(Message) /\ Paired(exchanges')
  <2>1. i \in 1..Len(exchanges) /\ exchanges' = SubSeq(exchanges, 1, i - 1)
    BY <1>4 DEF Withdraw, GroupStarts
  <2>2. SubSeq(exchanges, 1, i - 1) \in Seq(Message)
    BY <2>1
  <2> QED
    BY <2>1, <2>2, PairedCut
<1>5. ASSUME NEW i \in GroupStarts(exchanges), NEW id \in Ids, Condense(i, id)
      PROVE  exchanges' \in Seq(Message) /\ Paired(exchanges')
  <2> DEFINE m == UserMessage(id)
             t == SubSeq(exchanges, i, Len(exchanges))
  <2>1. m \in Message /\ m.role = "user" /\ m.calls = <<>>
    <3>1. <<>> \in Seq(CallId)
      OBVIOUS
    <3> QED
      BY <1>1, <3>1, MessageTypes DEF UserMessage
  <2>2. exchanges' = <<m>> \o t
    BY <1>5 DEF Condense
  <2>3. t \in Seq(Message) /\ Paired(t)
    <3>1. i \in 1..Len(exchanges)
      BY DEF GroupStarts
    <3>2. SubSeq(exchanges, i, Len(exchanges)) \in Seq(Message)
      BY <3>1
    <3> QED
      BY <3>2, PairedCut
  <2> HIDE DEF m, t
  <2>4. <<m>> \in Seq(Message) /\ Paired(<<m>>) /\ ResultCalls(<<m>>) = {}
    BY <2>1, PairedMessage
  <2>5. ResultCalls(<<m>>) \intersect ResultCalls(t) = {}
    BY <2>4
  <2> QED
    BY <2>2, <2>3, <2>4, <2>5, PairedJoin, AppendedTypes
<1> QED
  BY <1>2, <1>3, <1>4, <1>5 DEF CNext

\* For every history, however it came about, projectMessages throws exactly if
\* the history is not paired; and it never throws on a conversation.
THEOREM ScanIsTheRule == HSpec /\ CSpec => []ScanAcceptsPaired
<1>1. CInit => ConversationInv
  <2>1. GroupStarts(<<>>) = {} /\ ResultIndices(<<>>) = {}
    BY DEF GroupStarts, ResultIndices
  <2>2. Paired(<<>>) /\ <<>> \in Seq(Message)
    BY <2>1 DEF Paired
  <2> QED
    BY <2>2 DEF CInit, ConversationInv
<1>2. ConversationInv /\ sample \in Seq(Message) => ScanAcceptsPaired
  BY ProjectsIsPaired DEF ConversationInv, ScanAcceptsPaired
<1> QED
  BY <1>1, <1>2, SampleIsHistory, ConversationStep, PTL DEF CSpec
===============================================================================
