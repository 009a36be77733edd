-------------------------- MODULE AgentSession_proofs --------------------------
(***************************************************************************)
(* Proofs about AgentSession: type correctness, and three safety           *)
(* properties.  Activities exclude each other, the log is written before   *)
(* memory, and the requests of a provider step are bounded.                *)
(***************************************************************************)
EXTENDS AgentSession, Projection_proofs

\* What TypeOK needs to be inductive: the locals an op reads at a label have
\* been set on the way there.
LocalsSet(o) ==
    /\ pc[o] \in {"results", "pairingResults"} => turn[o].out # <<>>
    /\ pc[o] \in {"toolCalls", "tools"} => turn[o].calls # <<>>
    /\ pc[o] \in {"summarize", "compactEnded"} => compaction[o].snapshot # <<>>

Inv == TypeOK /\ \A o \in Ops : LocalsSet(o)

-------------------------------------------------------------------------------
(***************************************************************************)
(* Types of the values the actions build                                   *)
(***************************************************************************)
LEMMA NoMessageType == NoMessage \in Message
<1>1. 0 \in Nat /\ <<>> \in Seq(CallId)
  OBVIOUS
<1> QED
  BY <1>1, MessageTypes DEF NoMessage

LEMMA EventTypes ==
    ASSUME ControlOK, NEW o \in Ops, NEW t \in ReplayTypes, NEW m \in Message,
           NEW n \in Nat
    PROVE  /\ StepEvent(o, t, m) \in SessionEvent
           /\ TurnEvent(o, t, m) \in SessionEvent
           /\ CompactSucceeded(m, n) \in SessionEvent
<1>1. turn[o].id \in Nat /\ turn[o].step \in Nat
  BY DEF ControlOK, Turn
<1>2. StepEvent(o, t, m) \in SessionEvent
  BY <1>1 DEF StepEvent, Event, SessionEvent, NoTail
<1>3. TurnEvent(o, t, m) \in SessionEvent
  BY <1>1 DEF TurnEvent, Event, SessionEvent, NoTail
<1>4. CompactSucceeded(m, n) \in SessionEvent
  BY DEF CompactSucceeded, SessionEvent, ReplayTypes
<1> QED
  BY <1>2, <1>3, <1>4

LEMMA EmitTypes ==
    ASSUME DataOK, NEW e \in SessionEvent, Emit(e) \/ EmitFails(e)
    PROVE  transcript' \in Seq(SessionEvent) /\ failures' \in 0..MaxFailures
<1>1. Logged(e) \in Seq(SessionEvent)
  <2>1. transcript \in Seq(SessionEvent)
    BY DEF DataOK
  <2>2. Append(transcript, e) \in Seq(SessionEvent)
    BY <2>1
  <2> QED
    BY <2>1, <2>2 DEF Logged
<1>2. MaxFailures \in Nat
  BY BoundsAssumption
<1> QED
  BY <1>1, <1>2 DEF DataOK, Emit, EmitFails

LEMMA InvisibleTypes ==
    ASSUME DataOK, NEW t, t \notin ReplayTypes, EmitFails(Invisible(t))
    PROVE  transcript' \in Seq(SessionEvent) /\ failures' \in 0..MaxFailures
<1>1. MaxFailures \in Nat
  BY BoundsAssumption
<1> QED
  BY <1>1 DEF DataOK, EmitFails, Logged, Invisible, Event

LEMMA NoTurnType == NoTurn \in Turn
  BY DEF NoTurn, Turn, EndReasons, CallId, Message

LEMMA NoCompactionType == NoCompaction \in Compaction
  BY DEF NoCompaction, Compaction, Triggers, Message

LEMMA BeforeStepType ==
    ASSUME TypeOK, NEW o \in Ops
    PROVE  BeforeStep(o) \in Seq(Message)
<1>1. messages \in Seq(Message) /\ turn[o].start \in Nat
  BY DEF TypeOK, ControlOK, DataOK, Turn
<1>2. ASSUME turn[o].start < Len(messages)
      PROVE  SubSeq(messages, 1, turn[o].start) \in Seq(Message)
  BY <1>1, <1>2
<1> QED
  BY <1>1, <1>2 DEF BeforeStep

-------------------------------------------------------------------------------
(***************************************************************************)
(* Moving an op on                                                         *)
(***************************************************************************)
\* The labels at which LocalsSet has nothing to say.
Plain == Labels \ {"results", "pairingResults", "toolCalls", "tools",
                   "summarize", "compactEnded"}

\* The op moves to a plain label and the locals of the other ops stay.
Moves(o) ==
    /\ ControlOK'
    /\ \E l \in Plain : pc' = [pc EXCEPT ![o] = l]
    /\ \A q \in Ops \ {o} : turn'[q] = turn[q]

OthersCompactionStays(o) ==
    \A q \in Ops \ {o} : compaction'[q] = compaction[q]

LEMMA MovesKeepsInv ==
    ASSUME Inv, NEW o \in Ops, Moves(o), DataOK', OthersCompactionStays(o)
    PROVE  Inv'
<1>1. ASSUME NEW q \in Ops PROVE LocalsSet(q)'
  <2>1. CASE q = o
    BY <2>1 DEF Moves, LocalsSet, Plain, Inv, TypeOK, ControlOK
  <2>2. CASE q # o
    BY <2>2 DEF Moves, OthersCompactionStays, LocalsSet, Inv, TypeOK, ControlOK
  <2> QED
    BY <2>1, <2>2
<1> QED
  BY <1>1 DEF Inv, TypeOK, Moves

LEMMA GotoMoves ==
    ASSUME ControlOK, NEW o \in Ops, NEW l \in Plain, Goto(o, l)
    PROVE  Moves(o)
  BY DEF ControlOK, Goto, Moves, Plain

LEMMA GotoWithMoves ==
    ASSUME ControlOK, NEW o \in Ops, NEW l \in Plain, NEW t \in Turn,
           GotoWith(o, l, t)
    PROVE  Moves(o)
  BY DEF ControlOK, GotoWith, Moves, Plain

LEMMA FinishMoves ==
    ASSUME ControlOK, NEW o \in Ops, Finish(o)
    PROVE  Moves(o)
<1>1. "done" \in Plain
  BY DEF Plain, Labels, Finished
<1> QED
  BY <1>1, NoTurnType DEF ControlOK, Finish, Plain, Moves

LEMMA EndStepMoves ==
    ASSUME ControlOK, NEW o \in Ops, NEW r \in EndReasons, EndStep(o, r)
    PROVE  Moves(o)
<1> DEFINE t == [NoTurn EXCEPT !.id = turn[o].id, !.step = turn[o].step,
                               !.index = turn[o].index, !.reason = r]
<1>1. t \in Turn
  BY NoTurnType DEF ControlOK, Turn
<1>2. "stepEnded" \in Plain
  BY DEF Plain, Labels, Running, TurnLabels
<1> QED
  BY <1>1, <1>2, GotoWithMoves DEF EndStep

LEMMA EndTurnMoves ==
    ASSUME ControlOK, NEW o \in Ops, NEW r \in EndReasons, EndTurn(o, r)
    PROVE  Moves(o)
<1>1. [turn[o] EXCEPT !.reason = r] \in Turn
  BY DEF ControlOK, Turn
<1>2. "turnEnded" \in Plain
  BY DEF Plain, Labels, Running, TurnLabels
<1> QED
  BY <1>1, <1>2, GotoWithMoves DEF EndTurn

LEMMA StepThrowsMoves ==
    ASSUME ControlOK, NEW o \in Ops, StepThrows(o)
    PROVE  Moves(o)
<1>1. CASE o \in aborted
  BY <1>1, EndStepMoves DEF StepThrows, EndReasons
<1>2. CASE o \notin aborted
  BY <1>2, GotoMoves DEF StepThrows, Plain, Labels, Running, TurnLabels
<1> QED
  BY <1>1, <1>2

LEMMA CompactionThrowsMoves ==
    ASSUME ControlOK, NEW o \in Ops, CompactionThrows(o)
    PROVE  Moves(o)
  BY StepThrowsMoves, FinishMoves DEF CompactionThrows

LEMMA StartCompactionStays ==
    ASSUME DataOK, NEW o \in Ops, NEW t \in Triggers, NEW b \in BOOLEAN,
           StartCompaction(o, t, b)
    PROVE  /\ compaction' \in [Ops -> Compaction]
           /\ OthersCompactionStays(o)
           /\ nextId' \in Nat
           /\ "compactStarted" \in Plain
  BY DEF DataOK, StartCompaction, OthersCompactionStays, Compaction, Plain,
         Labels, Running, CompactLabels

LEMMA LeaveCompactionStays ==
    ASSUME DataOK, NEW o \in Ops, LeaveCompaction(o)
    PROVE  compaction' \in [Ops -> Compaction] /\ OthersCompactionStays(o)
  BY NoCompactionType DEF DataOK, LeaveCompaction, OthersCompactionStays

-------------------------------------------------------------------------------
(***************************************************************************)
(* Each action preserves Inv                                               *)
(***************************************************************************)
LEMMA InitInv == Init => Inv
<1> SUFFICES ASSUME Init PROVE Inv
  OBVIOUS
<1>1. ControlOK
  BY NoTurnType DEF Init, ControlOK, Labels
<1>2. DataOK
  BY NoCompactionType, BoundsAssumption DEF Init, DataOK
<1>3. \A o \in Ops : LocalsSet(o)
  BY DEF Init, LocalsSet
<1> QED
  BY <1>1, <1>2, <1>3 DEF Inv, TypeOK

LEMMA SubmitInv ==
    ASSUME Inv, NEW o \in Ops, Submit(o)
    PROVE  Inv'
<1> USE DEF Inv, TypeOK
<1>1. CASE Reject(o)
  <2>1. Moves(o)
    BY <1>1, GotoMoves DEF Reject, Plain, Labels, Finished
  <2>2. DataOK' /\ OthersCompactionStays(o)
    BY <1>1 DEF Reject, DataOK, log, history, OthersCompactionStays
  <2> QED
    BY <2>1, <2>2, MovesKeepsInv
<1>2. CASE SubmitUser(o)
  <2>1. DataOK' /\ OthersCompactionStays(o)
    BY <1>2 DEF SubmitUser, DataOK, log, history, OthersCompactionStays
  <2>2. [turn[o] EXCEPT !.id = nextId + 1] \in Turn
    <3>1. turn[o] \in Turn /\ nextId + 1 \in Nat
      BY DEF ControlOK, DataOK
    <3> QED
      BY <3>1 DEF Turn
  <2>3. Moves(o)
    BY <1>2, <2>2 DEF SubmitUser, ControlOK, Moves, Plain, Labels, Running,
                      TurnLabels
  <2> QED
    BY <2>1, <2>3, MovesKeepsInv
<1>3. CASE SubmitCompact(o)
  <2>1. /\ compaction' \in [Ops -> Compaction]
        /\ OthersCompactionStays(o)
        /\ nextId' \in Nat
        /\ "compactStarted" \in Plain
    BY <1>3, StartCompactionStays DEF SubmitCompact, Triggers
  <2>2. DataOK'
    BY <1>3, <2>1 DEF SubmitCompact, DataOK, log, history
  <2>3. Moves(o)
    BY <1>3, <2>1 DEF SubmitCompact, StartCompaction, ControlOK, Moves, Plain
  <2> QED
    BY <2>1, <2>2, <2>3, MovesKeepsInv
<1>4. CASE SubmitSlash(o)
  <2>1. Moves(o)
    BY <1>4, GotoMoves DEF SubmitSlash, Plain, Labels
  <2>2. DataOK' /\ OthersCompactionStays(o)
    BY <1>4 DEF SubmitSlash, DataOK, log, history, OthersCompactionStays
  <2> QED
    BY <2>1, <2>2, MovesKeepsInv
<1> QED
  BY <1>1, <1>2, <1>3, <1>4 DEF Submit

LEMMA AbortInv ==
    ASSUME Inv, Abort
    PROVE  Inv'
<1>1. ControlOK' /\ DataOK'
  BY DEF Abort, Inv, TypeOK, ControlOK, DataOK, log, history
<1>2. \A o \in Ops : LocalsSet(o)'
  BY DEF Abort, Inv, LocalsSet
<1> QED
  BY <1>1, <1>2 DEF Inv, TypeOK

LEMMA CommandInv ==
    ASSUME Inv, NEW o \in Ops, CommandInvoked(o) \/ CommandOutput(o)
    PROVE  Inv'
<1> USE DEF Inv, TypeOK
<1>1. CASE /\ activeTurn' = o
           /\ StartCompaction(o, "manual", FALSE)
           /\ UNCHANGED <<log, history, aborted, turn>>
  <2>1. /\ compaction' \in [Ops -> Compaction]
        /\ OthersCompactionStays(o)
        /\ nextId' \in Nat
        /\ "compactStarted" \in Plain
    BY <1>1, StartCompactionStays DEF Triggers
  <2>2. DataOK'
    BY <1>1, <2>1 DEF DataOK, log, history
  <2>3. Moves(o)
    BY <1>1, <2>1 DEF StartCompaction, ControlOK, Moves, Plain
  <2> QED
    BY <2>1, <2>2, <2>3, MovesKeepsInv
<1>2. CASE /\ EmitFails(Invisible("command.invoked"))
           /\ Finish(o)
           /\ UNCHANGED <<history, compaction, nextId>>
  <2>1. DataOK' /\ OthersCompactionStays(o)
    BY <1>2, InvisibleTypes
       DEF ReplayTypes, DataOK, history, OthersCompactionStays
  <2> QED
    BY <1>2, <2>1, FinishMoves, MovesKeepsInv
<1>3. CASE CommandOutput(o)
  <2>1. DataOK' /\ OthersCompactionStays(o)
    BY <1>3 DEF CommandOutput, DataOK, log, history, OthersCompactionStays
  <2> QED
    BY <1>3, <2>1, FinishMoves, MovesKeepsInv DEF CommandOutput
<1> QED
  BY <1>1, <1>2, <1>3 DEF CommandInvoked

LEMMA CompactInv ==
    ASSUME Inv, NEW o \in Ops, Compact(o)
    PROVE  Inv'
<1> USE DEF Inv, TypeOK
<1> DEFINE snapshot == compaction[o].snapshot
<1>1. compaction[o] \in Compaction /\ snapshot \in Seq(Message)
  BY DEF DataOK, Compaction
<1>2. /\ {"compactFailed", "compactStarted", "contextStep", "reassemble",
          "assemble", "commandOutput"} \subseteq Plain
      /\ {"summarize", "compactEnded"} \subseteq Labels
  BY DEF Plain, Labels, Running, TurnLabels, CompactLabels
<1>3. ASSUME NEW l \in Labels, Goto(o, l), UNCHANGED compaction, DataOK',
             l \in {"summarize", "compactEnded"} => snapshot # <<>>,
             l \in Plain \union {"summarize", "compactEnded"}
      PROVE  Inv'
  <2>1. CASE l \in Plain
    BY <1>3, <2>1, GotoMoves, MovesKeepsInv DEF OthersCompactionStays
  <2>2. CASE l \in {"summarize", "compactEnded"}
    <3>1. ControlOK'
      BY <1>3 DEF Goto, ControlOK
    <3>2. ASSUME NEW q \in Ops PROVE LocalsSet(q)'
      BY <1>3, <2>2 DEF Goto, LocalsSet, ControlOK
    <3> QED
      BY <1>3, <3>1, <3>2
  <2> QED
    BY <1>3, <2>1, <2>2
<1>4. CASE CompactStarted(o)
  <2>1. CASE EmitFails(Invisible("compact.started"))
             /\ CompactionThrows(o) /\ LeaveCompaction(o)
    <3>1. DataOK' /\ OthersCompactionStays(o)
      BY <1>4, <2>1, InvisibleTypes, LeaveCompactionStays
         DEF CompactStarted, ReplayTypes, DataOK, history
    <3> QED
      BY <2>1, <3>1, CompactionThrowsMoves, MovesKeepsInv
  <2>2. CASE UNCHANGED <<log, compaction>>
    <3>1. DataOK'
      BY <1>4, <2>2 DEF CompactStarted, DataOK, history, log
    <3>2. \/ Goto(o, "summarize") /\ snapshot # <<>>
          \/ Goto(o, "compactFailed")
          \/ EmitFails(Invisible("compact.started"))
             /\ CompactionThrows(o) /\ LeaveCompaction(o)
      BY <1>4 DEF CompactStarted
    <3> QED
      BY <1>2, <1>3, <2>1, <2>2, <3>1, <3>2 DEF Plain
  <2> QED
    BY <1>4, <2>1, <2>2 DEF CompactStarted
<1>5. CASE Summarize(o)
  <2>1. DataOK' /\ UNCHANGED compaction /\ snapshot # <<>>
    BY <1>5 DEF Summarize, DataOK, log, history, LocalsSet
  <2> QED
    BY <1>2, <1>3, <1>5, <2>1 DEF Summarize, Plain
<1>6. ASSUME \/ CompactReturnsSucceeded(o)
             \/ CompactReturnsFailed(o)
             \/ CompactionThrows(o) /\ UNCHANGED autoCompactFailures
      PROVE  Moves(o) /\ autoCompactFailures' \in Nat
  <2>1. autoCompactFailures \in Nat /\ compaction[o].trigger \in Triggers
    BY <1>1 DEF DataOK, Compaction
  <2>2. ASSUME ManualCompactReturns(o)
        PROVE  Moves(o) /\ autoCompactFailures' \in Nat
    BY <1>2, <2>1, <2>2, GotoMoves, FinishMoves DEF ManualCompactReturns
  <2>3. [turn[o] EXCEPT !.attempt = @ + 1] \in Turn
    <3>1. turn[o] \in Turn
      BY DEF ControlOK
    <3> QED
      BY <3>1 DEF Turn
  <2>4. CASE CompactReturnsSucceeded(o)
    <3>1. CASE compaction[o].trigger = "manual"
      BY <2>2, <2>4, <3>1 DEF CompactReturnsSucceeded
    <3>2. CASE compaction[o].trigger = "auto"
      BY <1>2, <2>4, <3>2, GotoMoves DEF CompactReturnsSucceeded
    <3>3. CASE compaction[o].trigger = "overflow_retry"
      BY <1>2, <2>1, <2>3, <2>4, <3>3, GotoWithMoves
         DEF CompactReturnsSucceeded
    <3> QED
      BY <2>1, <3>1, <3>2, <3>3 DEF Triggers
  <2>5. CASE CompactReturnsFailed(o)
    <3>1. CASE compaction[o].trigger = "manual"
      BY <2>2, <2>5, <3>1 DEF CompactReturnsFailed
    <3>2. CASE compaction[o].trigger = "auto"
      BY <1>2, <2>1, <2>5, <3>2, GotoMoves, StepThrowsMoves
         DEF CompactReturnsFailed
    <3>3. CASE compaction[o].trigger = "overflow_retry"
      BY <2>1, <2>5, <3>3, StepThrowsMoves DEF CompactReturnsFailed
    <3> QED
      BY <2>1, <3>1, <3>2, <3>3 DEF Triggers
  <2> QED
    BY <1>6, <2>1, <2>4, <2>5, CompactionThrowsMoves
<1>7. CASE CompactEnded(o)
  <2> DEFINE tail == KeptTail(snapshot, RecentTail)
             summary == UserMessage(compaction[o].id)
             e == CompactSucceeded(summary, Head(tail).id)
  <2>1. /\ tail \in Seq(Message)
        /\ Head(tail).id \in Nat
    BY <1>1, <1>7, KeptTailTypes, BoundsAssumption DEF CompactEnded, LocalsSet
  <2>2. summary \in Message
    <3>1. compaction[o].id \in Nat /\ <<>> \in Seq(CallId)
      BY <1>1 DEF Compaction
    <3> QED
      BY <3>1, MessageTypes
  <2>3. e \in SessionEvent
    BY <2>1, <2>2 DEF CompactSucceeded, SessionEvent, ReplayTypes
  <2>4. /\ Emit(e) \/ EmitFails(e)
        /\ messages' = <<summary>> \o tail \/ messages' = messages
        /\ \/ CompactReturnsSucceeded(o)
           \/ CompactionThrows(o) /\ UNCHANGED autoCompactFailures
        /\ LeaveCompaction(o) /\ UNCHANGED nextId
    BY <1>7 DEF CompactEnded, history
  <2> HIDE DEF tail, summary, e
  <2>5. transcript' \in Seq(SessionEvent) /\ failures' \in 0..MaxFailures
    BY <2>3, <2>4, EmitTypes
  <2>6. messages' \in Seq(Message)
    <3>1. <<summary>> \in Seq(Message)
      BY <2>2
    <3>2. <<summary>> \o tail \in Seq(Message)
      BY <2>1, <3>1
    <3> QED
      BY <2>4, <3>2 DEF DataOK
  <2>7. DataOK' /\ OthersCompactionStays(o)
    BY <1>6, <2>4, <2>5, <2>6, LeaveCompactionStays DEF DataOK
  <2> QED
    BY <1>6, <2>4, <2>7, MovesKeepsInv
<1>8. CASE CompactFailed(o)
  <2>1. /\ \/ UNCHANGED log /\ CompactReturnsFailed(o)
           \/ /\ EmitFails(Invisible("compact.failed"))
              /\ CompactionThrows(o) /\ UNCHANGED autoCompactFailures
        /\ LeaveCompaction(o) /\ UNCHANGED <<messages, nextId>>
    BY <1>8 DEF CompactFailed
  <2>2. transcript' \in Seq(SessionEvent) /\ failures' \in 0..MaxFailures
    BY <2>1, InvisibleTypes DEF ReplayTypes, DataOK, log
  <2>3. DataOK' /\ OthersCompactionStays(o)
    BY <1>6, <2>1, <2>2, LeaveCompactionStays DEF DataOK
  <2> QED
    BY <1>6, <2>1, <2>3, MovesKeepsInv
<1> QED
  BY <1>4, <1>5, <1>7, <1>8 DEF Compact

\* Labels and locals of a user turn, once for the lemmas below.
LEMMA TurnFacts ==
    ASSUME Inv, NEW o \in Ops
    PROVE  /\ TurnLabels \ {"results", "pairingResults", "toolCalls", "tools"}
                \subseteq Plain
           /\ turn[o] \in Turn
           /\ nextId + 1 \in Nat
           /\ messages \in Seq(Message)
           /\ <<>> \in Seq(CallId)
  BY DEF Inv, TypeOK, ControlOK, DataOK, Plain, Labels, Running, TurnLabels

LEMMA ProviderStepInv ==
    ASSUME Inv, NEW o \in Ops, ProviderStep(o)
    PROVE  Inv'
<1> USE DEF Inv, TypeOK
<1>1. /\ {"contextStep", "provider", "backoff", "assemble",
          "assistantMessage"} \subseteq Plain
      /\ turn[o] \in Turn
  BY TurnFacts DEF TurnLabels
\* All but the compactions write at most an invisible event and move on.
<1>2. ASSUME NEW t, t \notin ReplayTypes,
             UNCHANGED log \/ EmitFails(Invisible(t)),
             UNCHANGED <<history, compaction, nextId>>,
             Moves(o)
      PROVE  Inv'
  <2>1. transcript' \in Seq(SessionEvent) /\ failures' \in 0..MaxFailures
    BY <1>2, InvisibleTypes DEF log, DataOK
  <2>2. DataOK' /\ OthersCompactionStays(o)
    BY <1>2, <2>1 DEF DataOK, history, OthersCompactionStays
  <2> QED
    BY <1>2, <2>2, MovesKeepsInv
<1>3. "error" \notin ReplayTypes
  BY DEF ReplayTypes
<1>4. CASE AutoCompact(o)
  <2>1. PICK b \in BOOLEAN : StartCompaction(o, "auto", b)
    BY <1>4 DEF AutoCompact
  <2>2. /\ compaction' \in [Ops -> Compaction]
        /\ OthersCompactionStays(o)
        /\ nextId' \in Nat
        /\ "compactStarted" \in Plain
    BY <2>1, StartCompactionStays DEF Triggers
  <2>3. DataOK'
    BY <1>4, <2>2 DEF AutoCompact, DataOK, log, history
  <2>4. Moves(o)
    BY <1>4, <2>1, <2>2 DEF AutoCompact, StartCompaction, ControlOK, Moves, Plain
  <2> QED
    BY <2>2, <2>3, <2>4, MovesKeepsInv
<1>5. CASE Assembled(o)
  BY <1>1, <1>2, <1>3, <1>5, GotoMoves DEF Assembled
<1>6. CASE AssembleThrows(o)
  BY <1>2, <1>3, <1>6, StepThrowsMoves DEF AssembleThrows
<1>7. CASE ContextStep(o)
  <2>1. Moves(o)
    BY <1>1, <1>7, GotoMoves, StepThrowsMoves DEF ContextStep
  <2>2. "context.step" \notin ReplayTypes
    BY DEF ReplayTypes
  <2> QED
    BY <1>2, <1>7, <2>1, <2>2 DEF ContextStep
<1>8. CASE ProviderAborts(o)
  BY <1>2, <1>3, <1>8, StepThrowsMoves DEF ProviderAborts
<1>9. CASE ProviderAnswers(o)
  <2>1. PICK n \in 0..MaxCalls :
          GotoWith(o, "assistantMessage",
                   [turn[o] EXCEPT !.calls = [i \in 1..n |-> <<turn[o].step, i>>],
                                   !.start = Len(messages)])
    BY <1>9 DEF ProviderAnswers
  <2>2. turn[o].step \in Nat /\ n \in Nat /\ Len(messages) \in Nat
    BY <1>1, BoundsAssumption, TurnFacts DEF Turn
  <2>3. [i \in 1..n |-> <<turn[o].step, i>>] \in Seq(CallId)
    BY <2>2 DEF CallId
  <2> DEFINE t == [turn[o] EXCEPT !.calls = [i \in 1..n |-> <<turn[o].step, i>>],
                                  !.start = Len(messages)]
  <2>4. t \in Turn
    BY <1>1, <2>2, <2>3 DEF Turn
  <2> HIDE DEF t
  <2>5. Moves(o)
    BY <1>1, <2>1, <2>4, GotoWithMoves DEF t
  <2> QED
    BY <1>2, <1>3, <1>9, <2>5 DEF ProviderAnswers
<1>10. CASE ProviderFails(o)
  <2>1. "assistant.delta" \notin ReplayTypes /\ "provider.failure" \notin ReplayTypes
    BY DEF ReplayTypes
  <2>2. Moves(o) /\ UNCHANGED <<history, compaction, nextId>>
    BY <1>10, StepThrowsMoves, EndStepMoves DEF ProviderFails, EndReasons
  <2> QED
    BY <1>2, <1>3, <1>10, <2>1, <2>2 DEF ProviderFails
<1>11. CASE ProviderRetries(o)
  <2>1. Moves(o)
    BY <1>1, <1>11, GotoMoves, StepThrowsMoves DEF ProviderRetries
  <2>2. "provider.retry" \notin ReplayTypes
    BY DEF ReplayTypes
  <2> QED
    BY <1>2, <1>11, <2>1, <2>2 DEF ProviderRetries
<1>12. CASE BackoffEnds(o)
  <2>1. [turn[o] EXCEPT !.attempt = @ + 1] \in Turn
    BY <1>1 DEF Turn
  <2>2. Moves(o)
    BY <1>1, <1>12, <2>1, GotoWithMoves DEF BackoffEnds
  <2> QED
    BY <1>2, <1>3, <1>12, <2>2 DEF BackoffEnds
<1>13. CASE ProviderOverflows(o)
  <2>1. [turn[o] EXCEPT !.overflowed = TRUE] \in Turn
    BY <1>1 DEF Turn
  <2>2. /\ compaction' \in [Ops -> Compaction]
        /\ OthersCompactionStays(o)
        /\ nextId' \in Nat
        /\ "compactStarted" \in Plain
    BY <1>13, StartCompactionStays DEF ProviderOverflows, Triggers
  <2>3. DataOK'
    BY <1>13, <2>2 DEF ProviderOverflows, DataOK, log, history
  <2>4. Moves(o)
    BY <1>13, <2>1, <2>2
       DEF ProviderOverflows, StartCompaction, ControlOK, Moves, Plain
  <2> QED
    BY <2>2, <2>3, <2>4, MovesKeepsInv
<1> QED
  BY <1>4, <1>5, <1>6, <1>7, <1>8, <1>9, <1>10, <1>11, <1>12, <1>13
     DEF ProviderStep

\* An op moves to a label of the batch with the locals it needs there.
LEMMA BatchMoveKeepsInv ==
    ASSUME Inv, NEW o \in Ops, NEW t \in Turn,
           NEW l \in {"toolCalls", "results", "pairingResults"},
           GotoWith(o, l, t),
           l = "toolCalls" => t.calls # <<>>,
           l # "toolCalls" => t.out # <<>>,
           DataOK', UNCHANGED compaction
    PROVE  Inv'
<1>1. ControlOK'
  BY DEF GotoWith, Inv, TypeOK, ControlOK, Labels, Running, TurnLabels
<1>2. ASSUME NEW q \in Ops PROVE LocalsSet(q)'
  BY DEF GotoWith, LocalsSet, Inv, TypeOK, ControlOK
<1> QED
  BY <1>1, <1>2 DEF Inv, TypeOK

LEMMA ToolBatchInv ==
    ASSUME Inv, NEW o \in Ops, ToolBatch(o)
    PROVE  Inv'
<1> USE DEF Inv, TypeOK
<1>1. /\ {"diagnostics", "errorEvent"} \subseteq Plain
      /\ turn[o] \in Turn
      /\ turn[o].calls \in Seq(CallId)
      /\ turn[o].out \in Seq(Message)
      /\ turn[o].step \in Nat
      /\ messages \in Seq(Message)
  BY TurnFacts DEF TurnLabels, Turn
<1>2. BeforeStep(o) \in Seq(Message)
  BY BeforeStepType
\* What a step leaves behind that writes at most an invisible event.
<1>3. ASSUME NEW t, t \notin ReplayTypes,
             UNCHANGED log \/ EmitFails(Invisible(t)),
             messages' \in Seq(Message),
             UNCHANGED <<autoCompactFailures, compaction, nextId>>
      PROVE  DataOK' /\ OthersCompactionStays(o)
  <2>1. transcript' \in Seq(SessionEvent) /\ failures' \in 0..MaxFailures
    BY <1>3, InvisibleTypes DEF log, DataOK
  <2> QED
    BY <1>3, <2>1 DEF DataOK, OthersCompactionStays
<1>4. "error" \notin ReplayTypes
  BY DEF ReplayTypes
<1>5. ASSUME NEW label \in {"results", "pairingResults"}, NEW b \in BOOLEAN,
             pc[o] = "tools", ToolsReturn(o, label, b), DataOK',
             UNCHANGED compaction
      PROVE  Inv'
  <2> DEFINE t == [turn[o] EXCEPT !.out = ToolResults(turn[o].calls),
                                  !.batchAborted = b]
  <2>1. turn[o].calls # <<>>
    BY <1>5 DEF LocalsSet
  <2>2. /\ ToolResults(turn[o].calls) \in Seq(Message)
        /\ ToolResults(turn[o].calls) # <<>>
    <3>1. 0 \in Nat
      OBVIOUS
    <3> QED
      BY <1>1, <2>1, <3>1, MessageTypes
  <2>3. t \in Turn /\ t.out # <<>>
    BY <1>1, <2>2 DEF Turn
  <2>4. GotoWith(o, label, t)
    BY <1>5 DEF ToolsReturn
  <2> HIDE DEF t
  <2> QED
    BY <1>5, <2>3, <2>4, BatchMoveKeepsInv
<1>6. CASE PushAssistantMessage(o)
  <2> DEFINE m == AssistantMessage(turn[o].step, turn[o].calls)
             e == StepEvent(o, "assistant.message", m)
  <2>1. m \in Message
    BY <1>1, MessageTypes
  <2>2. e \in SessionEvent
    BY <2>1, EventTypes, NoMessageType DEF ReplayTypes
  <2>3. /\ \/ Emit(e) /\ messages' = Append(messages, m)
           \/ EmitFails(e) /\ UNCHANGED messages
        /\ \/ EndStep(o, "assistant_message")
           \/ Goto(o, "toolCalls") /\ turn[o].calls # <<>>
           \/ Finish(o)
        /\ UNCHANGED <<compaction, autoCompactFailures, nextId>>
    BY <1>6 DEF PushAssistantMessage
  <2> HIDE DEF m, e
  <2>4. DataOK' /\ OthersCompactionStays(o)
    <3>1. transcript' \in Seq(SessionEvent) /\ failures' \in 0..MaxFailures
      BY <2>2, <2>3, EmitTypes
    <3>2. Append(messages, m) \in Seq(Message)
      BY <1>1, <2>1
    <3> QED
      BY <2>3, <3>1, <3>2 DEF DataOK, OthersCompactionStays
  <2>5. CASE EndStep(o, "assistant_message") \/ Finish(o)
    BY <2>4, <2>5, EndStepMoves, FinishMoves, MovesKeepsInv DEF EndReasons
  <2>6. CASE Goto(o, "toolCalls") /\ turn[o].calls # <<>>
    <3>1. ControlOK'
      BY <2>6 DEF Goto, ControlOK, Labels, Running, TurnLabels
    <3>2. ASSUME NEW q \in Ops PROVE LocalsSet(q)'
      BY <2>3, <2>6 DEF Goto, LocalsSet, ControlOK
    <3> QED
      BY <2>4, <3>1, <3>2
  <2> QED
    BY <2>3, <2>5, <2>6
<1>7. CASE EmitToolCalls(o)
  <2>1. DataOK' /\ OthersCompactionStays(o)
    <3>1. "tool.call" \notin ReplayTypes
      BY DEF ReplayTypes
    <3> QED
      BY <1>1, <1>3, <1>7, <3>1 DEF EmitToolCalls, history
  <2>2. CASE Finish(o)
    BY <2>1, <2>2, FinishMoves, MovesKeepsInv
  <2>3. CASE Goto(o, "tools")
    <3>1. ControlOK'
      BY <2>3 DEF Goto, ControlOK, Labels, Running, TurnLabels
    <3>2. ASSUME NEW q \in Ops PROVE LocalsSet(q)'
      BY <1>7, <2>3 DEF EmitToolCalls, Goto, LocalsSet, ControlOK
    <3> QED
      BY <2>1, <3>1, <3>2
  <2> QED
    BY <1>7, <2>2, <2>3 DEF EmitToolCalls
<1>8. CASE ToolsAborted(o) \/ ToolsAnswer(o)
  <2>1. DataOK' /\ UNCHANGED compaction
    BY <1>1, <1>3, <1>4, <1>8 DEF ToolsAborted, ToolsAnswer, history
  <2> QED
    BY <1>5, <1>8, <2>1 DEF ToolsAborted, ToolsAnswer
<1>9. CASE ToolsMispair(o)
  <2>1. AssistantMessage(turn[o].step, turn[o].calls) \in Message
    BY <1>1, MessageTypes
  <2>2. Append(BeforeStep(o), AssistantMessage(turn[o].step, turn[o].calls))
          \in Seq(Message)
    BY <1>2, <2>1
  <2>3. DataOK' /\ UNCHANGED compaction
    BY <1>3, <1>4, <1>9, <2>2 DEF ToolsMispair
  <2> QED
    BY <1>5, <1>9, <2>3 DEF ToolsMispair
<1>10. CASE ToolsCannotWrite(o)
  <2>1. "permission.decision" \notin ReplayTypes
    BY DEF ReplayTypes
  <2>2. DataOK' /\ OthersCompactionStays(o)
    BY <1>2, <1>3, <1>10, <2>1 DEF ToolsCannotWrite, RollBackStep
  <2> QED
    BY <1>10, <2>2, FinishMoves, MovesKeepsInv DEF ToolsCannotWrite
<1>11. CASE PushToolResult(o)
  <2> DEFINE m == Head(turn[o].out)
             e == StepEvent(o, "tool.result", m)
             rest == Tail(turn[o].out)
             next == CASE rest # <<>> -> pc[o]
                       [] rest = <<>> /\ pc[o] = "results" -> "diagnostics"
                       [] OTHER -> "errorEvent"
  <2>1. pc[o] \in {"results", "pairingResults"} /\ turn[o].out # <<>>
    BY <1>11 DEF PushToolResult, LocalsSet
  <2>2. m \in Message /\ rest \in Seq(Message)
    BY <1>1, <2>1
  <2>3. e \in SessionEvent
    BY <2>2, EventTypes, NoMessageType DEF ReplayTypes
  <2>4. /\ \/ /\ Emit(e)
              /\ messages' = Append(messages, m)
              /\ GotoWith(o, next, [turn[o] EXCEPT !.out = rest])
           \/ EmitFails(e) /\ messages' = BeforeStep(o) /\ Finish(o)
        /\ UNCHANGED <<compaction, autoCompactFailures, nextId>>
    BY <1>11 DEF PushToolResult, RollBackStep
  <2>5. [turn[o] EXCEPT !.out = rest] \in Turn
    BY <1>1, <2>2 DEF Turn
  <2>6. rest # <<>> \/ next \in Plain
    BY <1>1
  <2>7. rest # <<>> => next = pc[o]
    OBVIOUS
  <2>8. [turn[o] EXCEPT !.out = rest].out = rest
    BY <1>1 DEF Turn
  <2> HIDE DEF m, e, rest, next
  <2>9. DataOK' /\ OthersCompactionStays(o)
    <3>1. transcript' \in Seq(SessionEvent) /\ failures' \in 0..MaxFailures
      BY <2>3, <2>4, EmitTypes
    <3>2. Append(messages, m) \in Seq(Message)
      BY <1>1, <2>2
    <3> QED
      BY <1>2, <2>4, <3>1, <3>2 DEF DataOK, OthersCompactionStays
  <2>10. CASE Finish(o)
    BY <2>9, <2>10, FinishMoves, MovesKeepsInv
  <2>11. CASE GotoWith(o, next, [turn[o] EXCEPT !.out = rest])
    <3>1. CASE rest # <<>>
      <4> DEFINE t == [turn[o] EXCEPT !.out = rest]
      <4>1. t \in Turn /\ t.out # <<>> /\ GotoWith(o, next, t)
        BY <2>5, <2>8, <2>11, <3>1
      <4>2. next \in {"results", "pairingResults"}
        BY <2>1, <2>7, <3>1
      <4> HIDE DEF t
      <4> QED
        BY <2>4, <2>9, <4>1, <4>2, BatchMoveKeepsInv
    <3>2. CASE next \in Plain
      BY <2>5, <2>9, <2>11, <3>2, GotoWithMoves, MovesKeepsInv
    <3> QED
      BY <2>6, <3>1, <3>2
  <2> QED
    BY <2>4, <2>10, <2>11
<1>12. CASE EmitDiagnostics(o)
  <2>1. "diagnostic" \notin ReplayTypes
    BY DEF ReplayTypes
  <2>2. DataOK' /\ OthersCompactionStays(o)
    BY <1>1, <1>2, <1>3, <1>12, <2>1 DEF EmitDiagnostics, RollBackStep
  <2>3. Finish(o) \/ \E r \in EndReasons : EndStep(o, r)
    BY <1>12 DEF EmitDiagnostics, EndReasons
  <2> QED
    BY <2>2, <2>3, FinishMoves, EndStepMoves, MovesKeepsInv
<1> QED
  BY <1>6, <1>7, <1>8, <1>9, <1>10, <1>11, <1>12 DEF ToolBatch

LEMMA RunTurnInv ==
    ASSUME Inv, NEW o \in Ops, RunTurn(o)
    PROVE  Inv'
<1> USE DEF Inv, TypeOK
<1>1. /\ {"turnStarted", "userMessage", "stepStarted", "assemble",
          "turnEnded", "stopHook"} \subseteq Plain
      /\ turn[o] \in Turn
      /\ nextId + 1 \in Nat
      /\ messages \in Seq(Message)
  BY TurnFacts DEF TurnLabels
\* What a write of a bookkeeping or an invisible event leaves behind.
<1>2. ASSUME NEW e, e \in SessionEvent \/ e.type \notin ReplayTypes,
             UNCHANGED log \/ Emit(e) \/ EmitFails(e),
             nextId' = nextId + 1 \/ nextId' = nextId,
             UNCHANGED <<history, compaction>>,
             Moves(o)
      PROVE  Inv'
  <2>1. transcript' \in Seq(SessionEvent) /\ failures' \in 0..MaxFailures
    <3>1. CASE e \in SessionEvent
      BY <1>2, <3>1, EmitTypes DEF log, DataOK
    <3>2. CASE e.type \notin ReplayTypes
      BY <1>2, <3>2, BoundsAssumption DEF log, DataOK, Emit, EmitFails, Logged
    <3> QED
      BY <1>2, <3>1, <3>2
  <2>2. DataOK' /\ OthersCompactionStays(o)
    BY <1>1, <1>2, <2>1 DEF DataOK, history, OthersCompactionStays
  <2> QED
    BY <1>2, <2>2, MovesKeepsInv
<1>3. \A t : t \notin ReplayTypes => Invisible(t).type \notin ReplayTypes
  BY DEF Invisible, Event
<1>4. /\ StepEvent(o, "step.ended", NoMessage) \in SessionEvent
      /\ TurnEvent(o, "turn.started", NoMessage) \in SessionEvent
      /\ TurnEvent(o, "turn.ended", NoMessage) \in SessionEvent
  BY EventTypes, NoMessageType DEF ReplayTypes
<1>5. {"hook.started", "step.started", "error"} \intersect ReplayTypes = {}
  BY DEF ReplayTypes
<1>6. CASE PromptHook(o)
  <2>1. [turn[o] EXCEPT !.userId = nextId + 1] \in Turn
    BY <1>1 DEF Turn
  <2>2. Moves(o)
    BY <1>1, <1>6, <2>1, GotoWithMoves, FinishMoves DEF PromptHook
  <2> QED
    BY <1>2, <1>3, <1>5, <1>6, <2>2 DEF PromptHook
<1>7. CASE TurnStarted(o)
  <2>1. Moves(o)
    BY <1>1, <1>7, GotoMoves, FinishMoves DEF TurnStarted
  <2> QED
    BY <1>2, <1>4, <1>7, <2>1 DEF TurnStarted
<1>8. CASE PushUserMessage(o)
  <2> DEFINE m == UserMessage(turn[o].userId)
             e == TurnEvent(o, "user.message", m)
  <2>1. m \in Message
    <3>1. turn[o].userId \in Nat /\ <<>> \in Seq(CallId)
      BY <1>1 DEF Turn
    <3> QED
      BY <3>1, MessageTypes
  <2>2. e \in SessionEvent
    BY <2>1, EventTypes, NoMessageType DEF ReplayTypes
  <2>3. /\ \/ Emit(e) /\ messages' = Append(messages, m)
           \/ EmitFails(e) /\ UNCHANGED messages
        /\ \/ EndTurn(o, "aborted")
           \/ EndTurn(o, "max_steps")
           \/ Goto(o, "stepStarted")
           \/ Finish(o)
        /\ UNCHANGED <<compaction, autoCompactFailures, nextId>>
    BY <1>8 DEF PushUserMessage
  <2> HIDE DEF m, e
  <2>4. DataOK' /\ OthersCompactionStays(o)
    <3>1. transcript' \in Seq(SessionEvent) /\ failures' \in 0..MaxFailures
      BY <2>2, <2>3, EmitTypes
    <3>2. Append(messages, m) \in Seq(Message)
      BY <1>1, <2>1
    <3> QED
      BY <2>3, <3>1, <3>2 DEF DataOK, OthersCompactionStays
  <2>5. Moves(o)
    BY <1>1, <2>3, EndTurnMoves, GotoMoves, FinishMoves DEF EndReasons
  <2> QED
    BY <2>4, <2>5, MovesKeepsInv
<1>9. CASE StepStarted(o)
  <2>1. [turn[o] EXCEPT !.step = nextId + 1, !.index = @ + 1, !.attempt = 1]
          \in Turn
    <3>1. turn[o].index + 1 \in Nat
      BY <1>1 DEF Turn
    <3> QED
      BY <1>1, <3>1 DEF Turn
  <2>2. Moves(o)
    BY <1>1, <1>9, <2>1, GotoWithMoves, FinishMoves DEF StepStarted
  <2> QED
    BY <1>2, <1>3, <1>5, <1>9, <2>2 DEF StepStarted
<1>10. CASE ErrorEvent(o)
  <2>1. Moves(o)
    BY <1>10, EndStepMoves, FinishMoves DEF ErrorEvent, EndReasons
  <2> QED
    BY <1>2, <1>3, <1>5, <1>10, <2>1 DEF ErrorEvent
<1>11. CASE StepEnded(o)
  <2>1. Moves(o)
    BY <1>1, <1>11, GotoMoves, FinishMoves DEF StepEnded
  <2> QED
    BY <1>2, <1>4, <1>11, <2>1 DEF StepEnded
<1>12. CASE TurnEnded(o)
  <2>1. Moves(o)
    BY <1>1, <1>12, GotoMoves, FinishMoves DEF TurnEnded
  <2> QED
    BY <1>2, <1>4, <1>12, <2>1 DEF TurnEnded
<1>13. CASE StopHook(o)
  BY <1>2, <1>4, <1>13, FinishMoves DEF StopHook
<1> QED
  BY <1>6, <1>7, <1>8, <1>9, <1>10, <1>11, <1>12, <1>13, ProviderStepInv,
     ToolBatchInv DEF RunTurn

LEMMA NextInv ==
    ASSUME Inv, [Next]_vars
    PROVE  Inv'
<1>1. CASE Abort
  BY <1>1, AbortInv
<1>2. ASSUME NEW o \in Ops, Submit(o) PROVE Inv'
  BY <1>2, SubmitInv
<1>3. ASSUME NEW o \in Ops, Advance(o) PROVE Inv'
  BY <1>3, CommandInv, CompactInv, RunTurnInv DEF Advance
<1>4. CASE UNCHANGED vars
  BY <1>4 DEF vars, Inv, TypeOK, ControlOK, DataOK, LocalsSet
<1> QED
  BY <1>1, <1>2, <1>3, <1>4 DEF Next, Terminated

-------------------------------------------------------------------------------
\* Every variable of a session always holds a value of its type: no step is
\* ever taken on locals that have not been set (runTurn's pending results, the
\* snapshot of compact), for any number of ops, steps, retries and failures.
THEOREM TypeCorrect == Spec => []TypeOK
<1>1. Inv => TypeOK
  BY DEF Inv
<1> QED
  BY <1>1, InitInv, NextInv, PTL DEF Spec

-------------------------------------------------------------------------------
(***************************************************************************)
(* Mutual exclusion.  Whoever runs holds activeTurn; that is inductive     *)
(* only without slash commands, whose command.invoked is awaited between   *)
(* the guard of submit and the taking of activeTurn.                       *)
(***************************************************************************)
RunnerIsActive == \A o \in Ops : pc[o] \in Running => activeTurn = o
OnlySlashCommands == \A o \in Ops : pc[o] = "command" => o \in SlashOps

ExclusionInv == Inv /\ RunnerIsActive /\ OnlySlashCommands

\* A running op moves on holding activeTurn, or finishes and gives it up.
StaysOrFinishes(o) ==
    /\ \A q \in Ops \ {o} : pc'[q] = pc[q]
    /\ \/ activeTurn' = activeTurn /\ pc'[o] # "command"
       \/ pc'[o] = "done"

LEMMA MovingOnStays ==
    ASSUME ControlOK, NEW o \in Ops,
           \/ \E l : Goto(o, l) /\ l # "command"
           \/ \E l, t : GotoWith(o, l, t) /\ l # "command"
           \/ Finish(o)
           \/ \E r : EndStep(o, r) \/ EndTurn(o, r)
           \/ StepThrows(o)
           \/ CompactionThrows(o)
    PROVE  StaysOrFinishes(o)
<1>1. ASSUME NEW l, Goto(o, l), l # "command" PROVE StaysOrFinishes(o)
  BY <1>1 DEF Goto, StaysOrFinishes, ControlOK
<1>2. ASSUME NEW l, NEW t, GotoWith(o, l, t), l # "command"
      PROVE  StaysOrFinishes(o)
  BY <1>2 DEF GotoWith, StaysOrFinishes, ControlOK
<1>3. ASSUME Finish(o) PROVE StaysOrFinishes(o)
  BY <1>3 DEF Finish, StaysOrFinishes, ControlOK
<1>4. ASSUME NEW r, EndStep(o, r) \/ EndTurn(o, r) PROVE StaysOrFinishes(o)
  BY <1>2, <1>4 DEF EndStep, EndTurn
<1>5. ASSUME StepThrows(o) PROVE StaysOrFinishes(o)
  BY <1>1, <1>4, <1>5 DEF StepThrows
<1> QED
  BY <1>1, <1>2, <1>3, <1>4, <1>5 DEF CompactionThrows

LEMMA CompactStays ==
    ASSUME Inv, NEW o \in Ops, Compact(o)
    PROVE  pc[o] \in Running /\ StaysOrFinishes(o)
<1> USE DEF Inv, TypeOK
<1>1. pc[o] \in Running
  BY DEF Compact, CompactStarted, Summarize, CompactEnded, CompactFailed,
         Running, CompactLabels
<1>2. ASSUME CompactReturnsSucceeded(o) \/ CompactReturnsFailed(o)
      PROVE  StaysOrFinishes(o)
  <2>1. compaction[o].trigger \in Triggers
    BY DEF DataOK, Compaction
  <2>2. CASE compaction[o].trigger = "manual"
    BY <1>2, <2>2, MovingOnStays
       DEF CompactReturnsSucceeded, CompactReturnsFailed, ManualCompactReturns
  <2>3. CASE compaction[o].trigger = "auto"
    BY <1>2, <2>3, MovingOnStays
       DEF CompactReturnsSucceeded, CompactReturnsFailed
  <2>4. CASE compaction[o].trigger = "overflow_retry"
    BY <1>2, <2>4, MovingOnStays
       DEF CompactReturnsSucceeded, CompactReturnsFailed
  <2> QED
    BY <2>1, <2>2, <2>3, <2>4 DEF Triggers
<1>3. CASE CompactStarted(o)
  BY <1>1, <1>3, MovingOnStays DEF CompactStarted
<1>4. CASE Summarize(o)
  BY <1>1, <1>4, MovingOnStays DEF Summarize
<1>5. CASE CompactEnded(o)
  BY <1>1, <1>2, <1>5, MovingOnStays DEF CompactEnded
<1>6. CASE CompactFailed(o)
  BY <1>1, <1>2, <1>6, MovingOnStays DEF CompactFailed
<1> QED
  BY <1>1, <1>3, <1>4, <1>5, <1>6 DEF Compact

LEMMA ProviderStepStays ==
    ASSUME Inv, NEW o \in Ops, ProviderStep(o)
    PROVE  pc[o] \in Running /\ StaysOrFinishes(o)
<1> USE DEF Inv, TypeOK
<1>1. pc[o] \in Running
  BY DEF ProviderStep, AutoCompact, Assembled, AssembleThrows, ContextStep,
         ProviderAborts, ProviderAnswers, ProviderFails, ProviderRetries,
         BackoffEnds, ProviderOverflows, Running, TurnLabels
<1>2. CASE AutoCompact(o)
  BY <1>1, <1>2 DEF AutoCompact, StartCompaction, StaysOrFinishes, ControlOK
<1>3. CASE ProviderOverflows(o)
  BY <1>1, <1>3 DEF ProviderOverflows, StartCompaction, StaysOrFinishes, ControlOK
<1>4. CASE Assembled(o) \/ AssembleThrows(o) \/ ContextStep(o)
  BY <1>1, <1>4, MovingOnStays DEF Assembled, AssembleThrows, ContextStep
<1>5. CASE ProviderAborts(o) \/ ProviderFails(o)
  <2>1. StepThrows(o) \/ \E r : EndStep(o, r)
    BY <1>5 DEF ProviderAborts, ProviderFails
  <2> QED
    BY <1>1, <2>1, MovingOnStays
<1>6. CASE ProviderAnswers(o)
  BY <1>1, <1>6, MovingOnStays DEF ProviderAnswers
<1>7. CASE ProviderRetries(o) \/ BackoffEnds(o)
  BY <1>1, <1>7, MovingOnStays DEF ProviderRetries, BackoffEnds
<1> QED
  BY <1>1, <1>2, <1>3, <1>4, <1>5, <1>6, <1>7 DEF ProviderStep

LEMMA ToolBatchStays ==
    ASSUME Inv, NEW o \in Ops, ToolBatch(o)
    PROVE  pc[o] \in Running /\ StaysOrFinishes(o)
<1> USE DEF Inv, TypeOK
<1>1. pc[o] \in Running
  BY DEF ToolBatch, PushAssistantMessage, EmitToolCalls, ToolsAborted,
         ToolsAnswer, ToolsMispair, ToolsCannotWrite, PushToolResult,
         EmitDiagnostics, Running, TurnLabels
<1>2. CASE PushAssistantMessage(o)
  BY <1>1, <1>2, MovingOnStays DEF PushAssistantMessage
<1>3. CASE EmitToolCalls(o) \/ ToolsCannotWrite(o)
  BY <1>1, <1>3, MovingOnStays DEF EmitToolCalls, ToolsCannotWrite
<1>4. CASE ToolsAborted(o) \/ ToolsAnswer(o) \/ ToolsMispair(o)
  <2>1. \E l \in {"results", "pairingResults"}, b \in BOOLEAN : ToolsReturn(o, l, b)
    BY <1>4 DEF ToolsAborted, ToolsAnswer, ToolsMispair
  <2> QED
    BY <1>1, <2>1, MovingOnStays DEF ToolsReturn
<1>5. CASE PushToolResult(o)
  <2> DEFINE rest == Tail(turn[o].out)
             next == CASE rest # <<>> -> pc[o]
                       [] rest = <<>> /\ pc[o] = "results" -> "diagnostics"
                       [] OTHER -> "errorEvent"
  <2>1. pc[o] \in {"results", "pairingResults"}
    BY <1>5 DEF PushToolResult
  <2>2. next # "command"
    BY <2>1
  <2>3. GotoWith(o, next, [turn[o] EXCEPT !.out = rest]) \/ Finish(o)
    BY <1>5 DEF PushToolResult
  <2> HIDE DEF next
  <2> QED
    BY <1>1, <2>2, <2>3, MovingOnStays
<1>6. CASE EmitDiagnostics(o)
  BY <1>1, <1>6, MovingOnStays DEF EmitDiagnostics
<1> QED
  BY <1>1, <1>2, <1>3, <1>4, <1>5, <1>6 DEF ToolBatch

LEMMA RunTurnStays ==
    ASSUME Inv, NEW o \in Ops, RunTurn(o)
    PROVE  pc[o] \in Running /\ StaysOrFinishes(o)
<1> USE DEF Inv, TypeOK
<1>1. CASE PromptHook(o)
  BY <1>1, MovingOnStays DEF PromptHook, Running, TurnLabels
<1>2. CASE TurnStarted(o)
  BY <1>2, MovingOnStays DEF TurnStarted, Running, TurnLabels
<1>3. CASE PushUserMessage(o)
  BY <1>3, MovingOnStays DEF PushUserMessage, Running, TurnLabels
<1>4. CASE StepStarted(o)
  BY <1>4, MovingOnStays DEF StepStarted, Running, TurnLabels
<1>5. CASE ErrorEvent(o)
  BY <1>5, MovingOnStays DEF ErrorEvent, Running, TurnLabels
<1>6. CASE StepEnded(o)
  BY <1>6, MovingOnStays DEF StepEnded, Running, TurnLabels
<1>7. CASE TurnEnded(o)
  BY <1>7, MovingOnStays DEF TurnEnded, Running, TurnLabels
<1>8. CASE StopHook(o)
  BY <1>8, MovingOnStays DEF StopHook, Running, TurnLabels
<1> QED
  BY <1>1, <1>2, <1>3, <1>4, <1>5, <1>6, <1>7, <1>8, ProviderStepStays,
     ToolBatchStays DEF RunTurn

LEMMA ExclusionStep ==
    ASSUME SlashOps = {}, ExclusionInv, [Next]_vars
    PROVE  ExclusionInv'
<1> USE DEF ExclusionInv
<1>1. Inv'
  BY NextInv
<1>2. ASSUME NEW o \in Ops, pc[o] \in Running, StaysOrFinishes(o)
      PROVE  RunnerIsActive' /\ OnlySlashCommands'
  <2>1. activeTurn = o /\ \A q \in Ops \ {o} : pc[q] \notin Running
    BY <1>2 DEF RunnerIsActive
  <2>2. "done" \notin Running /\ "done" # "command"
    BY DEF Running, TurnLabels, CompactLabels
  <2> QED
    BY <1>2, <2>1, <2>2
       DEF StaysOrFinishes, RunnerIsActive, OnlySlashCommands
<1>3. CASE Abort
  BY <1>1, <1>3 DEF Abort, RunnerIsActive, OnlySlashCommands
<1>4. ASSUME NEW o \in Ops, Submit(o)
      PROVE  RunnerIsActive' /\ OnlySlashCommands'
  <2>1. pc \in [Ops -> Labels] /\ None \notin Ops
    BY OpsAssumption DEF Inv, TypeOK, ControlOK
  <2>2. CASE Reject(o)
    BY <2>1, <2>2 DEF Reject, Goto, RunnerIsActive, OnlySlashCommands,
                      Running, TurnLabels, CompactLabels
  <2>3. CASE SubmitUser(o)
    BY <2>1, <2>3 DEF SubmitUser, RunnerIsActive, OnlySlashCommands
  <2>4. CASE SubmitCompact(o)
    BY <2>1, <2>4 DEF SubmitCompact, StartCompaction, RunnerIsActive,
                      OnlySlashCommands
  <2>5. ~SubmitSlash(o)
    BY DEF SubmitSlash
  <2> QED
    BY <1>4, <2>2, <2>3, <2>4, <2>5 DEF Submit
<1>5. ASSUME NEW o \in Ops, Advance(o)
      PROVE  RunnerIsActive' /\ OnlySlashCommands'
  <2>1. CASE CommandInvoked(o)
    BY <2>1 DEF CommandInvoked, OnlySlashCommands
  <2>2. CASE CommandOutput(o)
    <3>1. pc[o] \in Running /\ StaysOrFinishes(o)
      BY <2>2, MovingOnStays DEF CommandOutput, Running, Inv, TypeOK
    <3> QED
      BY <1>2, <3>1
  <2> QED
    BY <1>2, <1>5, <2>1, <2>2, CompactStays, RunTurnStays DEF Advance
<1>6. CASE UNCHANGED vars
  BY <1>1, <1>6 DEF vars, RunnerIsActive, OnlySlashCommands
<1> QED
  BY <1>1, <1>3, <1>4, <1>5, <1>6 DEF Next, Terminated

\* At most one user turn or compaction runs at any time, for any number of
\* submits in any order: the guard of submit and its finally block suffice as
\* long as no slash command is submitted.
THEOREM Exclusion ==
    ASSUME SlashOps = {}
    PROVE  Spec => []OneActivity
<1>1. Init => ExclusionInv
  BY InitInv DEF Init, ExclusionInv, RunnerIsActive, OnlySlashCommands,
                 Running, TurnLabels, CompactLabels
<1>2. ExclusionInv /\ [Next]_vars => ExclusionInv'
  BY ExclusionStep
<1>3. ExclusionInv => OneActivity
  BY DEF ExclusionInv, RunnerIsActive, OneActivity
<1> QED
  BY <1>1, <1>2, <1>3, PTL DEF Spec

-------------------------------------------------------------------------------
(***************************************************************************)
(* Write-ahead.  A compaction rebuilds the history from the snapshot it    *)
(* took, and a mispaired batch puts its assistant message back, so both    *)
(* have to be in the log as well.                                          *)
(***************************************************************************)
BatchLogged(o) ==
    pc[o] \in {"toolCalls", "tools"} =>
        InLog(AssistantMessage(turn[o].step, turn[o].calls))

WriteAheadInv ==
    /\ Inv
    /\ AllLogged(messages)
    /\ \A o \in Ops : AllLogged(compaction[o].snapshot) /\ BatchLogged(o)

\* The log only grows.
Writes == \/ UNCHANGED log
          \/ \E e : Emit(e) \/ EmitFails(e)

LEMMA WritesKeepLogged ==
    ASSUME DataOK, Writes, NEW m, InLog(m)
    PROVE  InLog(m)'
<1>1. CASE transcript' = transcript
  BY <1>1 DEF InLog
<1>2. ASSUME NEW e, transcript' = Append(transcript, e)
      PROVE  InLog(m)'
  BY <1>2 DEF InLog, DataOK
<1> QED
  BY <1>1, <1>2 DEF Writes, log, Emit, EmitFails, Logged

LEMMA EmittedIsLogged ==
    ASSUME DataOK, NEW e, Emit(e),
           e.type \in VisibleTypes \union {"compact.ended"}
    PROVE  InLog(e.message)'
<1>1. e.type \in ReplayTypes
  BY DEF VisibleTypes, ReplayTypes
<1>2. transcript' = Append(transcript, e)
  BY <1>1 DEF Emit, Logged
<1>3. /\ Len(transcript) + 1 \in DOMAIN transcript'
      /\ transcript'[Len(transcript) + 1] = e
  BY <1>2 DEF DataOK
<1> QED
  BY <1>3 DEF InLog

LEMMA SubSeqIsLogged ==
    ASSUME NEW s \in Seq(Message), AllLogged(s),
           NEW i \in 1..Len(s)+1, NEW j \in 0..Len(s)
    PROVE  AllLogged(SubSeq(s, i, j))
<1>1. ASSUME NEW k \in DOMAIN SubSeq(s, i, j)
      PROVE  InLog(SubSeq(s, i, j)[k])
  <2>1. k \in 1..(j - i + 1) /\ i + k - 1 \in DOMAIN s
    BY <1>1
  <2>2. SubSeq(s, i, j)[k] = s[i + k - 1]
    BY <2>1
  <2> QED
    BY <2>1, <2>2 DEF AllLogged
<1> QED
  BY <1>1 DEF AllLogged

LEMMA BeforeStepIsLogged ==
    ASSUME WriteAheadInv, NEW o \in Ops
    PROVE  AllLogged(BeforeStep(o))
<1>1. messages \in Seq(Message) /\ turn[o].start \in Nat
  BY DEF WriteAheadInv, Inv, TypeOK, ControlOK, DataOK, Turn
<1>2. ASSUME turn[o].start < Len(messages)
      PROVE  AllLogged(SubSeq(messages, 1, turn[o].start))
  <2>1. 1 \in 1..Len(messages)+1 /\ turn[o].start \in 0..Len(messages)
    BY <1>1, <1>2
  <2> QED
    BY <1>1, <2>1, SubSeqIsLogged DEF WriteAheadInv
<1> QED
  BY <1>2 DEF BeforeStep, WriteAheadInv

\* A step of o that leaves the other ops alone preserves the invariant if what
\* it makes of the history, of its own snapshot and of its batch is logged.
OthersStay(o) ==
    \A q \in Ops \ {o} : /\ pc'[q] = pc[q]
                         /\ turn'[q] = turn[q]
                         /\ compaction'[q] = compaction[q]

LEMMA HistoryLogged ==
    ASSUME DataOK, Writes,
           NEW s \in Seq(Message), AllLogged(s),
           \/ messages' = s
           \/ \E m : messages' = Append(s, m) /\ InLog(m)'
    PROVE  AllLogged(messages)'
<1>1. AllLogged(s)'
  BY WritesKeepLogged DEF AllLogged
<1>2. CASE messages' = s
  BY <1>1, <1>2 DEF AllLogged, InLog
<1>3. ASSUME NEW m, messages' = Append(s, m), InLog(m)'
      PROVE  AllLogged(messages)'
  BY <1>1, <1>3 DEF AllLogged, InLog
<1> QED
  BY <1>2, <1>3

LEMMA WriteAheadKept ==
    ASSUME WriteAheadInv, NEW o \in Ops, Inv', Writes, OthersStay(o),
           AllLogged(messages)',
           NEW c, AllLogged(c), compaction'[o].snapshot = c,
           BatchLogged(o)'
    PROVE  WriteAheadInv'
<1> USE DEF WriteAheadInv
<1>1. DataOK
  BY DEF Inv, TypeOK
<1>2. ASSUME NEW l, AllLogged(l)
      PROVE  AllLogged(l)'
  BY <1>1, <1>2, WritesKeepLogged DEF AllLogged
<1>4. AllLogged(compaction[o].snapshot)'
  <2>1. AllLogged(c)'
    BY <1>2
  <2> QED
    BY <2>1 DEF AllLogged, InLog
<1>5. ASSUME NEW q \in Ops \ {o}
      PROVE  AllLogged(compaction[q].snapshot)' /\ BatchLogged(q)'
  <2>1. PICK l : l = compaction[q].snapshot
    OBVIOUS
  <2>2. AllLogged(l)'
    BY <1>2, <2>1
  <2>3. AllLogged(compaction[q].snapshot)'
    BY <2>1, <2>2 DEF OthersStay, AllLogged, InLog
  <2>4. PICK m : m = AssistantMessage(turn[q].step, turn[q].calls)
    OBVIOUS
  <2>5. pc[q] \in {"toolCalls", "tools"} => InLog(m)'
    BY <1>1, <2>4, WritesKeepLogged DEF BatchLogged
  <2>6. BatchLogged(q)'
    BY <2>4, <2>5 DEF OthersStay, BatchLogged, InLog
  <2> QED
    BY <2>3, <2>6
<1> QED
  BY <1>4, <1>5

\* The locals an op's step makes, by the operator that moves it on.
LeavesBatch(o) ==
    /\ \A q \in Ops \ {o} : pc'[q] = pc[q] /\ turn'[q] = turn[q]
    /\ pc'[o] \notin {"toolCalls", "tools"}

LEMMA MovingOnLeavesBatch ==
    ASSUME ControlOK, NEW o \in Ops,
           \/ \E l : Goto(o, l) /\ l \notin {"toolCalls", "tools"}
           \/ \E l, t : GotoWith(o, l, t) /\ l \notin {"toolCalls", "tools"}
           \/ Finish(o)
           \/ \E r : EndStep(o, r) \/ EndTurn(o, r)
           \/ StepThrows(o)
           \/ CompactionThrows(o)
    PROVE  LeavesBatch(o)
<1>1. ASSUME NEW l, Goto(o, l), l \notin {"toolCalls", "tools"}
      PROVE  LeavesBatch(o)
  BY <1>1 DEF Goto, LeavesBatch, ControlOK
<1>2. ASSUME NEW l, NEW t, GotoWith(o, l, t), l \notin {"toolCalls", "tools"}
      PROVE  LeavesBatch(o)
  BY <1>2 DEF GotoWith, LeavesBatch, ControlOK
<1>3. ASSUME Finish(o) PROVE LeavesBatch(o)
  BY <1>3 DEF Finish, LeavesBatch, ControlOK
<1>4. ASSUME NEW r, EndStep(o, r) \/ EndTurn(o, r) PROVE LeavesBatch(o)
  <2>1. {"stepEnded", "turnEnded"} \intersect {"toolCalls", "tools"} = {}
    OBVIOUS
  <2>2. ASSUME EndStep(o, r) PROVE LeavesBatch(o)
    BY <1>2, <2>1, <2>2 DEF EndStep
  <2>3. ASSUME EndTurn(o, r) PROVE LeavesBatch(o)
    BY <1>2, <2>1, <2>3 DEF EndTurn
  <2> QED
    BY <1>4, <2>2, <2>3
<1>5. ASSUME StepThrows(o) PROVE LeavesBatch(o)
  BY <1>1, <1>4, <1>5 DEF StepThrows
<1>6. ASSUME CompactionThrows(o) PROVE LeavesBatch(o)
  BY <1>3, <1>5, <1>6 DEF CompactionThrows
<1> QED
  BY <1>1, <1>2, <1>3, <1>4, <1>5, <1>6

\* A step that leaves a logged history and does not enter the batch.
LEMMA OutsideBatchKept ==
    ASSUME WriteAheadInv, NEW o \in Ops, Inv', Writes, LeavesBatch(o),
           AllLogged(messages)',
           \/ UNCHANGED compaction
           \/ LeaveCompaction(o)
           \/ \E t, b : StartCompaction(o, t, b)
    PROVE  WriteAheadInv'
<1>1. DataOK /\ AllLogged(messages) /\ AllLogged(compaction[o].snapshot)
  BY DEF WriteAheadInv, Inv, TypeOK
<1>2. BatchLogged(o)'
  BY DEF LeavesBatch, BatchLogged
<1>3. AllLogged(<<>>)
  BY DEF AllLogged
<1>4. CASE UNCHANGED compaction
  <2>1. PICK c : c = compaction[o].snapshot
    OBVIOUS
  <2>2. OthersStay(o)
    BY <1>4 DEF LeavesBatch, OthersStay
  <2> QED
    BY <1>1, <1>2, <1>4, <2>1, <2>2, WriteAheadKept
<1>5. CASE LeaveCompaction(o)
  <2>1. OthersStay(o)
    BY <1>1, <1>5 DEF LeaveCompaction, LeavesBatch, OthersStay, DataOK
  <2>2. compaction'[o].snapshot = <<>>
    BY <1>1, <1>5 DEF LeaveCompaction, NoCompaction, DataOK
  <2> QED
    BY <1>2, <1>3, <2>1, <2>2, WriteAheadKept
<1>6. ASSUME NEW t, NEW b, StartCompaction(o, t, b)
      PROVE  WriteAheadInv'
  <2>1. PICK c : c = messages
    OBVIOUS
  <2>2. OthersStay(o)
    BY <1>1, <1>6 DEF StartCompaction, LeavesBatch, OthersStay, DataOK
  <2>3. compaction'[o].snapshot = c
    BY <1>1, <1>6, <2>1 DEF StartCompaction, DataOK
  <2> QED
    BY <1>1, <1>2, <2>1, <2>2, <2>3, WriteAheadKept
<1> QED
  BY <1>4, <1>5, <1>6

\* A step that leaves the history alone.
KeepsHistory(o) ==
    /\ Writes
    /\ LeavesBatch(o)
    /\ UNCHANGED messages
    /\ \/ UNCHANGED compaction
       \/ LeaveCompaction(o)
       \/ \E t, b : StartCompaction(o, t, b)

LEMMA KeepsHistoryKept ==
    ASSUME WriteAheadInv, NEW o \in Ops, Inv', KeepsHistory(o)
    PROVE  WriteAheadInv'
<1>1. PICK s : s = messages
  OBVIOUS
<1>2. s \in Seq(Message) /\ AllLogged(s) /\ DataOK
  BY <1>1 DEF WriteAheadInv, Inv, TypeOK, DataOK
<1>3. AllLogged(messages)'
  BY <1>1, <1>2, HistoryLogged DEF KeepsHistory
<1> QED
  BY <1>3, OutsideBatchKept DEF KeepsHistory

LEMMA SubmitKeepsHistory ==
    ASSUME ControlOK, NEW o \in Ops,
           Submit(o) \/ CommandInvoked(o) \/ CommandOutput(o)
    PROVE  KeepsHistory(o)
<1>1. CASE Reject(o)
  BY <1>1, MovingOnLeavesBatch DEF Reject, KeepsHistory, Writes, history
<1>2. CASE SubmitUser(o)
  BY <1>2 DEF SubmitUser, KeepsHistory, Writes, LeavesBatch, ControlOK, history
<1>3. CASE SubmitCompact(o)
  <2>1. LeavesBatch(o)
    BY <1>3 DEF SubmitCompact, StartCompaction, LeavesBatch, ControlOK
  <2> QED
    BY <1>3, <2>1 DEF SubmitCompact, KeepsHistory, Writes, history
<1>4. CASE SubmitSlash(o)
  BY <1>4, MovingOnLeavesBatch DEF SubmitSlash, KeepsHistory, Writes, history
<1>5. CASE CommandInvoked(o)
  <2>1. CASE StartCompaction(o, "manual", FALSE) /\ UNCHANGED <<log, turn>>
    <3>1. LeavesBatch(o)
      BY <2>1 DEF StartCompaction, LeavesBatch, ControlOK
    <3> QED
      BY <1>5, <2>1, <3>1 DEF CommandInvoked, KeepsHistory, Writes, history
  <2>2. CASE /\ EmitFails(Invisible("command.invoked")) /\ Finish(o)
             /\ UNCHANGED compaction
    BY <1>5, <2>2, MovingOnLeavesBatch
       DEF CommandInvoked, KeepsHistory, Writes, history
  <2> QED
    BY <1>5, <2>1, <2>2 DEF CommandInvoked
<1>6. CASE CommandOutput(o)
  BY <1>6, MovingOnLeavesBatch DEF CommandOutput, KeepsHistory, Writes, history
<1> QED
  BY <1>1, <1>2, <1>3, <1>4, <1>5, <1>6 DEF Submit

LEMMA ProviderStepKeepsHistory ==
    ASSUME ControlOK, NEW o \in Ops, ProviderStep(o)
    PROVE  KeepsHistory(o)
<1>1. CASE AutoCompact(o)
  <2>1. LeavesBatch(o)
    BY <1>1 DEF AutoCompact, StartCompaction, LeavesBatch, ControlOK
  <2> QED
    BY <1>1, <2>1 DEF AutoCompact, KeepsHistory, Writes, history
<1>2. CASE ProviderOverflows(o)
  <2>1. LeavesBatch(o)
    BY <1>2 DEF ProviderOverflows, StartCompaction, LeavesBatch, ControlOK
  <2> QED
    BY <1>2, <2>1 DEF ProviderOverflows, KeepsHistory, Writes, history
<1>3. CASE Assembled(o) \/ AssembleThrows(o) \/ ContextStep(o)
  BY <1>3, MovingOnLeavesBatch
     DEF Assembled, AssembleThrows, ContextStep, KeepsHistory, Writes, history
<1>4. CASE ProviderAborts(o) \/ ProviderFails(o)
  BY <1>4, MovingOnLeavesBatch
     DEF ProviderAborts, ProviderFails, KeepsHistory, Writes, history
<1>5. CASE ProviderAnswers(o)
  BY <1>5, MovingOnLeavesBatch DEF ProviderAnswers, KeepsHistory, Writes, history
<1>6. CASE ProviderRetries(o) \/ BackoffEnds(o)
  BY <1>6, MovingOnLeavesBatch
     DEF ProviderRetries, BackoffEnds, KeepsHistory, Writes, history
<1> QED
  BY <1>1, <1>2, <1>3, <1>4, <1>5, <1>6 DEF ProviderStep

LEMMA CompactWriteAhead ==
    ASSUME WriteAheadInv, NEW o \in Ops, Compact(o)
    PROVE  WriteAheadInv'
<1> USE DEF WriteAheadInv, Inv, TypeOK
<1>1. Inv'
  BY CompactInv
<1>2. compaction[o].trigger \in Triggers /\ compaction[o].snapshot \in Seq(Message)
  BY DEF DataOK, Compaction
<1>3. ASSUME CompactReturnsSucceeded(o) \/ CompactReturnsFailed(o)
      PROVE  LeavesBatch(o)
  <2>1. CASE compaction[o].trigger = "manual"
    BY <1>3, <2>1, MovingOnLeavesBatch
       DEF CompactReturnsSucceeded, CompactReturnsFailed, ManualCompactReturns
  <2>2. CASE compaction[o].trigger = "auto"
    BY <1>3, <2>2, MovingOnLeavesBatch
       DEF CompactReturnsSucceeded, CompactReturnsFailed
  <2>3. CASE compaction[o].trigger = "overflow_retry"
    BY <1>3, <2>3, MovingOnLeavesBatch
       DEF CompactReturnsSucceeded, CompactReturnsFailed
  <2> QED
    BY <1>2, <2>1, <2>2, <2>3 DEF Triggers
<1>4. CASE CompactStarted(o)
  <2>1. KeepsHistory(o)
    BY <1>4, MovingOnLeavesBatch DEF CompactStarted, KeepsHistory, Writes, history
  <2> QED
    BY <1>1, <2>1, KeepsHistoryKept
<1>5. CASE Summarize(o)
  <2>1. KeepsHistory(o)
    BY <1>5, MovingOnLeavesBatch DEF Summarize, KeepsHistory, Writes, history
  <2> QED
    BY <1>1, <2>1, KeepsHistoryKept
<1>6. CASE CompactFailed(o)
  <2>1. KeepsHistory(o)
    BY <1>3, <1>6, MovingOnLeavesBatch
       DEF CompactFailed, KeepsHistory, Writes, history
  <2> QED
    BY <1>1, <2>1, KeepsHistoryKept
<1>7. CASE CompactEnded(o)
  <2>1. PICK snapshot : snapshot = compaction[o].snapshot
    OBVIOUS
  <2> DEFINE tail == KeptTail(snapshot, RecentTail)
  <2>2. PICK summary : summary = UserMessage(compaction[o].id)
    OBVIOUS
  <2>3. PICK e : e = CompactSucceeded(summary, Head(tail).id)
    OBVIOUS
  <2>4. CASE /\ EmitFails(e) /\ CompactionThrows(o) /\ UNCHANGED history
             /\ LeaveCompaction(o)
    <3>1. KeepsHistory(o)
      BY <2>4, MovingOnLeavesBatch DEF KeepsHistory, Writes, history
    <3> QED
      BY <1>1, <3>1, KeepsHistoryKept
  <2>5. CASE Emit(e) /\ messages' = <<summary>> \o tail
             /\ CompactReturnsSucceeded(o) /\ LeaveCompaction(o)
    <3>1. tail \in Seq(Message) /\ AllLogged(tail)
      <4>1. snapshot \in Seq(Message) /\ snapshot # <<>> /\ AllLogged(snapshot)
        BY <1>2, <1>7, <2>1 DEF CompactEnded, LocalsSet
      <4>2. TailStart(snapshot, RecentTail) \in 1..Len(snapshot)+1
            /\ Len(snapshot) \in 0..Len(snapshot)
        <5>1. Len(snapshot) \in Nat /\ RecentTail \in Nat
          BY <4>1, BoundsAssumption
        <5>2. TailStart(snapshot, RecentTail) \in 1..Len(snapshot)
          BY <4>1, <5>1, TailStartInDomain
        <5> HIDE DEF tail
        <5> QED
          BY <5>1, <5>2
      <4>3. AllLogged(SubSeq(snapshot, TailStart(snapshot, RecentTail),
                             Len(snapshot)))
        BY <4>1, <4>2, SubSeqIsLogged
      <4> QED
        BY <4>1, <4>3, KeptTailTypes, BoundsAssumption DEF KeptTail
    <3>2. PICK t : t = tail
      OBVIOUS
    <3>3. InLog(summary)'
      BY <2>3, <2>5, EmittedIsLogged DEF CompactSucceeded
    <3>4. AllLogged(t)'
      BY <2>5, <3>1, <3>2, WritesKeepLogged DEF AllLogged, Writes
    <3>5. messages' = <<summary>> \o t
      BY <2>5, <3>2
    <3> HIDE DEF tail
    <3>6. AllLogged(<<summary>> \o t)'
      BY <3>1, <3>2, <3>3, <3>4 DEF AllLogged
    <3>7. AllLogged(messages)'
      BY <3>5, <3>6 DEF AllLogged, InLog
    <3>8. LeavesBatch(o) /\ Writes
      BY <1>3, <2>5 DEF Writes
    <3> QED
      BY <1>1, <2>5, <3>7, <3>8, OutsideBatchKept
  <2> QED
    BY <1>7, <2>1, <2>2, <2>3, <2>4, <2>5 DEF CompactEnded
<1> QED
  BY <1>4, <1>5, <1>6, <1>7 DEF Compact

LEMMA ToolBatchWriteAhead ==
    ASSUME WriteAheadInv, NEW o \in Ops, ToolBatch(o)
    PROVE  WriteAheadInv'
<1> USE DEF WriteAheadInv, Inv, TypeOK
<1>1. Inv'
  BY ToolBatchInv
<1>2. /\ messages \in Seq(Message)
      /\ BeforeStep(o) \in Seq(Message) /\ AllLogged(BeforeStep(o))
      /\ AllLogged(compaction[o].snapshot)
  BY BeforeStepType, BeforeStepIsLogged DEF DataOK
<1>3. PICK before : before = BeforeStep(o)
  OBVIOUS
<1>4. PICK s : s = messages
  OBVIOUS
<1>5. PICK c : c = compaction[o].snapshot
  OBVIOUS
\* Rolling the step back.
<1>6. ASSUME Writes, RollBackStep(o), LeavesBatch(o), UNCHANGED compaction
      PROVE  WriteAheadInv'
  <2>1. messages' = before
    BY <1>3, <1>6 DEF RollBackStep
  <2>2. AllLogged(messages)'
    BY <1>2, <1>3, <1>6, <2>1, HistoryLogged
  <2> QED
    BY <1>1, <1>6, <2>2, OutsideBatchKept
<1>7. CASE PushAssistantMessage(o)
  <2>1. PICK m : m = AssistantMessage(turn[o].step, turn[o].calls)
    OBVIOUS
  <2>2. PICK e : e = StepEvent(o, "assistant.message", m)
    OBVIOUS
  <2>3. CASE EmitFails(e) /\ Finish(o) /\ UNCHANGED <<messages, compaction>>
    BY <1>1, <2>3, MovingOnLeavesBatch, KeepsHistoryKept
       DEF KeepsHistory, Writes
  <2>4. CASE /\ Emit(e) /\ messages' = Append(messages, m)
             /\ EndStep(o, "assistant_message") \/ Goto(o, "toolCalls")
             /\ UNCHANGED compaction
    <3>1. InLog(m)' /\ Writes
      BY <2>2, <2>4, EmittedIsLogged
         DEF StepEvent, Event, VisibleTypes, Writes
    <3>2. AllLogged(messages)'
      BY <1>2, <1>4, <2>4, <3>1, HistoryLogged
    <3>3. CASE EndStep(o, "assistant_message")
      BY <1>1, <2>4, <3>1, <3>2, <3>3, MovingOnLeavesBatch, OutsideBatchKept
    <3>4. CASE Goto(o, "toolCalls")
      <4>1. OthersStay(o)
        BY <2>4, <3>4 DEF Goto, OthersStay, ControlOK
      <4>2. BatchLogged(o)'
        BY <2>1, <3>1, <3>4 DEF Goto, BatchLogged, InLog
      <4> QED
        BY <1>1, <1>2, <1>5, <2>4, <3>1, <3>2, <4>1, <4>2, WriteAheadKept
    <3> QED
      BY <2>4, <3>3, <3>4
  <2> QED
    BY <1>7, <2>1, <2>2, <2>3, <2>4 DEF PushAssistantMessage
<1>8. CASE EmitToolCalls(o)
  <2>1. Writes /\ UNCHANGED <<messages, compaction>>
    BY <1>8 DEF EmitToolCalls, Writes, history
  <2>2. CASE Finish(o)
    BY <1>1, <2>1, <2>2, MovingOnLeavesBatch, KeepsHistoryKept DEF KeepsHistory
  <2>3. CASE Goto(o, "tools")
    <3>1. OthersStay(o)
      BY <2>1, <2>3 DEF Goto, OthersStay, ControlOK
    <3>2. AllLogged(messages)'
      BY <1>2, <1>4, <2>1, HistoryLogged
    <3>3. BatchLogged(o)'
      <4>1. PICK m : m = AssistantMessage(turn[o].step, turn[o].calls)
        OBVIOUS
      <4>2. InLog(m)
        BY <1>8, <4>1 DEF EmitToolCalls, BatchLogged
      <4>3. InLog(m)'
        BY <2>1, <4>2, WritesKeepLogged
      <4> QED
        BY <2>3, <4>1, <4>3 DEF Goto, BatchLogged, InLog
    <3> QED
      BY <1>1, <1>2, <1>5, <2>1, <3>1, <3>2, <3>3, WriteAheadKept
  <2> QED
    BY <1>8, <2>2, <2>3 DEF EmitToolCalls
<1>9. CASE ToolsAborted(o) \/ ToolsAnswer(o)
  <2>1. LeavesBatch(o)
    <3>1. PICK b \in BOOLEAN : ToolsReturn(o, "results", b)
      BY <1>9 DEF ToolsAborted, ToolsAnswer
    <3> QED
      BY <3>1, MovingOnLeavesBatch DEF ToolsReturn
  <2>2. Writes /\ UNCHANGED <<messages, compaction>>
    BY <1>9 DEF ToolsAborted, ToolsAnswer, Writes, history
  <2> QED
    BY <1>1, <2>1, <2>2, KeepsHistoryKept DEF KeepsHistory
<1>10. CASE ToolsMispair(o)
  <2>1. PICK m : m = AssistantMessage(turn[o].step, turn[o].calls)
    OBVIOUS
  <2>2. LeavesBatch(o)
    BY <1>10, MovingOnLeavesBatch DEF ToolsMispair, ToolsReturn
  <2>3. Writes /\ UNCHANGED compaction /\ messages' = Append(before, m)
    BY <1>3, <1>10, <2>1 DEF ToolsMispair, Writes
  <2>4. InLog(m)'
    <3>1. InLog(m)
      BY <1>10, <2>1 DEF ToolsMispair, BatchLogged
    <3> QED
      BY <2>3, <3>1, WritesKeepLogged
  <2>5. AllLogged(messages)'
    BY <1>2, <1>3, <2>3, <2>4, HistoryLogged
  <2> QED
    BY <1>1, <2>2, <2>3, <2>5, OutsideBatchKept
<1>11. CASE ToolsCannotWrite(o)
  BY <1>6, <1>11, MovingOnLeavesBatch DEF ToolsCannotWrite, Writes
<1>12. CASE PushToolResult(o)
  <2>1. PICK m : m = Head(turn[o].out)
    OBVIOUS
  <2>2. PICK e : e = StepEvent(o, "tool.result", m)
    OBVIOUS
  <2> DEFINE rest == Tail(turn[o].out)
             next == CASE rest # <<>> -> pc[o]
                       [] rest = <<>> /\ pc[o] = "results" -> "diagnostics"
                       [] OTHER -> "errorEvent"
  <2>3. CASE EmitFails(e) /\ RollBackStep(o) /\ Finish(o) /\ UNCHANGED compaction
    BY <1>6, <2>3, MovingOnLeavesBatch DEF Writes
  <2>4. CASE /\ Emit(e) /\ messages' = Append(messages, m)
             /\ GotoWith(o, next, [turn[o] EXCEPT !.out = rest])
             /\ UNCHANGED compaction
    <3>1. InLog(m)' /\ Writes
      <4>1. /\ e.type \in VisibleTypes \union {"compact.ended"}
            /\ e.message = m
        BY <2>2 DEF StepEvent, Event, VisibleTypes
      <4> QED
        BY <2>4, <4>1, EmittedIsLogged DEF Writes
    <3>2. AllLogged(messages)'
      BY <1>2, <1>4, <2>4, <3>1, HistoryLogged
    <3>3. next \notin {"toolCalls", "tools"}
      BY <1>12 DEF PushToolResult
    <3> HIDE DEF next, rest
    <3>4. LeavesBatch(o)
      BY <2>4, <3>3, MovingOnLeavesBatch
    <3> QED
      BY <1>1, <2>4, <3>1, <3>2, <3>4, OutsideBatchKept
  <2> QED
    BY <1>12, <2>1, <2>2, <2>3, <2>4 DEF PushToolResult
<1>13. CASE EmitDiagnostics(o)
  <2>1. LeavesBatch(o) /\ Writes /\ UNCHANGED compaction
    BY <1>13, MovingOnLeavesBatch DEF EmitDiagnostics, Writes
  <2>2. CASE RollBackStep(o)
    BY <1>6, <2>1, <2>2
  <2>3. CASE UNCHANGED messages
    BY <1>1, <2>1, <2>3, KeepsHistoryKept DEF KeepsHistory
  <2> QED
    BY <1>13, <2>2, <2>3 DEF EmitDiagnostics
<1> QED
  BY <1>7, <1>8, <1>9, <1>10, <1>11, <1>12, <1>13 DEF ToolBatch

LEMMA RunTurnWriteAhead ==
    ASSUME WriteAheadInv, NEW o \in Ops, RunTurn(o)
    PROVE  WriteAheadInv'
<1> USE DEF WriteAheadInv, Inv, TypeOK
<1>1. Inv'
  BY RunTurnInv
<1>2. CASE PushUserMessage(o)
  <2>1. PICK m : m = UserMessage(turn[o].userId)
    OBVIOUS
  <2>2. PICK e : e = TurnEvent(o, "user.message", m)
    OBVIOUS
  <2>3. PICK s : s = messages
    OBVIOUS
  <2>4. LeavesBatch(o) /\ Writes /\ UNCHANGED compaction
    BY <1>2, MovingOnLeavesBatch DEF PushUserMessage, Writes
  <2>5. CASE Emit(e) /\ messages' = Append(messages, m)
    <3>1. InLog(m)'
      BY <2>2, <2>5, EmittedIsLogged DEF TurnEvent, Event, VisibleTypes
    <3>2. AllLogged(messages)'
      BY <2>3, <2>4, <2>5, <3>1, HistoryLogged DEF DataOK
    <3> QED
      BY <1>1, <2>4, <3>2, OutsideBatchKept
  <2>6. CASE UNCHANGED messages
    BY <1>1, <2>4, <2>6, KeepsHistoryKept DEF KeepsHistory
  <2> QED
    BY <1>2, <2>1, <2>2, <2>5, <2>6 DEF PushUserMessage
<1>3. ASSUME LeavesBatch(o), Writes, UNCHANGED <<history, compaction>>
      PROVE  WriteAheadInv'
  BY <1>1, <1>3, KeepsHistoryKept DEF KeepsHistory, history
<1>4. CASE PromptHook(o)
  BY <1>3, <1>4, MovingOnLeavesBatch DEF PromptHook, Writes
<1>5. CASE TurnStarted(o)
  BY <1>3, <1>5, MovingOnLeavesBatch DEF TurnStarted, Writes
<1>6. CASE StepStarted(o)
  BY <1>3, <1>6, MovingOnLeavesBatch DEF StepStarted, Writes
<1>7. CASE ErrorEvent(o)
  BY <1>3, <1>7, MovingOnLeavesBatch DEF ErrorEvent, Writes
<1>8. CASE StepEnded(o)
  BY <1>3, <1>8, MovingOnLeavesBatch DEF StepEnded, Writes
<1>9. CASE TurnEnded(o)
  BY <1>3, <1>9, MovingOnLeavesBatch DEF TurnEnded, Writes
<1>10. CASE StopHook(o)
  BY <1>3, <1>10, MovingOnLeavesBatch DEF StopHook, Writes
<1>11. CASE ProviderStep(o)
  BY <1>1, <1>11, ProviderStepKeepsHistory, KeepsHistoryKept
<1> QED
  BY <1>2, <1>4, <1>5, <1>6, <1>7, <1>8, <1>9, <1>10, <1>11,
     ToolBatchWriteAhead DEF RunTurn

LEMMA WriteAheadStep ==
    ASSUME WriteAheadInv, [Next]_vars
    PROVE  WriteAheadInv'
<1>1. Inv' /\ ControlOK
  BY NextInv DEF WriteAheadInv, Inv, TypeOK
<1>2. CASE Abort \/ UNCHANGED vars
  BY <1>1, <1>2 DEF Abort, vars, log, history, WriteAheadInv, AllLogged,
                    BatchLogged, InLog
<1>3. ASSUME NEW o \in Ops, Submit(o) \/ Advance(o)
      PROVE  WriteAheadInv'
  <2>1. CASE Submit(o) \/ CommandInvoked(o) \/ CommandOutput(o)
    BY <1>1, <2>1, SubmitKeepsHistory, KeepsHistoryKept
  <2> QED
    BY <1>3, <2>1, CompactWriteAhead, RunTurnWriteAhead DEF Advance
<1> QED
  BY <1>2, <1>3 DEF Next, Terminated

\* Memory never holds a message the log has not got - through failed writes,
\* roll-backs, mispaired batches, compactions and even the overlap of a slash
\* command with a turn.
THEOREM LoggedBeforeRemembered == Spec => []WriteAhead
<1>1. Init => WriteAheadInv
  BY InitInv DEF Init, WriteAheadInv, AllLogged, BatchLogged, NoCompaction
<1>2. WriteAheadInv => WriteAhead
  BY DEF WriteAheadInv, WriteAhead
<1> QED
  BY <1>1, <1>2, WriteAheadStep, PTL DEF Spec

-------------------------------------------------------------------------------
(***************************************************************************)
(* Bounded requests.  The attempt is counted when a back-off or the        *)
(* compaction of an overflow ends, so what holds there has to be known     *)
(* while it lasts.                                                         *)
(***************************************************************************)
AttemptsBounded(o) ==
    /\ turn[o].attempt <= MaxRetries + (IF turn[o].overflowed THEN 2 ELSE 1)
    /\ pc[o] = "backoff" => turn[o].attempt <= MaxRetries
    /\ pc[o] \in CompactLabels /\ compaction[o].trigger = "overflow_retry" =>
          turn[o].overflowed /\ turn[o].attempt <= MaxRetries + 1

RequestsInv == Inv /\ \A o \in Ops : AttemptsBounded(o)

\* The op goes on with the attempts it had, or with none.
KeepsAttempts(o) ==
    /\ \A q \in Ops \ {o} : pc'[q] = pc[q] /\ turn'[q] = turn[q]
    /\ pc'[o] \notin CompactLabels \union {"backoff"}
    /\ \/ turn'[o].attempt = 0
       \/ /\ turn'[o].attempt = turn[o].attempt
          /\ turn'[o].overflowed = turn[o].overflowed

\* The labels no attempt is counted at.
Uncounted == Labels \ (CompactLabels \union {"backoff"})

LEMMA MovingOnKeepsAttempts ==
    ASSUME ControlOK, NEW o \in Ops,
           \/ \E l \in Uncounted : Goto(o, l)
           \/ \E l \in Uncounted, t \in Turn :
                 /\ GotoWith(o, l, t)
                 /\ t.attempt = turn[o].attempt
                 /\ t.overflowed = turn[o].overflowed
           \/ Finish(o)
           \/ \E r : EndStep(o, r) \/ EndTurn(o, r)
           \/ StepThrows(o)
           \/ CompactionThrows(o)
    PROVE  KeepsAttempts(o)
<1>1. ASSUME NEW l \in Uncounted, Goto(o, l) PROVE KeepsAttempts(o)
  BY <1>1 DEF Goto, KeepsAttempts, ControlOK, Uncounted
<1>2. ASSUME NEW l \in Uncounted, NEW t, GotoWith(o, l, t),
             \/ t.attempt = 0
             \/ t.attempt = turn[o].attempt /\ t.overflowed = turn[o].overflowed
      PROVE  KeepsAttempts(o)
  BY <1>2 DEF GotoWith, KeepsAttempts, ControlOK, Uncounted
<1>3. {"done", "stepEnded", "turnEnded", "errorEvent"} \subseteq Uncounted
  BY DEF Uncounted, Labels, Running, TurnLabels, CompactLabels, Finished
<1>4. ASSUME Finish(o) PROVE KeepsAttempts(o)
  BY <1>3, <1>4 DEF Finish, KeepsAttempts, ControlOK, Uncounted, NoTurn
<1>5. ASSUME NEW r, EndStep(o, r) PROVE KeepsAttempts(o)
  BY <1>2, <1>3, <1>5 DEF EndStep, NoTurn
<1>6. ASSUME NEW r, EndTurn(o, r) PROVE KeepsAttempts(o)
  <2>1. /\ [turn[o] EXCEPT !.reason = r].attempt = turn[o].attempt
        /\ [turn[o] EXCEPT !.reason = r].overflowed = turn[o].overflowed
    BY DEF ControlOK, Turn
  <2> QED
    BY <1>2, <1>3, <1>6, <2>1 DEF EndTurn
<1>7. ASSUME StepThrows(o) PROVE KeepsAttempts(o)
  BY <1>1, <1>3, <1>5, <1>7 DEF StepThrows
<1> QED
  BY <1>1, <1>2, <1>4, <1>5, <1>6, <1>7 DEF CompactionThrows

LEMMA AttemptsKept ==
    ASSUME RequestsInv, NEW o \in Ops, Inv',
           \A q \in Ops \ {o} : pc'[q] = pc[q] /\ turn'[q] = turn[q],
           OthersCompactionStays(o), AttemptsBounded(o)'
    PROVE  RequestsInv'
<1>1. ASSUME NEW q \in Ops \ {o} PROVE AttemptsBounded(q)'
  BY DEF RequestsInv, AttemptsBounded, OthersCompactionStays
<1> QED
  BY <1>1 DEF RequestsInv

LEMMA KeepsAttemptsKept ==
    ASSUME RequestsInv, NEW o \in Ops, Inv', KeepsAttempts(o),
           OthersCompactionStays(o)
    PROVE  RequestsInv'
<1>1. MaxRetries \in Nat /\ turn'[o].attempt \in Nat
  BY BoundsAssumption DEF Inv, TypeOK, ControlOK, Turn
<1>2. AttemptsBounded(o)'
  BY <1>1 DEF RequestsInv, AttemptsBounded, KeepsAttempts
<1> QED
  BY <1>2, AttemptsKept DEF KeepsAttempts

\* A compaction starts: only that of an overflow is counted.
LEMMA StartCompactionKept ==
    ASSUME RequestsInv, NEW o \in Ops, Inv', NEW t \in Triggers, NEW b,
           StartCompaction(o, t, b),
           \A q \in Ops \ {o} : turn'[q] = turn[q],
           turn'[o].attempt = turn[o].attempt,
           \/ t # "overflow_retry" /\ turn'[o].overflowed = turn[o].overflowed
           \/ ~turn[o].overflowed /\ turn'[o].overflowed
    PROVE  RequestsInv'
<1>1. MaxRetries \in Nat /\ turn[o].attempt \in Nat
  BY BoundsAssumption DEF RequestsInv, Inv, TypeOK, ControlOK, Turn
<1>2. /\ pc'[o] = "compactStarted" /\ compaction'[o].trigger = t
      /\ \A q \in Ops \ {o} : pc'[q] = pc[q]
      /\ OthersCompactionStays(o)
  BY DEF StartCompaction, OthersCompactionStays, RequestsInv, Inv, TypeOK,
         ControlOK, DataOK
<1>3. AttemptsBounded(o)'
  BY <1>1, <1>2 DEF RequestsInv, AttemptsBounded
<1> QED
  BY <1>2, <1>3, AttemptsKept

LEMMA SubmitRequests ==
    ASSUME RequestsInv, NEW o \in Ops, Inv',
           Submit(o) \/ CommandInvoked(o) \/ CommandOutput(o)
    PROVE  RequestsInv'
<1> USE DEF RequestsInv, Inv, TypeOK
<1>1. {"rejected", "command"} \subseteq Uncounted
  BY DEF Uncounted, Labels, Running, TurnLabels, CompactLabels, Finished
<1>2. CASE Reject(o) \/ SubmitSlash(o)
  <2>1. KeepsAttempts(o) /\ OthersCompactionStays(o)
    BY <1>1, <1>2, MovingOnKeepsAttempts
       DEF Reject, SubmitSlash, OthersCompactionStays
  <2> QED
    BY <2>1, KeepsAttemptsKept
<1>3. CASE SubmitUser(o)
  <2>1. KeepsAttempts(o) /\ OthersCompactionStays(o)
    BY <1>3 DEF SubmitUser, KeepsAttempts, ControlOK, OthersCompactionStays,
                CompactLabels, Turn
  <2> QED
    BY <2>1, KeepsAttemptsKept
<1>4. CASE SubmitCompact(o)
  BY <1>4, StartCompactionKept DEF SubmitCompact, Triggers
<1>5. CASE CommandInvoked(o)
  <2>1. CASE StartCompaction(o, "manual", FALSE) /\ UNCHANGED turn
    BY <2>1, StartCompactionKept DEF Triggers
  <2>2. CASE Finish(o) /\ UNCHANGED compaction
    BY <2>2, MovingOnKeepsAttempts, KeepsAttemptsKept DEF OthersCompactionStays
  <2> QED
    BY <1>5, <2>1, <2>2 DEF CommandInvoked
<1>6. CASE CommandOutput(o)
  BY <1>6, MovingOnKeepsAttempts, KeepsAttemptsKept
     DEF CommandOutput, OthersCompactionStays
<1> QED
  BY <1>2, <1>3, <1>4, <1>5, <1>6 DEF Submit

LEMMA CompactRequests ==
    ASSUME RequestsInv, NEW o \in Ops, Compact(o)
    PROVE  RequestsInv'
<1> USE DEF RequestsInv, Inv, TypeOK
<1>1. Inv'
  BY CompactInv
<1>2. /\ {"reassemble", "contextStep", "commandOutput"} \subseteq Uncounted
      /\ "assemble" \notin CompactLabels \union {"backoff"}
      /\ {"summarize", "compactEnded", "compactFailed", "compactStarted"}
            = CompactLabels
  BY DEF Uncounted, Labels, Running, TurnLabels, CompactLabels, Finished
<1>3. MaxRetries \in Nat /\ turn[o].attempt \in Nat
      /\ compaction[o].trigger \in Triggers
  BY BoundsAssumption DEF ControlOK, DataOK, Turn, Compaction
<1>4. ASSUME pc[o] \in CompactLabels, OthersCompactionStays(o),
             CompactReturnsSucceeded(o) \/ CompactReturnsFailed(o)
      PROVE  RequestsInv'
  <2>1. CASE KeepsAttempts(o)
    BY <1>1, <1>4, <2>1, KeepsAttemptsKept
  <2>2. CASE compaction[o].trigger \in {"manual", "auto"}
    <3>1. KeepsAttempts(o)
      BY <1>2, <1>4, <2>2, MovingOnKeepsAttempts
         DEF CompactReturnsSucceeded, CompactReturnsFailed, ManualCompactReturns
    <3> QED
      BY <2>1, <3>1
  <2>3. CASE compaction[o].trigger = "overflow_retry"
    <3>1. CASE StepThrows(o)
      BY <2>1, <3>1, MovingOnKeepsAttempts
    <3>2. CASE GotoWith(o, "assemble", [turn[o] EXCEPT !.attempt = @ + 1])
      <4>1. turn[o].overflowed /\ turn[o].attempt <= MaxRetries + 1
        BY <1>4, <2>3 DEF AttemptsBounded
      <4>2. /\ pc'[o] = "assemble" /\ turn'[o].attempt = turn[o].attempt + 1
            /\ turn'[o].overflowed
            /\ \A q \in Ops \ {o} : pc'[q] = pc[q] /\ turn'[q] = turn[q]
        BY <3>2, <4>1 DEF GotoWith, ControlOK, Turn
      <4>3. AttemptsBounded(o)'
        BY <1>2, <1>3, <4>1, <4>2 DEF AttemptsBounded
      <4> QED
        BY <1>1, <1>4, <4>2, <4>3, AttemptsKept
    <3> QED
      BY <1>4, <2>3, <3>1, <3>2 DEF CompactReturnsSucceeded, CompactReturnsFailed
  <2> QED
    BY <1>3, <2>2, <2>3 DEF Triggers
<1>5. ASSUME CompactionThrows(o), LeaveCompaction(o) PROVE RequestsInv'
  <2>1. KeepsAttempts(o)
    BY <1>5, MovingOnKeepsAttempts
  <2> QED
    BY <1>1, <1>5, <2>1, LeaveCompactionStays, KeepsAttemptsKept
\* The compaction goes on.
<1>6. ASSUME NEW l \in CompactLabels, pc[o] \in CompactLabels, Goto(o, l),
             UNCHANGED compaction
      PROVE  RequestsInv'
  <2>1. /\ pc'[o] = l /\ turn' = turn
        /\ \A q \in Ops \ {o} : pc'[q] = pc[q] /\ turn'[q] = turn[q]
    BY <1>6 DEF Goto, ControlOK
  <2>2. AttemptsBounded(o)'
    BY <1>2, <1>6, <2>1 DEF AttemptsBounded
  <2> QED
    BY <1>1, <1>6, <2>1, <2>2, AttemptsKept DEF OthersCompactionStays
<1>7. CASE CompactStarted(o)
  BY <1>2, <1>5, <1>6, <1>7 DEF CompactStarted
<1>8. CASE Summarize(o)
  BY <1>2, <1>6, <1>8 DEF Summarize
<1>9. CASE CompactEnded(o) \/ CompactFailed(o)
  BY <1>2, <1>4, <1>5, <1>9, LeaveCompactionStays
     DEF CompactEnded, CompactFailed
<1> QED
  BY <1>7, <1>8, <1>9 DEF Compact

LEMMA ProviderStepRequests ==
    ASSUME RequestsInv, NEW o \in Ops, ProviderStep(o)
    PROVE  RequestsInv'
<1> USE DEF RequestsInv, Inv, TypeOK
<1>1. Inv'
  BY ProviderStepInv
<1>2. /\ {"contextStep", "provider", "assistantMessage"} \subseteq Uncounted
      /\ "assemble" \notin CompactLabels \union {"backoff"}
      /\ "backoff" \notin CompactLabels
  BY DEF Uncounted, Labels, Running, TurnLabels, CompactLabels, Finished
<1>3. MaxRetries \in Nat /\ turn[o].attempt \in Nat /\ turn[o] \in Turn
  BY BoundsAssumption DEF ControlOK, Turn
<1>4. ASSUME KeepsAttempts(o), UNCHANGED compaction PROVE RequestsInv'
  BY <1>1, <1>4, KeepsAttemptsKept DEF OthersCompactionStays
<1>5. CASE AutoCompact(o)
  BY <1>1, <1>5, StartCompactionKept DEF AutoCompact, Triggers
<1>6. CASE Assembled(o) \/ AssembleThrows(o) \/ ContextStep(o)
  BY <1>2, <1>4, <1>6, MovingOnKeepsAttempts
     DEF Assembled, AssembleThrows, ContextStep
<1>7. CASE ProviderAborts(o) \/ ProviderFails(o)
  BY <1>4, <1>7, MovingOnKeepsAttempts DEF ProviderAborts, ProviderFails
<1>8. CASE ProviderAnswers(o)
  <2>1. PICK n \in 0..MaxCalls :
          GotoWith(o, "assistantMessage",
                   [turn[o] EXCEPT !.calls = [i \in 1..n |-> <<turn[o].step, i>>],
                                   !.start = Len(messages)])
    BY <1>8 DEF ProviderAnswers
  <2>2. KeepsAttempts(o)
    BY <1>2, <1>3, <2>1 DEF GotoWith, KeepsAttempts, ControlOK, Uncounted, Turn
  <2> QED
    BY <1>4, <1>8, <2>2 DEF ProviderAnswers
<1>9. CASE ProviderRetries(o)
  <2>1. CASE StepThrows(o)
    BY <1>4, <1>9, <2>1, MovingOnKeepsAttempts DEF ProviderRetries
  <2>2. CASE Goto(o, "backoff")
    <3>1. /\ pc'[o] = "backoff" /\ turn' = turn
          /\ \A q \in Ops \ {o} : pc'[q] = pc[q] /\ turn'[q] = turn[q]
      BY <2>2 DEF Goto, ControlOK
    <3>2. AttemptsBounded(o)'
      BY <1>2, <1>9, <3>1 DEF AttemptsBounded, ProviderRetries
    <3> QED
      BY <1>1, <1>9, <3>1, <3>2, AttemptsKept
         DEF ProviderRetries, OthersCompactionStays
  <2> QED
    BY <1>9, <2>1, <2>2 DEF ProviderRetries
<1>10. CASE BackoffEnds(o)
  <2>1. turn[o].attempt <= MaxRetries
    BY <1>10 DEF BackoffEnds, AttemptsBounded
  <2>2. /\ pc'[o] = "assemble" /\ turn'[o].attempt = turn[o].attempt + 1
        /\ \A q \in Ops \ {o} : pc'[q] = pc[q] /\ turn'[q] = turn[q]
    BY <1>3, <1>10 DEF BackoffEnds, GotoWith, ControlOK, Turn
  <2>3. AttemptsBounded(o)'
    BY <1>2, <1>3, <2>1, <2>2 DEF AttemptsBounded
  <2> QED
    BY <1>1, <1>10, <2>2, <2>3, AttemptsKept DEF BackoffEnds, OthersCompactionStays
<1>11. CASE ProviderOverflows(o)
  <2>1. /\ turn'[o].attempt = turn[o].attempt
        /\ ~turn[o].overflowed /\ turn'[o].overflowed
        /\ \A q \in Ops \ {o} : turn'[q] = turn[q]
        /\ StartCompaction(o, "overflow_retry", FALSE)
    BY <1>3, <1>11 DEF ProviderOverflows, ControlOK, Turn
  <2> QED
    BY <1>1, <2>1, StartCompactionKept DEF Triggers
<1> QED
  BY <1>5, <1>6, <1>7, <1>8, <1>9, <1>10, <1>11 DEF ProviderStep

LEMMA ToolBatchRequests ==
    ASSUME RequestsInv, NEW o \in Ops, ToolBatch(o)
    PROVE  RequestsInv'
<1> USE DEF RequestsInv, Inv, TypeOK
<1>1. Inv'
  BY ToolBatchInv
<1>2. {"toolCalls", "tools", "results", "pairingResults", "diagnostics",
       "errorEvent"} \subseteq Uncounted
  BY DEF Uncounted, Labels, Running, TurnLabels, CompactLabels
<1>3. turn[o] \in Turn
  BY DEF ControlOK
<1>4. UNCHANGED compaction
  BY DEF ToolBatch, PushAssistantMessage, EmitToolCalls, ToolsAborted,
         ToolsAnswer, ToolsMispair, ToolsCannotWrite, PushToolResult,
         EmitDiagnostics
<1>5. ASSUME NEW l \in Uncounted, NEW out, NEW b,
             GotoWith(o, l, [turn[o] EXCEPT !.out = out, !.batchAborted = b])
      PROVE  KeepsAttempts(o)
  BY <1>3, <1>5 DEF GotoWith, KeepsAttempts, ControlOK, Uncounted, Turn
<1>6. CASE PushAssistantMessage(o) \/ EmitToolCalls(o) \/ ToolsCannotWrite(o)
           \/ EmitDiagnostics(o)
  <2>1. KeepsAttempts(o)
    BY <1>2, <1>6, MovingOnKeepsAttempts
       DEF PushAssistantMessage, EmitToolCalls, ToolsCannotWrite, EmitDiagnostics
  <2> QED
    BY <1>1, <1>4, <2>1, KeepsAttemptsKept DEF OthersCompactionStays
<1>7. CASE ToolsAborted(o) \/ ToolsAnswer(o) \/ ToolsMispair(o)
  <2>1. \E l \in {"results", "pairingResults"}, b \in BOOLEAN : ToolsReturn(o, l, b)
    BY <1>7 DEF ToolsAborted, ToolsAnswer, ToolsMispair
  <2>2. KeepsAttempts(o)
    BY <1>2, <1>5, <2>1 DEF ToolsReturn
  <2> QED
    BY <1>1, <1>4, <2>2, KeepsAttemptsKept DEF OthersCompactionStays
<1>8. CASE PushToolResult(o)
  <2> DEFINE rest == Tail(turn[o].out)
             next == CASE rest # <<>> -> pc[o]
                       [] rest = <<>> /\ pc[o] = "results" -> "diagnostics"
                       [] OTHER -> "errorEvent"
  <2>1. next \in Uncounted
    BY <1>2, <1>8 DEF PushToolResult
  <2>2. GotoWith(o, next, [turn[o] EXCEPT !.out = rest]) \/ Finish(o)
    BY <1>8 DEF PushToolResult
  <2> HIDE DEF next
  <2>3. KeepsAttempts(o)
    <3>1. [turn[o] EXCEPT !.out = rest] =
             [turn[o] EXCEPT !.out = rest, !.batchAborted = turn[o].batchAborted]
      BY <1>3 DEF Turn
    <3> QED
      BY <1>5, <2>1, <2>2, <3>1, MovingOnKeepsAttempts
  <2> QED
    BY <1>1, <1>4, <2>3, KeepsAttemptsKept DEF OthersCompactionStays
<1> QED
  BY <1>6, <1>7, <1>8 DEF ToolBatch

LEMMA RunTurnRequests ==
    ASSUME RequestsInv, NEW o \in Ops, RunTurn(o)
    PROVE  RequestsInv'
<1> USE DEF RequestsInv, Inv, TypeOK
<1>1. Inv'
  BY RunTurnInv
<1>2. {"turnStarted", "userMessage", "stepStarted", "stopHook", "turnEnded"}
        \subseteq Uncounted
  BY DEF Uncounted, Labels, Running, TurnLabels, CompactLabels
<1>3. ASSUME KeepsAttempts(o), UNCHANGED compaction PROVE RequestsInv'
  BY <1>1, <1>3, KeepsAttemptsKept DEF OthersCompactionStays
<1>4. CASE PromptHook(o)
  <2>1. KeepsAttempts(o)
    <3>1. CASE GotoWith(o, "turnStarted", [turn[o] EXCEPT !.userId = nextId + 1])
      BY <1>2, <3>1 DEF GotoWith, KeepsAttempts, ControlOK, Uncounted, Turn
    <3> QED
      BY <1>4, <3>1, MovingOnKeepsAttempts DEF PromptHook
  <2> QED
    BY <1>3, <1>4, <2>1 DEF PromptHook
<1>5. CASE StepStarted(o)
  <2>1. CASE Finish(o)
    BY <1>3, <1>5, <2>1, MovingOnKeepsAttempts DEF StepStarted
  <2>2. CASE GotoWith(o, "assemble",
                      [turn[o] EXCEPT !.step = nextId + 1, !.index = @ + 1,
                                      !.attempt = 1])
    <3>1. /\ pc'[o] = "assemble" /\ turn'[o].attempt = 1
          /\ \A q \in Ops \ {o} : pc'[q] = pc[q] /\ turn'[q] = turn[q]
      BY <2>2 DEF GotoWith, ControlOK, Turn
    <3>2. "assemble" \notin CompactLabels \union {"backoff"} /\ MaxRetries \in Nat
      BY BoundsAssumption DEF CompactLabels
    <3>3. AttemptsBounded(o)'
      BY <3>1, <3>2 DEF AttemptsBounded
    <3> QED
      BY <1>1, <1>5, <3>1, <3>3, AttemptsKept DEF StepStarted, OthersCompactionStays
  <2> QED
    BY <1>5, <2>1, <2>2 DEF StepStarted
<1>6. CASE TurnStarted(o)
  BY <1>2, <1>3, <1>6, MovingOnKeepsAttempts DEF TurnStarted
<1>7. CASE PushUserMessage(o)
  BY <1>2, <1>3, <1>7, MovingOnKeepsAttempts DEF PushUserMessage
<1>8. CASE ErrorEvent(o)
  BY <1>3, <1>8, MovingOnKeepsAttempts DEF ErrorEvent
<1>9. CASE StepEnded(o)
  BY <1>2, <1>3, <1>9, MovingOnKeepsAttempts DEF StepEnded
<1>10. CASE TurnEnded(o)
  BY <1>2, <1>3, <1>10, MovingOnKeepsAttempts DEF TurnEnded
<1>11. CASE StopHook(o)
  BY <1>3, <1>11, MovingOnKeepsAttempts DEF StopHook
<1> QED
  BY <1>4, <1>5, <1>6, <1>7, <1>8, <1>9, <1>10, <1>11, ProviderStepRequests,
     ToolBatchRequests DEF RunTurn

LEMMA RequestsStep ==
    ASSUME RequestsInv, [Next]_vars
    PROVE  RequestsInv'
<1>1. Inv'
  BY NextInv DEF RequestsInv
<1>2. CASE Abort \/ UNCHANGED vars
  <2>1. UNCHANGED <<pc, turn, compaction>>
    BY <1>2 DEF Abort, vars
  <2> QED
    BY <1>1, <2>1 DEF RequestsInv, AttemptsBounded
<1>3. ASSUME NEW o \in Ops, Submit(o) \/ Advance(o)
      PROVE  RequestsInv'
  BY <1>1, <1>3, SubmitRequests, CompactRequests, RunTurnRequests DEF Advance
<1> QED
  BY <1>2, <1>3 DEF Next, Terminated

\* However often the provider fails, asks to be retried or overflows, one step
\* makes at most MaxRetries + 1 requests, and one more after the single
\* compaction an overflow may cause: no path counts an attempt twice or forgets
\* to count it.
THEOREM BoundedRequests == Spec => []RequestsBounded
<1>1. Init => RequestsInv
  <2>1. MaxRetries \in Nat
    BY BoundsAssumption
  <2> QED
    BY <2>1, InitInv DEF Init, RequestsInv, AttemptsBounded, NoTurn, CompactLabels
<1>2. RequestsInv => RequestsBounded
  BY DEF RequestsInv, AttemptsBounded, RequestsBounded, Ops
<1> QED
  BY <1>1, <1>2, RequestsStep, PTL DEF Spec
===============================================================================
