--------------------------- MODULE ToolBatch_proofs ---------------------------
(***************************************************************************)
(* Proofs of the safety properties of ToolBatch.                           *)
(***************************************************************************)
EXTENDS ToolBatch, TLAPS

-------------------------------------------------------------------------------
(***************************************************************************)
(* Type correctness                                                        *)
(***************************************************************************)
Labels == {"idle"} \union InFlight \union Ended

LEMMA PcTypes ==
    ASSUME TypeOK, NEW c \in Calls
    PROVE  /\ \A l \in Labels : Goto(c, l) =>
                 /\ pc' \in [Calls -> Labels]
                 /\ result' \in [Calls -> Results \union {"none"}]
           /\ \A r \in Results : Return(c, r) =>
                 /\ pc' \in [Calls -> Labels]
                 /\ result' \in [Calls -> Results \union {"none"}]
  BY DEF TypeOK, Labels, Ended, Goto, Return

LEMMA ThrowTypes ==
    ASSUME TypeOK, NEW c \in Calls, Throw(c) \/ Fail(c)
    PROVE  /\ pc' \in [Calls -> Labels]
           /\ result' \in [Calls -> Results \union {"none"}]
  BY PcTypes DEF Throw, Fail, Labels, Ended, Results

LEMMA FailureTypes ==
    ASSUME TypeOK
    PROVE  /\ Written => failures' \in 0..MaxFailures
           /\ \A t : NotWritten(t) => failures' \in 0..MaxFailures
  BY BatchAssumption DEF TypeOK, Written, NotWritten

LEMMA CallTypes ==
    ASSUME TypeOK, NEW c \in Calls, Call(c)
    PROVE  TypeOK'
<1>1. \A l : l \in Labels <=> l \in {"idle"} \union InFlight \union Ended
  BY DEF Labels
<1>a. CASE StartNext(c)
  BY <1>a, PcTypes DEF StartNext, TypeOK, ApprovalsTypeOK, approvalVars, tool,
     changes, Labels, InFlight, Ended, Results
<1>b. CASE Decided(c)
  <2>1. ApprovalsTypeOK'
    BY <1>b DEF Decided, TypeOK, ApprovalsTypeOK, approvalVars, Request
  <2>2. pc' \in [Calls -> Labels] /\ result' \in [Calls -> Results \union {"none"}]
    BY <1>b, PcTypes, ThrowTypes DEF Decided, Labels, InFlight, Results
  <2>3. failures' \in 0..MaxFailures
    BY <1>b, FailureTypes DEF Decided
  <2> QED
    BY <1>b, <2>1, <2>2, <2>3 DEF Decided, TypeOK, tool, changes, Labels
<1>c. CASE Asked(c)
  BY <1>c, PcTypes, ThrowTypes, FailureTypes DEF Asked, TypeOK, ApprovalsTypeOK,
     approvalVars, tool, changes, Labels, InFlight
<1>d. CASE Approved(c)
  BY <1>d, PcTypes DEF Approved, TypeOK, ApprovalsTypeOK, approvalVars, tool,
     changes, Labels, InFlight, Results
<1>e. CASE Checked(c)
  BY <1>e, PcTypes, ThrowTypes DEF Checked, TypeOK, ApprovalsTypeOK,
     approvalVars, tool, changes, Labels, InFlight
<1>f. CASE HookStarted(c)
  BY <1>f, PcTypes, ThrowTypes, FailureTypes DEF HookStarted, TypeOK,
     ApprovalsTypeOK, approvalVars, tool, changes, Labels, InFlight
<1>g. CASE HookRan(c)
  BY <1>g, PcTypes DEF HookRan, TypeOK, ApprovalsTypeOK, approvalVars, tool,
     changes, Labels, InFlight
<1>h. CASE HookEnded(c)
  BY <1>h, PcTypes, ThrowTypes, FailureTypes DEF HookEnded, TypeOK,
     ApprovalsTypeOK, approvalVars, tool, changes, Labels, InFlight
<1>i. CASE Blocked(c)
  BY <1>i, PcTypes, ThrowTypes, FailureTypes DEF Blocked, TypeOK,
     ApprovalsTypeOK, approvalVars, tool, changes, Results, Labels
<1>j. CASE Begin(c)
  BY <1>j, PcTypes, ThrowTypes DEF Begin, TypeOK, ApprovalsTypeOK,
     approvalVars, tool, changes, Labels, InFlight
<1>k. CASE Work(c)
  <2>1. effects' \subseteq Calls
    BY <1>k DEF Work, TypeOK
  <2>2. pc' \in [Calls -> Labels] /\ result' \in [Calls -> Results \union {"none"}]
    BY <1>k, PcTypes, ThrowTypes DEF Work, Labels, InFlight, Results
  <2> QED
    BY <1>k, <2>1, <2>2 DEF Work, TypeOK, ApprovalsTypeOK, approvalVars, tool, Labels
<1>l. CASE UpdateTodo(c)
  BY <1>l, PcTypes DEF UpdateTodo, TypeOK, ApprovalsTypeOK, approvalVars, tool,
     Labels, InFlight
<1>m. CASE TodoWritten(c)
  <2>1. todoLogged' \in Calls \union {None}
    BY <1>m DEF TodoWritten, TypeOK
  <2>2. pc' \in [Calls -> Labels] /\ result' \in [Calls -> Results \union {"none"}]
    BY <1>m, PcTypes, ThrowTypes DEF TodoWritten, Labels, InFlight, Results
  <2> QED
    BY <1>m, <2>1, <2>2, FailureTypes
    DEF TodoWritten, TypeOK, ApprovalsTypeOK, approvalVars, tool, Labels
<1>n. CASE Stored(c)
  BY <1>n, PcTypes, ThrowTypes, FailureTypes DEF Stored, TypeOK,
     ApprovalsTypeOK, approvalVars, tool, changes, Labels, InFlight
<1>o. CASE PostHooked(c)
  BY <1>o, PcTypes, ThrowTypes, FailureTypes DEF PostHooked, TypeOK,
     ApprovalsTypeOK, approvalVars, tool, changes, Labels, Results
<1> QED
  BY <1>a, <1>b, <1>c, <1>d, <1>e, <1>f, <1>g, <1>h, <1>i, <1>j, <1>k, <1>l,
     <1>m, <1>n, <1>o DEF Call

LEMMA ApprovalTypes ==
    ASSUME TypeOK, NEW c \in Calls, Settle(c) \/ HostResponds(c)
    PROVE  TypeOK'
<1>1. CASE HostResponds(c)
  BY <1>1 DEF HostResponds, Respond, TypeOK, ApprovalsTypeOK, batchVars
<1>2. CASE ResponseEnds(c)
  <2>1. answering[c] \in Decision
    BY <1>2 DEF ResponseEnds, ResponseWritten, ResponseNotWritten, TypeOK,
       ApprovalsTypeOK
  <2>2. ApprovalsTypeOK'
    BY <1>2, <2>1 DEF ResponseEnds, ResponseWritten, ResponseNotWritten,
       Settled, TypeOK, ApprovalsTypeOK, Stages
  <2> QED
    BY <1>2, <2>2, FailureTypes DEF ResponseEnds, TypeOK, tool, changes
<1>3. CASE CancelNext(c) /\ UNCHANGED batchVars
  BY <1>3 DEF CancelNext, TypeOK, ApprovalsTypeOK, Decision, batchVars
<1> QED
  BY <1>1, <1>2, <1>3 DEF Settle

LEMMA BatchTypes ==
    ASSUME TypeOK, NEW b \in Batches, StartBatch(b) \/ Answer(b) \/ Abort(b)
    PROVE  TypeOK'
<1>1. CASE StartBatch(b)
  BY <1>1 DEF StartBatch, TypeOK, ApprovalsTypeOK, approvalVars, tool, changes,
     InFlight, Ended, Results
<1>2. CASE Answer(b)
  BY <1>2 DEF Answer, BatchReturns, BatchThrows, BatchAborts, AnswerBatch,
     Answers, TypeOK, ApprovalsTypeOK, approvalVars, tool, changes
<1>3. CASE Abort(b)
  <2>1. ApprovalsTypeOK'
    BY <1>3 DEF Abort, Revoke, TypeOK, ApprovalsTypeOK, Decision
  <2> QED
    BY <1>3, <2>1 DEF Abort, TypeOK, tool, changes
<1> QED
  BY <1>1, <1>2, <1>3

LEMMA TypeStep == TypeOK /\ [Next]_vars => TypeOK'
<1> SUFFICES ASSUME TypeOK, [Next]_vars PROVE TypeOK'
  OBVIOUS
<1>1. CASE UNCHANGED vars
  BY <1>1 DEF vars, TypeOK, ApprovalsTypeOK, approvalVars, batchVars
<1>2. CASE HostCloses
  BY <1>2 DEF HostCloses, Close, TypeOK, ApprovalsTypeOK, Stages, batchVars
<1>3. CASE CancelledAll /\ UNCHANGED batchVars
  BY <1>3 DEF CancelledAll, TypeOK, ApprovalsTypeOK, Stages, batchVars
<1> QED
  BY <1>1, <1>2, <1>3, CallTypes, ApprovalTypes, BatchTypes DEF Next, Rest

LEMMA TypeInit == Init => TypeOK
  BY BatchAssumption DEF Init, ApprovalsInit, TypeOK, ApprovalsTypeOK, Stages,
     Kinds, Decision

\* Every variable stays of its type, for any calls in any number of batches.
THEOREM TypeCorrect == Spec => []TypeOK
  BY TypeInit, TypeStep, PTL DEF Spec

-------------------------------------------------------------------------------
(***************************************************************************)
(* What a step of a call does to the calls' places.                        *)
(***************************************************************************)
\* Calls whose permission has not been asked for yet.
Start == {"idle", "deciding"}

LEMMA CallMoves ==
    ASSUME TypeOK, NEW c \in Calls, Call(c)
    PROVE  /\ \A q \in Calls \ {c} : pc'[q] = pc[q] /\ result'[q] = result[q]
           /\ pc'[c] # "idle" /\ pc[c] \notin Ended
           /\ pc'[c] = "deciding" => pc[c] = "idle"
           /\ UNCHANGED <<kind, policy, batch, aborted>>
<1> USE DEF TypeOK, Goto, Return, Throw, Fail, tool, Ended
<1>a. CASE StartNext(c)
  BY <1>a DEF StartNext
<1>b. CASE Decided(c)
  BY <1>b DEF Decided
<1>c. CASE Asked(c)
  BY <1>c DEF Asked
<1>d. CASE Approved(c)
  BY <1>d DEF Approved
<1>e. CASE Checked(c)
  BY <1>e DEF Checked
<1>f. CASE HookStarted(c)
  BY <1>f DEF HookStarted
<1>g. CASE HookRan(c)
  BY <1>g DEF HookRan
<1>h. CASE HookEnded(c)
  BY <1>h DEF HookEnded
<1>i. CASE Blocked(c)
  BY <1>i DEF Blocked
<1>j. CASE Begin(c)
  BY <1>j DEF Begin
<1>k. CASE Work(c)
  BY <1>k DEF Work
<1>l. CASE UpdateTodo(c)
  BY <1>l DEF UpdateTodo
<1>m. CASE TodoWritten(c)
  BY <1>m DEF TodoWritten
<1>n. CASE Stored(c)
  BY <1>n DEF Stored
<1>o. CASE PostHooked(c)
  BY <1>o DEF PostHooked
<1> QED
  BY <1>a, <1>b, <1>c, <1>d, <1>e, <1>f, <1>g, <1>h, <1>i, <1>j, <1>k, <1>l,
     <1>m, <1>n, <1>o DEF Call

\* A call asks for approval in one place only.
LEMMA CallAsks ==
    ASSUME NEW c \in Calls, Call(c)
    PROVE  UNCHANGED approvalVars \/ (pc[c] = "deciding" /\ Request(c))
  BY DEF Call, StartNext, Decided, Asked, Approved, Checked, HookStarted,
     HookRan, HookEnded, Blocked, Begin, Work, UpdateTodo, TodoWritten, Stored,
     PostHooked

\* Calls of a batch that has not begun have not either.
NotBegun == \A c \in Calls : batch[BatchOf[c]] = "idle" => pc[c] = "idle"

LEMMA BatchMoves ==
    ASSUME TypeOK, NotBegun, NEW b \in Batches, StartBatch(b), NEW c \in Calls
    PROVE  \/ pc'[c] = pc[c]
           \/ /\ c \in First(b) /\ pc[c] = "idle"
              /\ pc'[c] \in {"returned", "deciding"}
  BY DEF TypeOK, StartBatch, NotBegun, First, Of

\* Other actions move no call.
LEMMA Others ==
    ASSUME TypeOK, [Next]_vars, ~\E c \in Calls : Call(c),
           ~\E b \in Batches : StartBatch(b)
    PROVE  /\ UNCHANGED <<kind, policy, pc, result, effects>>
           /\ \A c \in Calls : batch'[BatchOf[c]] = "idle" <=> batch[BatchOf[c]] = "idle"
<1> USE DEF tool, changes, batchVars
<1>1. CASE \E b \in Batches : Answer(b)
  BY <1>1, BatchAssumption DEF Answer, BatchReturns, BatchThrows, BatchAborts,
     AnswerBatch, TypeOK
<1>2. CASE \E b \in Batches : Abort(b)
  BY <1>2 DEF Abort
<1>3. CASE \E c \in Calls : Settle(c) \/ HostResponds(c)
  BY <1>3 DEF Settle, HostResponds, ResponseEnds
<1>4. CASE HostCloses \/ UNCHANGED batchVars
  BY <1>4 DEF HostCloses
<1> QED
  BY <1>1, <1>2, <1>3, <1>4 DEF Next, Rest, vars

LEMMA Moves ==
    ASSUME TypeOK, NotBegun, [Next]_vars, NEW c \in Calls
    PROVE  /\ pc'[c] \in Start => pc[c] \in Start
           /\ pc'[c] = "idle" => pc[c] = "idle"
           /\ pc[c] = "returned" => pc'[c] = "returned"
           /\ UNCHANGED <<kind, policy>>
<1>1. CASE \E q \in Calls : Call(q)
  BY <1>1, CallMoves DEF Start, Ended
<1>2. CASE \E b \in Batches : StartBatch(b)
  BY <1>2, BatchMoves DEF Start, StartBatch, tool
<1> QED
  BY <1>1, <1>2, Others

LEMMA NotBegunStep == TypeOK /\ NotBegun /\ [Next]_vars => NotBegun'
<1> SUFFICES ASSUME TypeOK, NotBegun, [Next]_vars,
                    NEW c \in Calls, batch'[BatchOf[c]] = "idle"
             PROVE  pc'[c] = "idle"
  BY DEF NotBegun
<1>1. CASE \E q \in Calls : Call(q)
  <2> PICK q \in Calls : Call(q)
    BY <1>1
  <2>1. CASE q = c
    <3>1. pc[c] = "idle" => StartNext(c)
      BY <2>1 DEF Call, Decided, Asked, Approved, Checked, HookStarted,
         HookRan, HookEnded, Blocked, Begin, Work, UpdateTodo, TodoWritten,
         Stored, PostHooked
    <3> QED
      BY <3>1, <2>1, CallMoves DEF NotBegun, StartNext
  <2> QED
    BY <2>1, CallMoves DEF NotBegun
<1>2. CASE \E b \in Batches : StartBatch(b)
  BY <1>2, BatchAssumption DEF StartBatch, NotBegun, TypeOK, First, Of
<1> QED
  BY <1>1, <1>2, Others DEF NotBegun

LEMMA NotBegunInit == Init => NotBegun
  BY DEF Init, NotBegun

THEOREM IdleBatches == Spec => [](TypeOK /\ NotBegun)
  BY TypeInit, TypeStep, NotBegunInit, NotBegunStep, PTL DEF Spec

-------------------------------------------------------------------------------
(***************************************************************************)
(* Approvals: the first response decides                                   *)
(***************************************************************************)
\* Nothing has been decided about a call.
Untouched(c) ==
    /\ answering[c] = "none" /\ verdict[c] = "none"
    /\ \A d \in Decision : <<c, d>> \notin responses

\* FirstResponseDecides is not inductive: that a call in the table, or one that
\* has not asked, is untouched keeps a second response out.
ApprovalInv ==
    /\ \A c \in Calls : pc[c] \in Start => c \notin pending
    /\ \A c \in Calls : pc[c] \in Start \/ c \in pending => Untouched(c)
    /\ FirstResponseDecides

LEMMA ApprovalStep ==
    TypeOK /\ NotBegun /\ ApprovalInv /\ [Next]_vars => ApprovalInv'
<1> SUFFICES ASSUME TypeOK, NotBegun, ApprovalInv, [Next]_vars
             PROVE  ApprovalInv'
  OBVIOUS
<1>0. \A c \in Calls : pc'[c] \in Start => pc[c] \in Start
  BY Moves
<1>1. CASE UNCHANGED approvalVars
  BY <1>0, <1>1 DEF ApprovalInv, approvalVars, Untouched, FirstResponseDecides
<1>2. ASSUME NEW c \in Calls, Call(c), pc[c] = "deciding", Request(c)
      PROVE  ApprovalInv'
  <2>1. pc'[c] \notin Start
    BY <1>2, CallMoves DEF Start
  <2> QED
    BY <1>0, <1>2, <2>1 DEF ApprovalInv, Request, Untouched, Start,
       FirstResponseDecides
<1>3. ASSUME NEW c \in pending, NEW d \in Decision, UNCHANGED pc,
             pending' = pending \ {c},
             answering' = [answering EXCEPT ![c] = d],
             UNCHANGED <<responses, verdict>>
      PROVE  ApprovalInv'
  <2>1. c \in Calls /\ Untouched(c) /\ pc[c] \notin Start
    BY DEF ApprovalInv, TypeOK, ApprovalsTypeOK
  <2> QED
    BY <1>3, <2>1 DEF ApprovalInv, Untouched, FirstResponseDecides, TypeOK,
       ApprovalsTypeOK
<1>4. ASSUME NEW c \in Calls, ResponseEnds(c)
      PROVE  ApprovalInv'
  <2>1. answering[c] \in Decision
    BY <1>4 DEF ResponseEnds, ResponseWritten, ResponseNotWritten, TypeOK,
       ApprovalsTypeOK
  <2>2. c \notin pending /\ pc[c] \notin Start
    BY <2>1 DEF ApprovalInv, Untouched, Decision
  <2>3. verdict[c] = "none" /\ \A d \in Decision : <<c, d>> \notin responses
    BY <2>1 DEF ApprovalInv, FirstResponseDecides, Decision
  <2>4. /\ pending' = pending /\ pc' = pc
        /\ answering' = [answering EXCEPT ![c] = "none"]
        /\ \/ verdict' = [verdict EXCEPT ![c] = answering[c]]
              /\ responses' = responses \union {<<c, answering[c]>>}
           \/ verdict' = verdict
              /\ responses' \in {responses, responses \union {<<c, answering[c]>>}}
    BY <1>4, <2>3 DEF ResponseEnds, ResponseWritten, ResponseNotWritten, Settled
  <2>5. \A q \in Calls : q # c =>
            /\ answering'[q] = answering[q] /\ verdict'[q] = verdict[q]
            /\ \A d \in Decision : <<q, d>> \in responses' <=> <<q, d>> \in responses
    BY <2>4 DEF TypeOK, ApprovalsTypeOK
  <2>6. /\ answering'[c] = "none" /\ verdict'[c] \in {"none", answering[c]}
        /\ \A d \in Decision : <<c, d>> \in responses' => d = answering[c]
        /\ verdict'[c] # "none" => <<c, verdict'[c]>> \in responses'
    BY <2>1, <2>3, <2>4 DEF TypeOK, ApprovalsTypeOK, Decision
  <2>7. FirstResponseDecides'
    BY <2>5, <2>6 DEF ApprovalInv, FirstResponseDecides, Decision
  <2> QED
    BY <2>2, <2>4, <2>5, <2>7 DEF ApprovalInv, Untouched
<1>5. ASSUME NEW b \in Batches, Abort(b)
      PROVE  ApprovalInv'
  <2>1. \A c \in Calls : verdict'[c] = verdict[c] \/ (verdict'[c] = "deny" /\ c \in pending \ pending')
    BY <1>5 DEF Abort, Revoke
  <2> QED
    BY <1>5, <2>1 DEF Abort, Revoke, ApprovalInv, Untouched, FirstResponseDecides
<1>6. CASE HostCloses \/ (CancelledAll /\ UNCHANGED batchVars)
  BY <1>6 DEF HostCloses, Close, CancelledAll, batchVars, ApprovalInv,
     Untouched, FirstResponseDecides
<1>7. CASE \E c \in Calls : HostResponds(c) \/ (CancelNext(c) /\ UNCHANGED batchVars)
  BY <1>7, <1>3 DEF HostResponds, Respond, CancelNext, batchVars, Decision
<1>8. CASE \E c \in Calls : Call(c)
  BY <1>8, <1>1, <1>2, CallAsks
<1> QED
  BY <1>1, <1>4, <1>5, <1>6, <1>7, <1>8
  DEF Next, Settle, StartBatch, Answer, BatchReturns, BatchThrows, BatchAborts,
      AnswerBatch, Rest, vars

LEMMA ApprovalInit == Init => ApprovalInv
  BY DEF Init, ApprovalsInit, ApprovalInv, Untouched, Decision, FirstResponseDecides

\* However responses, aborts and the closing of the session cross, a call gets
\* one decision, and goes on with "allow" only if the log has it.
THEOREM OneDecision == Spec => []FirstResponseDecides
<1>1. Spec => [](TypeOK /\ NotBegun /\ ApprovalInv)
  BY TypeInit, TypeStep, NotBegunInit, NotBegunStep, ApprovalInit, ApprovalStep,
     PTL DEF Spec
<1>2. ApprovalInv => FirstResponseDecides
  BY DEF ApprovalInv
<1> QED
  BY <1>1, <1>2, PTL

-------------------------------------------------------------------------------
(***************************************************************************)
(* Nothing unapproved, and nothing done where the model is told it was     *)
(* refused                                                                 *)
(***************************************************************************)
Permitted(c) ==
    policy[c] = "allow" \/ (policy[c] = "ask" /\ <<c, "allow">> \in responses)

\* Places of calls that have passed the permission.
PastPermission == {"checking", "hookStarting", "hooking", "hookEnding", "blocking",
                   "executing", "working", "todoWriting", "storing", "postHook"}
\* Places of calls that may have changed something.
Done == {"storing", "postHook", "returned", "threw"}

EffectInv(c) ==
    /\ pc[c] \in {"asking", "waiting"} => policy[c] = "ask"
    /\ pc[c] \in PastPermission \/ c \in effects => Permitted(c)
    /\ c \in effects => pc[c] \in Done
    /\ result[c] # "none" => pc[c] = "returned"
    /\ result[c] \in {"denied", "blocked"} => c \notin effects

LEMMA EffectCall ==
    ASSUME TypeOK, FirstResponseDecides, NEW c \in Calls, EffectInv(c), Call(c)
    PROVE  EffectInv(c)'
<1> USE DEF EffectInv, Permitted, PastPermission, Done, Goto, Return, Throw,
    Fail, tool, changes, approvalVars
<1>0. /\ pc \in [Calls -> Labels] /\ result \in [Calls -> Results \union {"none"}]
      /\ verdict[c] = "allow" => <<c, "allow">> \in responses
  BY DEF TypeOK, Labels, FirstResponseDecides
<1>a. CASE StartNext(c)
  BY <1>0, <1>a DEF StartNext
<1>b. CASE Decided(c)
  BY <1>0, <1>b DEF Decided, Request
<1>c. CASE Asked(c)
  BY <1>0, <1>c DEF Asked
<1>d. CASE Approved(c)
  BY <1>0, <1>d DEF Approved
<1>e. CASE Checked(c)
  BY <1>0, <1>e DEF Checked
<1>f. CASE HookStarted(c)
  BY <1>0, <1>f DEF HookStarted
<1>g. CASE HookRan(c)
  BY <1>0, <1>g DEF HookRan
<1>h. CASE HookEnded(c)
  BY <1>0, <1>h DEF HookEnded
<1>i. CASE Blocked(c)
  BY <1>0, <1>i DEF Blocked
<1>j. CASE Begin(c)
  BY <1>0, <1>j DEF Begin
<1>k. CASE Work(c)
  BY <1>0, <1>k DEF Work
<1>l. CASE UpdateTodo(c)
  BY <1>0, <1>l DEF UpdateTodo
<1>m. CASE TodoWritten(c)
  BY <1>0, <1>m DEF TodoWritten
<1>n. CASE Stored(c)
  BY <1>0, <1>n DEF Stored
<1>o. CASE PostHooked(c)
  BY <1>0, <1>o DEF PostHooked
<1> QED
  BY <1>a, <1>b, <1>c, <1>d, <1>e, <1>f, <1>g, <1>h, <1>i, <1>j, <1>k, <1>l,
     <1>m, <1>n, <1>o DEF Call

\* What one call does to the files is its own.
LEMMA CallEffects ==
    ASSUME NEW c \in Calls, Call(c)
    PROVE  \A q : q # c => (q \in effects' <=> q \in effects)
  BY DEF Call, StartNext, Decided, Asked, Approved, Checked, HookStarted,
     HookRan, HookEnded, Blocked, Begin, Work, UpdateTodo, TodoWritten, Stored,
     PostHooked, changes

LEMMA ResponsesStay == [Next]_vars => responses \subseteq responses'
<1> SUFFICES ASSUME [Next]_vars PROVE responses \subseteq responses'
  OBVIOUS
<1>1. CASE \E c \in Calls : Call(c)
  BY <1>1, CallAsks DEF Request, approvalVars
<1> QED
  BY <1>1 DEF Next, Settle, ResponseEnds, ResponseWritten, ResponseNotWritten,
     CancelNext, HostResponds, Respond, StartBatch, Answer, BatchReturns,
     BatchThrows, BatchAborts, AnswerBatch, Abort, Revoke, HostCloses, Close,
     CancelledAll, Rest, vars, approvalVars

LEMMA EffectStep ==
    ASSUME TypeOK, NotBegun, FirstResponseDecides, [Next]_vars,
           NEW c \in Calls, EffectInv(c)
    PROVE  EffectInv(c)'
<1>1. Permitted(c) => Permitted(c)'
  BY ResponsesStay, Moves DEF Permitted
<1>2. CASE Call(c)
  BY <1>2, EffectCall
<1>3. CASE \E q \in Calls \ {c} : Call(q)
  BY <1>1, <1>3, CallMoves, CallEffects DEF EffectInv
<1>4. CASE \E b \in Batches : StartBatch(b)
  <2> PICK b \in Batches : StartBatch(b)
    BY <1>4
  <2>1. /\ effects' = effects /\ policy' = policy
        /\ result'[c] = result[c] \/ (pc'[c] = "returned" /\ result'[c] = "error")
    BY DEF StartBatch, changes, tool
  <2>2. pc'[c] = pc[c] \/ (pc[c] = "idle" /\ pc'[c] \in {"returned", "deciding"})
    BY BatchMoves
  <2> QED
    BY <1>1, <2>1, <2>2 DEF EffectInv, PastPermission, Done
<1> QED
  BY <1>1, <1>2, <1>3, <1>4, Others DEF EffectInv

EffectsInv == \A c \in Calls : EffectInv(c)

LEMMA EffectInit == Init => EffectsInv
  BY DEF Init, EffectsInv, EffectInv, PastPermission

THEOREM EffectsCorrect ==
    Spec => [](TypeOK /\ FirstResponseDecides /\ EffectsInv)
<1>1. ApprovalInv => FirstResponseDecides
  BY DEF ApprovalInv
<1>2. TypeOK /\ NotBegun /\ ApprovalInv /\ EffectsInv /\ [Next]_vars
        => EffectsInv'
  BY <1>1, EffectStep DEF EffectsInv
<1> QED
  BY <1>1, <1>2, TypeInit, TypeStep, NotBegunInit, NotBegunStep, ApprovalInit,
     ApprovalStep, EffectInit, PTL DEF Spec

\* A call that changes files or runs a command has the policy's or the user's
\* permission, and one reported as denied or blocked has changed nothing, at any
\* number of calls and however approvals, aborts, failed writes and the closing of
\* the session interleave.
THEOREM Permission == Spec => []EffectsPermitted
<1>1. TypeOK /\ EffectsInv => EffectsPermitted
  <2> SUFFICES ASSUME TypeOK, EffectsInv
               PROVE  EffectsPermitted
    OBVIOUS
  <2>1. \A c \in effects : policy[c] = "allow" \/ (policy[c] = "ask" /\ <<c, "allow">> \in responses)
    BY DEF TypeOK, EffectsInv, EffectInv, Permitted
  <2>2. \A c \in Calls : result[c] \in {"denied", "blocked"} => c \notin effects
    BY DEF EffectsInv, EffectInv
  <2> QED
    BY <2>1, <2>2 DEF EffectsPermitted
<1> QED
  BY <1>1, EffectsCorrect, PTL

-------------------------------------------------------------------------------
(***************************************************************************)
(* Writers work alone                                                      *)
(***************************************************************************)
\* In a serial batch a call begins after the calls before it have returned.
InOrder ==
    \A d \in Calls : ~Parallel(BatchOf[d]) /\ pc[d] # "idle"
        => \A c \in Earlier[d] : pc[c] = "returned"

LEMMA OrderStep == TypeOK /\ NotBegun /\ InOrder /\ [Next]_vars => InOrder'
<1> SUFFICES ASSUME TypeOK, NotBegun, InOrder, [Next]_vars, NEW d \in Calls,
                    ~Parallel(BatchOf[d])', pc'[d] # "idle", NEW c \in Earlier[d]
             PROVE  pc'[c] = "returned"
  BY DEF InOrder
<1>1. c \in Calls /\ ~Parallel(BatchOf[d])
  BY Moves, BatchAssumption DEF Parallel
<1>2. CASE pc[d] # "idle"
  BY <1>1, <1>2, Moves DEF InOrder
<1>3. CASE pc[d] = "idle" /\ \E q \in Calls : Call(q)
  <2>1. StartNext(d)
    BY <1>3, CallMoves DEF Call, Decided, Asked, Approved, Checked, HookStarted,
       HookRan, HookEnded, Blocked, Begin, Work, UpdateTodo, TodoWritten,
       Stored, PostHooked
  <2> QED
    BY <1>1, <2>1, Moves DEF StartNext
<1>4. CASE pc[d] = "idle" /\ \E b \in Batches : StartBatch(b)
  <2> PICK b \in Batches : StartBatch(b)
    BY <1>4
  <2>1. d \in First(b)
    BY <1>4, BatchMoves
  <2> QED
    BY <1>1, <2>1 DEF First, Of
<1> QED
  BY <1>2, <1>3, <1>4, Others

LEMMA OrderInit == Init => InOrder
  BY DEF Init, InOrder

\* A call of a tool that may change something, or that the runtime knows
\* nothing of, is alone in its batch while it is under way.
THEOREM Serial == Spec => []WritersWorkAlone
<1>1. Spec => [](TypeOK /\ NotBegun /\ InOrder)
  BY TypeInit, TypeStep, NotBegunInit, NotBegunStep, OrderInit, OrderStep,
     PTL DEF Spec
<1>2. TypeOK /\ InOrder => WritersWorkAlone
  BY BatchAssumption DEF InOrder, WritersWorkAlone, Parallel, Of, InFlight
<1> QED
  BY <1>1, <1>2, PTL

-------------------------------------------------------------------------------
(***************************************************************************)
(* Abandoned work                                                          *)
(***************************************************************************)
\* A batch is given up for a call that has thrown; a batch begins when those
\* before it have been answered.
BatchInv ==
    /\ \A b \in Batches : batch[b] = "threw" => \E c \in Of(b) : pc[c] = "threw"
    /\ \A a, b \in Batches : a < b /\ batch[b] # "idle" => batch[a] \in Answers

LEMMA ThrownStay ==
    ASSUME TypeOK, NotBegun, [Next]_vars, NEW c \in Calls, pc[c] = "threw"
    PROVE  pc'[c] = "threw"
<1>1. CASE \E q \in Calls : Call(q)
  BY <1>1, CallMoves DEF Ended
<1>2. CASE \E b \in Batches : StartBatch(b)
  BY <1>2, BatchMoves
<1> QED
  BY <1>1, <1>2, Others

\* How an action changes the answers of the batches.
LEMMA BatchChanges ==
    ASSUME TypeOK, [Next]_vars
    PROVE  \/ batch' = batch
           \/ \E b \in Batches : StartBatch(b)
           \/ \E b \in Batches : Answer(b)
<1>1. CASE \E c \in Calls : Call(c)
  BY <1>1, CallMoves
<1> QED
  BY <1>1 DEF Next, Settle, ResponseEnds, HostResponds, Abort, HostCloses, Rest,
     vars, batchVars

LEMMA BatchStep ==
    TypeOK /\ NotBegun /\ BatchInv /\ [Next]_vars => BatchInv'
<1> SUFFICES ASSUME TypeOK, NotBegun, BatchInv, [Next]_vars PROVE BatchInv'
  OBVIOUS
<1>1. \A c \in Calls : pc[c] = "threw" => pc'[c] = "threw"
  BY ThrownStay
<1>2. \A b \in Batches : Of(b) \subseteq Calls
  BY DEF Of
<1>3. CASE batch' = batch
  BY <1>1, <1>2, <1>3 DEF BatchInv
<1>4. ASSUME NEW b \in Batches, StartBatch(b) PROVE BatchInv'
  <2>1. /\ \A a \in Batches : a < b => batch[a] \in Answers
        /\ batch[b] = "idle"
        /\ batch' = [batch EXCEPT ![b] = "running"]
    BY <1>4 DEF StartBatch
  <2>2. batch'[b] = "running" /\ \A a \in Batches \ {b} : batch'[a] = batch[a]
    BY <2>1 DEF TypeOK
  <2>3. "idle" \notin Answers /\ "running" \notin Answers
    BY DEF Answers
  <2>4. \A a \in Batches : a < b => a # b
    BY DEF Batches
  <2> QED
    BY <1>1, <1>2, <2>1, <2>2, <2>3, <2>4 DEF BatchInv
<1>5. ASSUME NEW b \in Batches, Answer(b) PROVE BatchInv'
  <2>1. PICK answer \in Answers :
          /\ AnswerBatch(b, answer)
          /\ answer = "threw" => \E c \in Of(b) : pc[c] = "threw"
    BY <1>5 DEF Answer, BatchReturns, BatchThrows, BatchAborts, Answers
  <2>2. /\ batch[b] = "running" /\ pc' = pc
        /\ batch'[b] = answer /\ \A a \in Batches \ {b} : batch'[a] = batch[a]
    BY <2>1 DEF AnswerBatch, TypeOK
  <2> QED
    BY <2>1, <2>2 DEF BatchInv
<1> QED
  BY <1>3, <1>4, <1>5, BatchChanges

LEMMA BatchInit == Init => BatchInv
  BY DEF Init, BatchInv

LEMMA AbandonedStep ==
    ASSUME TypeOK, NotBegun, InOrder, BatchInv, [Next]_vars, NEW c \in Calls
    PROVE  /\ pc'[c] = "working" /\ pc[c] # "working" => ~IsAborted(c)
           /\ c \in effects' \ effects => batch[BatchOf[c]] # "threw"
<1>1. CASE Call(c)
  <2>1. pc'[c] = "working" /\ pc[c] # "working" => Begin(c)
    BY <1>1 DEF Call, StartNext, Decided, Asked, Approved, Checked, HookStarted,
       HookRan, HookEnded, Blocked, Work, UpdateTodo, TodoWritten, Stored,
       PostHooked, Goto, Return, Throw, Fail, TypeOK
  <2>2. Begin(c) /\ pc'[c] = "working" => ~IsAborted(c)
    BY DEF Begin, Fail, Return, TypeOK
  <2>3. c \in effects' \ effects => Work(c) /\ kind[c] = "write"
    BY <1>1 DEF Call, StartNext, Decided, Asked, Approved, Checked, HookStarted,
       HookRan, HookEnded, Blocked, Begin, Work, UpdateTodo, TodoWritten, Stored,
       PostHooked, changes
  <2>4. ASSUME Work(c), kind[c] = "write", batch[BatchOf[c]] = "threw" PROVE FALSE
    <3>1. pc[c] = "working" /\ ~Parallel(BatchOf[c]) /\ BatchOf[c] \in Batches
      BY <2>4, BatchAssumption DEF Work, Parallel, Of
    <3>2. PICK d \in Of(BatchOf[c]) : pc[d] = "threw"
      BY <2>4, <3>1 DEF BatchInv
    <3>3. d \in Calls /\ BatchOf[d] = BatchOf[c] /\ d # c
      BY <3>1, <3>2 DEF Of
    <3>4. c \in Earlier[d] \/ d \in Earlier[c]
      BY <3>3, BatchAssumption
    <3> QED
      BY <3>1, <3>2, <3>3, <3>4 DEF InOrder
  <2> QED
    BY <2>1, <2>2, <2>3, <2>4
<1>2. CASE \E q \in Calls \ {c} : Call(q)
  BY <1>2, CallMoves, CallEffects
<1>3. CASE \E b \in Batches : StartBatch(b)
  BY <1>3, BatchMoves DEF StartBatch, changes
<1> QED
  BY <1>1, <1>2, <1>3, Others

\* No file tool or command gets to work after its turn was aborted, and a batch
\* given up for a failed write changes nothing more: the calls behind the one
\* that threw never begin.
THEOREM AbandonedWork == Spec => AbandonedWorkStops
<1>1. TypeOK /\ NotBegun /\ InOrder /\ BatchInv /\ [Next]_vars =>
        [\A c \in Calls :
            /\ pc'[c] = "working" /\ pc[c] # "working" => ~IsAborted(c)
            /\ c \in effects' \ effects => batch[BatchOf[c]] # "threw"]_vars
  BY AbandonedStep
<1> QED
  BY <1>1, TypeInit, TypeStep, NotBegunInit, NotBegunStep, OrderInit, OrderStep,
     BatchInit, BatchStep, PTL DEF Spec, AbandonedWorkStops

-------------------------------------------------------------------------------
(***************************************************************************)
(* The todo list                                                           *)
(***************************************************************************)
Undisturbed == failures = 0 /\ aborted = {}

\* As long as nothing has been aborted and every write has succeeded, no call
\* throws and a batch is answered when all its calls have returned; so only one
\* update of the list is ever under way, and it is the last one.
TodoInv ==
    Undisturbed =>
       /\ \A c \in Calls : pc[c] # "threw"
       /\ \A b \in Batches : batch[b] \in Answers => \A c \in Of(b) : pc[c] = "returned"
       /\ \A c \in Calls : pc[c] = "todoWriting" => kind[c] = "todo" /\ todo = c
       /\ (\A c \in Calls : pc[c] # "todoWriting") => todo = todoLogged

\* Then the calls under way are those of one batch.
LEMMA OneBatchRuns ==
    ASSUME TypeOK, NotBegun, BatchInv, TodoInv, Undisturbed,
           NEW c \in Calls, NEW d \in Calls, pc[c] \in InFlight, pc[d] \in InFlight
    PROVE  BatchOf[c] = BatchOf[d]
<1>1. ASSUME NEW q \in Calls, pc[q] \in InFlight
      PROVE  batch[BatchOf[q]] # "idle" /\ batch[BatchOf[q]] \notin Answers
  <2>1. pc[q] # "idle" /\ pc[q] # "returned"
    BY <1>1 DEF InFlight
  <2> QED
    BY <2>1, BatchAssumption DEF NotBegun, TodoInv, Of
<1>2. BatchOf[c] \in 1..NumBatches /\ BatchOf[d] \in 1..NumBatches /\ NumBatches \in Nat
  BY BatchAssumption DEF Batches
<1>3. BatchOf[c] < BatchOf[d] \/ BatchOf[d] < BatchOf[c] \/ BatchOf[c] = BatchOf[d]
  BY <1>2
<1> QED
  BY <1>1, <1>2, <1>3 DEF BatchInv, Batches

LEMMA TodoAlone ==
    ASSUME TypeOK, NotBegun, InOrder, BatchInv, TodoInv, Undisturbed,
           NEW c \in Calls, pc[c] \in InFlight, kind[c] = "todo"
    PROVE  \A d \in Calls \ {c} : pc[d] \notin InFlight
<1>1. WritersWorkAlone
  BY BatchAssumption DEF InOrder, WritersWorkAlone, Parallel, Of, InFlight
<1> QED
  BY <1>1, OneBatchRuns DEF WritersWorkAlone

LEMMA DisturbedStays ==
    ASSUME TypeOK, [Next]_vars, Undisturbed'
    PROVE  Undisturbed /\ failures' = failures /\ aborted' = aborted
<1>1. failures' = failures \/ failures' = failures + 1
  BY DEF Next, Call, StartNext, Decided, Asked, Approved, Checked, HookStarted,
     HookRan, HookEnded, Blocked, Begin, Work, UpdateTodo, TodoWritten, Stored,
     PostHooked, Settle, ResponseEnds, HostResponds, StartBatch, Answer,
     BatchReturns, BatchThrows, BatchAborts, AnswerBatch, Abort, HostCloses, Rest,
     vars, batchVars, Written, NotWritten
<1>2. aborted \subseteq aborted'
  <2>1. CASE \E c \in Calls : Call(c)
    BY <2>1, CallMoves
  <2> QED
    BY <2>1 DEF Next, Settle, ResponseEnds, HostResponds, StartBatch, Answer,
       BatchReturns, BatchThrows, BatchAborts, AnswerBatch, Abort, HostCloses,
       Rest, vars, batchVars
<1>3. failures \in Nat
  BY BatchAssumption DEF TypeOK
<1> QED
  BY <1>1, <1>2, <1>3 DEF Undisturbed

\* What a call's step is to the list, when no write fails.
LEMMA TodoCall ==
    ASSUME TypeOK, NEW c \in Calls, Call(c), Undisturbed, failures' = failures
    PROVE  /\ pc'[c] # "threw"
           /\ \/ /\ UNCHANGED <<todo, todoLogged>>
                 /\ pc[c] # "todoWriting" /\ pc'[c] # "todoWriting"
              \/ /\ pc[c] = "executing" /\ pc'[c] = "todoWriting"
                 /\ kind[c] = "todo" /\ todo' = c
              \/ /\ pc[c] = "todoWriting" /\ pc'[c] # "todoWriting"
                 /\ todo' = todo /\ todoLogged' = c
<1> USE DEF Goto, Return, Throw, Fail, IsAborted, changes, Written, NotWritten
<1>1. ~\E t : NotWritten(t)
  BY BatchAssumption DEF Undisturbed
<1>2. pc \in [Calls -> Labels] /\ ~IsAborted(c)
  BY DEF TypeOK, Labels, Undisturbed
<1>a. CASE StartNext(c)
  BY <1>1, <1>2, <1>a DEF StartNext
<1>b. CASE Decided(c)
  BY <1>1, <1>2, <1>b DEF Decided
<1>c. CASE Asked(c)
  BY <1>1, <1>2, <1>c DEF Asked
<1>d. CASE Approved(c)
  BY <1>1, <1>2, <1>d DEF Approved
<1>e. CASE Checked(c)
  BY <1>1, <1>2, <1>e DEF Checked
<1>f. CASE HookStarted(c)
  BY <1>1, <1>2, <1>f DEF HookStarted
<1>g. CASE HookRan(c)
  BY <1>1, <1>2, <1>g DEF HookRan
<1>h. CASE HookEnded(c)
  BY <1>1, <1>2, <1>h DEF HookEnded
<1>i. CASE Blocked(c)
  BY <1>1, <1>2, <1>i DEF Blocked
<1>j. CASE Begin(c)
  BY <1>1, <1>2, <1>j DEF Begin
<1>k. CASE Work(c)
  BY <1>1, <1>2, <1>k DEF Work
<1>l. CASE UpdateTodo(c)
  BY <1>1, <1>2, <1>l DEF UpdateTodo
<1>m. CASE TodoWritten(c)
  BY <1>1, <1>2, <1>m DEF TodoWritten
<1>n. CASE Stored(c)
  BY <1>1, <1>2, <1>n DEF Stored
<1>o. CASE PostHooked(c)
  BY <1>1, <1>2, <1>o DEF PostHooked
<1> QED
  BY <1>a, <1>b, <1>c, <1>d, <1>e, <1>f, <1>g, <1>h, <1>i, <1>j, <1>k, <1>l,
     <1>m, <1>n, <1>o DEF Call

LEMMA TodoStep ==
    TypeOK /\ NotBegun /\ InOrder /\ BatchInv /\ TodoInv /\ [Next]_vars => TodoInv'
<1> SUFFICES ASSUME TypeOK, NotBegun, InOrder, BatchInv, TodoInv, [Next]_vars,
                    Undisturbed'
             PROVE  /\ \A c \in Calls : pc'[c] # "threw"
                    /\ \A b \in Batches : batch'[b] \in Answers =>
                          \A c \in Of(b) : pc'[c] = "returned"
                    /\ \A c \in Calls : pc'[c] = "todoWriting" =>
                          kind'[c] = "todo" /\ todo' = c
                    /\ (\A c \in Calls : pc'[c] # "todoWriting") => todo' = todoLogged'
  BY DEF TodoInv
<1>1. Undisturbed /\ failures' = failures /\ aborted' = aborted
  BY DisturbedStays
<1>2. \A b \in Batches : Of(b) \subseteq Calls
  BY DEF Of
<1>3. /\ \A c \in Calls : pc[c] # "threw"
      /\ \A b \in Batches : batch[b] \in Answers => \A c \in Of(b) : pc[c] = "returned"
      /\ \A c \in Calls : pc[c] = "todoWriting" => kind[c] = "todo" /\ todo = c
      /\ (\A c \in Calls : pc[c] # "todoWriting") => todo = todoLogged
  BY <1>1 DEF TodoInv
<1>4. kind' = kind /\ \A c \in Calls : pc[c] = "returned" => pc'[c] = "returned"
  <2>1. CASE Calls = {}
    BY <2>1 DEF Next, StartBatch, Answer, BatchReturns, BatchThrows, BatchAborts,
       AnswerBatch, Abort, HostCloses, Rest, vars, batchVars, tool
  <2>2. CASE Calls # {}
    BY <2>2, Moves
  <2> QED
    BY <2>1, <2>2
<1>5. ASSUME NEW b \in Batches, batch'[b] \in Answers, NEW c \in Of(b)
      PROVE  pc'[c] = "returned"
  <2>1. CASE batch[b] \in Answers
    BY <1>2, <1>3, <1>4, <1>5, <2>1
  <2>2. CASE batch[b] \notin Answers
    <3>1. ~\E a \in Batches : StartBatch(a)
      BY <1>5, <2>2 DEF StartBatch, TypeOK, Answers
    <3>2. PICK a \in Batches : Answer(a)
      BY <1>5, <2>2, <3>1, BatchChanges
    <3>3. Answer(b)
      BY <1>5, <2>2, <3>2 DEF Answer, BatchReturns, BatchThrows, BatchAborts,
         AnswerBatch, TypeOK
    <3>4. BatchReturns(b)
      BY <1>1, <1>2, <1>3, <3>3 DEF Answer, BatchThrows, BatchAborts, Undisturbed
    <3> QED
      BY <1>2, <1>4, <3>4 DEF BatchReturns
  <2> QED
    BY <2>1, <2>2
<1>6. ASSUME NEW q \in Calls, Call(q)
      PROVE  /\ \A c \in Calls : pc'[c] # "threw"
             /\ \A c \in Calls : pc'[c] = "todoWriting" => kind[c] = "todo" /\ todo' = c
             /\ (\A c \in Calls : pc'[c] # "todoWriting") => todo' = todoLogged'
  <2>1. \A c \in Calls \ {q} : pc'[c] = pc[c]
    BY <1>6, CallMoves
  <2>2. pc'[q] # "threw"
    BY <1>1, <1>6, TodoCall
  <2>3. CASE /\ UNCHANGED <<todo, todoLogged>>
             /\ pc[q] # "todoWriting" /\ pc'[q] # "todoWriting"
    BY <1>3, <2>1, <2>2, <2>3
  <2>4. CASE /\ pc[q] = "executing" /\ pc'[q] = "todoWriting"
             /\ kind[q] = "todo" /\ todo' = q
    <3>1. \A d \in Calls \ {q} : pc[d] \notin InFlight
      BY <1>1, <2>4, TodoAlone DEF InFlight
    <3>2. \A d \in Calls \ {q} : pc[d] # "todoWriting"
      BY <3>1 DEF InFlight
    <3> QED
      BY <1>3, <2>1, <2>2, <2>4, <3>2
  <2>5. CASE /\ pc[q] = "todoWriting" /\ pc'[q] # "todoWriting"
             /\ todo' = todo /\ todoLogged' = q
    <3>1. kind[q] = "todo" /\ todo = q
      BY <1>3, <2>5
    <3>2. \A d \in Calls \ {q} : pc[d] \notin InFlight
      BY <1>1, <2>5, <3>1, TodoAlone DEF InFlight
    <3>3. \A d \in Calls \ {q} : pc[d] # "todoWriting"
      BY <3>2 DEF InFlight
    <3> QED
      BY <1>3, <2>1, <2>2, <2>5, <3>1, <3>3
  <2> QED
    BY <1>1, <1>6, <2>3, <2>4, <2>5, TodoCall
<1>7. ASSUME NEW b \in Batches, StartBatch(b)
      PROVE  /\ UNCHANGED <<todo, todoLogged>>
             /\ \A c \in Calls : pc'[c] # "threw"
             /\ \A c \in Calls : pc'[c] = "todoWriting" <=> pc[c] = "todoWriting"
  <2>1. \A c \in Calls : pc'[c] = pc[c] \/ (pc[c] = "idle" /\ pc'[c] \in {"returned", "deciding"})
    BY <1>7, BatchMoves
  <2> QED
    BY <1>3, <1>7, <2>1 DEF StartBatch, changes
<1>8. CASE ~(\E c \in Calls : Call(c)) /\ ~(\E b \in Batches : StartBatch(b))
  <2>1. UNCHANGED <<pc, todo, todoLogged>>
    BY <1>8 DEF Next, Settle, ResponseEnds, HostResponds, Answer, BatchReturns,
       BatchThrows, BatchAborts, AnswerBatch, Abort, HostCloses, Rest, vars,
       batchVars, changes
  <2> QED
    BY <1>3, <1>4, <1>5, <2>1
<1> QED
  BY <1>3, <1>4, <1>5, <1>6, <1>7, <1>8

LEMMA TodoInit == Init => TodoInv
  BY DEF Init, TodoInv, Answers

\* With no abort and no failed write the todo list in memory is the one the log
\* tells of, however many calls of however many batches update it: no two
\* updates are ever under way together.
THEOREM TodoIsLogged == Spec => []TodoMatchesLog
<1>1. TodoInv => TodoMatchesLog
  BY DEF TodoInv, TodoMatchesLog, Undisturbed
<1> QED
  BY <1>1, TypeInit, TypeStep, NotBegunInit, NotBegunStep, OrderInit, OrderStep,
     BatchInit, BatchStep, TodoInit, TodoStep, PTL DEF Spec
===============================================================================
