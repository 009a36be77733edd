------------------------------- MODULE Approvals -------------------------------
(***************************************************************************)
(* permissions/approval.ts: tool calls that wait for the user's decision.  *)
(* A call waits on a promise that the response, the abort of its turn or   *)
(* the closing of the session settles.  Responses are written to the log   *)
(* before they settle it.  A call asks at most once, so it stands for its  *)
(* approval id.                                                            *)
(***************************************************************************)
CONSTANTS
    Calls,       \* tool calls
    None         \* no call

ASSUME NoneAssumption == None \notin Calls

VARIABLES
    pending,     \* keys of ApprovalManager.pending; also: listens for the abort
    answering,   \* the response being written for a call
    responses,   \* approval.responded events in the log: <<call, decision>>
    verdict,     \* what the call's promise is resolved to
    closing,     \* where cancelAll is: the call it cancels, or a stage
    lost         \* calls whose response could not be written (for the properties)

approvalVars == <<pending, answering, responses, verdict, closing, lost>>

Decision == {"allow", "deny"}
Stages == {"open", "next", "closed", "failed"}

ApprovalsTypeOK ==
    /\ pending \subseteq Calls
    /\ answering \in [Calls -> Decision \union {"none"}]
    /\ responses \subseteq Calls \X Decision
    /\ verdict \in [Calls -> Decision \union {"none"}]
    /\ closing \in Calls \union Stages
    /\ lost \subseteq Calls

ApprovalsInit ==
    /\ pending = {}
    /\ answering = [c \in Calls |-> "none"]
    /\ responses = {}
    /\ verdict = [c \in Calls |-> "none"]
    /\ closing = "open"
    /\ lost = {}

\* request, up to its write.
Request(c) ==
    /\ pending' = pending \union {c}
    /\ UNCHANGED <<answering, responses, verdict, closing, lost>>

\* A promise is settled once; later settlements are ignored.
Settled(c, d) ==
    IF verdict[c] = "none" THEN [verdict EXCEPT ![c] = d] ELSE verdict

\* Wrong: the entry is not removed.
RespondKeeping(c, d) ==
    /\ c \in pending
    /\ answering' = [answering EXCEPT ![c] = d]
    /\ UNCHANGED <<pending, responses, verdict, closing, lost>>

\* respond: the entry and its abort listener go first, so a second response
\* finds nothing (and only emits an error event) and an abort comes too late.
Respond(c, d) ==
    /\ c \in pending
    /\ pending' = pending \ {c}
    /\ answering' = [answering EXCEPT ![c] = d]
    /\ UNCHANGED <<responses, verdict, closing, lost>>

\* The response is in the log: the call goes on.
ResponseWritten(c) ==
    /\ answering[c] # "none"
    /\ responses' = responses \union {<<c, answering[c]>>}
    /\ verdict' = Settled(c, answering[c])
    /\ answering' = [answering EXCEPT ![c] = "none"]
    /\ closing' = IF closing = c THEN "next" ELSE closing
    /\ UNCHANGED <<pending, lost>>

\* It is not, or not known to be: the call is in no table any more and no
\* response, abort or close settles its promise.
ResponseNotWritten(c) ==
    /\ answering[c] # "none"
    /\ responses' \in {responses, responses \union {<<c, answering[c]>>}}
    /\ answering' = [answering EXCEPT ![c] = "none"]
    /\ closing' = IF closing = c THEN "failed" ELSE closing
    /\ lost' = lost \union {c}
    /\ UNCHANGED <<pending, verdict>>

\* Wrong: takes the aborted calls from the table and leaves them waiting.
RevokeSilently(calls) ==
    /\ pending' = pending \ calls
    /\ UNCHANGED <<answering, responses, verdict, closing, lost>>

\* The abort listeners of the given calls: no response is logged.
Revoke(calls) ==
    /\ pending' = pending \ calls
    /\ verdict' = [c \in Calls |-> IF c \in pending \intersect calls
                                   THEN "deny" ELSE verdict[c]]
    /\ UNCHANGED <<answering, responses, closing, lost>>

\* close calls cancelAll, which walks the live table: calls that get in before
\* it is at the end are cancelled too.
Close ==
    /\ closing = "open"
    /\ closing' = "next"
    /\ UNCHANGED <<pending, answering, responses, verdict, lost>>

CancelNext(c) ==
    /\ closing = "next"
    /\ c \in pending
    /\ pending' = pending \ {c}
    /\ answering' = [answering EXCEPT ![c] = "deny"]
    /\ closing' = c
    /\ UNCHANGED <<responses, verdict, lost>>

CancelledAll ==
    /\ closing = "next"
    /\ pending = {}
    /\ closing' = "closed"
    /\ UNCHANGED <<pending, answering, responses, verdict, lost>>

-------------------------------------------------------------------------------
\* "Stale and duplicate approval responses are deterministic and cannot change
\* the first decision": whoever answers, aborts or closes at the same time, a
\* call has at most one response in the log, no other is on its way once it is
\* there, and a call that goes on with "allow" has that very response.
FirstResponseDecides ==
    \A c \in Calls :
        /\ \A d, e \in Decision :
              <<c, d>> \in responses /\ <<c, e>> \in responses => d = e
        /\ answering[c] # "none" =>
              verdict[c] = "none" /\ \A d \in Decision : <<c, d>> \notin responses
        /\ verdict[c] = "allow" => <<c, "allow">> \in responses
===============================================================================
