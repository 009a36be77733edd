---------------------------- MODULE MCAgentSession ----------------------------
(***************************************************************************)
(* Model values and sets of writable events for the runs of AgentSession.  *)
(***************************************************************************)
EXTENDS AgentSession

CONSTANTS u1, u2, c1, s1

OneUser == {u1}
TwoUsers == {u1, u2}
OneCompact == {c1}
OneSlash == {s1}
NoOps == {}

\* The writes whose failure runTurn undoes or that leave nothing behind.
Recovered ==
    {"turn.started", "user.message", "context.step", "assistant.message",
     "tool.result", "permission.decision", "diagnostic", "step.ended",
     "compact.ended", "compact.started", "compact.failed", "error"}
Everything == Recovered \union
    {"hook.started", "step.started", "tool.call", "turn.ended",
     "assistant.delta", "provider.failure", "provider.retry",
     "command.invoked"}
ResultOnly == {"tool.result"}
Nothing == {}

\* More ids than a run of two steps gives out.
FewMessageIds == 1..12
===============================================================================
