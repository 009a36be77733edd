------------------------------ MODULE MCToolBatch ------------------------------
(***************************************************************************)
(* A batch of two calls, and a turn later a batch of one.                  *)
(***************************************************************************)
EXTENDS ToolBatch, TLC

CONSTANTS a, b, c

ThreeCalls == {a, b, c}
TwoThenOne == (a :> 1) @@ (b :> 1) @@ (c :> 2)
InOrder == (a :> {}) @@ (b :> {a}) @@ (c :> {})
\* Any two calls, in the shorter plans with nothing after them.
SomePlans ==
    {(a :> k) @@ (b :> l) @@ (c :> "unknown") : k, l \in Kinds}
    \union {(a :> "write") @@ (b :> "todo") @@ (c :> "todo")}
AnyWrite == {"permission.decision", "approval.requested", "approval.responded",
             "hook.started", "hook.ended", "todo.updated", "tool.artifact"}
===============================================================================
