----------------------------- MODULE MCMcpServers -----------------------------
(***************************************************************************)
(* Two servers, and calls in two turns.                                    *)
(***************************************************************************)
EXTENDS McpServers, TLC

CONSTANTS c, d, e

TwoThenOne == (c :> 1) @@ (d :> 1) @@ (e :> 2)
===============================================================================
