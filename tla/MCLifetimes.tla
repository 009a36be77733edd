------------------------------ MODULE MCLifetimes ------------------------------
(***************************************************************************)
(* What outlives a process, at two levels and one at a time: the history   *)
(* of one session over its lifetimes, and the files that several sessions  *)
(* and processes leave on disk.                                            *)
(***************************************************************************)
EXTENDS MCAgentSession, Lifetimes, SessionFiles, TLC

CONSTANTS f1, f2, p1, p2

VARIABLE part

TwoSessions == {f1, f2}
TwoProcs == {p1, p2}

\* Sessions and processes are interchangeable, and nothing else uses them.
Interchangeable == Permutations(TwoSessions) \union Permutations(TwoProcs)

MCInit ==
    /\ part \in {"lifetimes", "files"}
    /\ LInit
    /\ FilesInit

MCNext ==
    /\ part' = part
    /\ \/ part = "lifetimes" /\ LNext /\ UNCHANGED filesVars
       \/ part = "files" /\ FilesNext /\ UNCHANGED lifetimeVars

MCSpec == MCInit /\ [][MCNext]_<<part, lifetimeVars, filesVars>>

===============================================================================
