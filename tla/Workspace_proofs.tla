--------------------------- MODULE Workspace_proofs ---------------------------
(***************************************************************************)
(* Proofs about the tools that work on the workspace: the shell with its   *)
(* sandbox, and the tools that change files.                               *)
(***************************************************************************)
EXTENDS Shell, FileEdits, Integers, WellFoundedInduction, TLAPS

-------------------------------------------------------------------------------
(***************************************************************************)
(* Shell                                                                   *)
(***************************************************************************)
One(b) == IF b THEN 1 ELSE 0

\* Where no process of a command has been started yet.
Before == {"idle", "state", "wrapping", "resolving", "writing"}

\* A command may run outside the sandbox.
Unconfined == mode = "off" \/ sandbox = "fallback"

\* What the state of the sandbox says of its backends and of the settings.
SandboxInv ==
    /\ backends = One(sandbox = "active")
    /\ sandbox = "fallback" => mode = "auto" /\ finds = "nothing"
    /\ mode = "off" => sandbox = "none"
    /\ closing # "closed" => resets = 0
    /\ closing = "closed" /\ sandbox = "pending" => late
    /\ closing = "closed" /\ ~late /\ sandbox # "pending" => resets = backends

Decided == One(sandbox \in {"active", "fallback", "unavailable"})

\* How the sandbox came out is told, still to be told, or thrown away with an
\* aborted turn; while it is to be told, somebody is there to tell it.
ReportInv ==
    /\ told + diagnostics <= Decided
    /\ aborted = {} =>
        /\ told + diagnostics = Decided
        /\ sandbox = "pending" => \E c \in Commands : pc[c] = "state"
        /\ diagnostics = 1 => \E c \in Commands : pc[c] \in InFlight

\* Before the sandbox is there the two directories are one, so that it does not
\* matter which of them the first sandboxed command is started in.
CwdInv ==
    /\ {cwd, sandboxCwd} \subseteq Inside
    /\ aborted = {} =>
        /\ GetCwd = left
        /\ sandbox \in {"none", "pending"} /\ mode # "off" => cwd = sandboxCwd

\* Whether a command may be where it is, in the sandbox or outside.
ConfinedInv(c) ==
    /\ wrapped[c] \/ pc[c] = "wrapping" => sandbox = "active"
    /\ pc[c] = "wrapReading" => wrapped[c]
    /\ pc[c] = "resolving" /\ ~wrapped[c] => Unconfined \/ IsAborted(c)
    /\ (pc[c] \in {"writing", "running", "exiting", "reading"} \/ group[c] # {})
           /\ ~wrapped[c] => Unconfined
    /\ pc[c] = "writing" \/ group[c] # {} => from[c] \in Inside

\* A force kill was scheduled by the timeout or by the abort, each of which
\* happens once; the timeout, the listener and the processes are there only
\* while the command runs.
SignalInv(c) ==
    /\ pc[c] \in Before => group[c] = {} /\ ~timedOut[c] /\ killTimers[c] = 0
    /\ timer[c] => ~timedOut[c]
    /\ killTimers[c] <= One(timedOut[c]) + One(IsAborted(c))
    /\ pc[c] \notin {"running", "exiting"} =>
        /\ ~timer[c] /\ ~listening[c]
        /\ killTimers[c] > 0 => timedOut[c] /\ IsAborted(c)
    /\ pc[c] # "running" => group[c] \subseteq stubborn[c] \ {"leader"}

ShellInv ==
    /\ TypeOK /\ SandboxInv /\ ReportInv /\ CwdInv
    /\ \A c \in Commands : ConfinedInv(c) /\ SignalInv(c)

-------------------------------------------------------------------------------
\* The numbers of ShellInv and of a command, for leaves that compute with them.
LEMMA ShellNumbers ==
    ASSUME ShellInv
    PROVE  /\ backends \in 0..1 /\ resets \in 0..1
           /\ diagnostics \in 0..1 /\ told \in 0..1
           /\ turn \in 1..NumTurns /\ NumTurns \in Nat
           /\ told + diagnostics <= Decided /\ Decided \in 0..1
<1>1. Decided \in 0..1
  BY DEF Decided, One
<1>2. TypeOK /\ ReportInv
  BY DEF ShellInv
<1> QED
  BY <1>1, <1>2, ShellAssumption DEF TypeOK, ReportInv

LEMMA CommandNumbers ==
    ASSUME ShellInv, NEW c \in Commands
    PROVE  /\ killTimers \in [Commands -> 0..2]
           /\ killTimers[c] \in 0..2
           /\ killTimers[c] <= One(timedOut[c]) + One(IsAborted(c))
           /\ timedOut \in [Commands -> BOOLEAN] /\ timer \in [Commands -> BOOLEAN]
           /\ listening \in [Commands -> BOOLEAN]
           /\ SignalInv(c)
<1>1. TypeOK /\ SignalInv(c)
  BY DEF ShellInv
<1>2. /\ killTimers \in [Commands -> 0..2]
      /\ timedOut \in [Commands -> BOOLEAN] /\ timer \in [Commands -> BOOLEAN]
      /\ listening \in [Commands -> BOOLEAN]
  BY <1>1 DEF TypeOK
<1> QED
  BY <1>1, <1>2 DEF SignalInv

LEMMA StartKeeps ==
    ASSUME ShellInv, NEW c \in Commands, Start(c)
    PROVE  ShellInv'
<1> USE ShellAssumption
<1> USE DEF Start, Asked, GetCwd, Goto, IsAborted, One, sandboxVars, reportVars, cwdVars, processVars, turnVars
<1>1. TypeOK'
  BY DEF ShellInv, TypeOK, InFlight, Ended
<1>2. SandboxInv'
  BY DEF ShellInv, TypeOK, SandboxInv
<1>3. ReportInv'
  BY DEF ShellInv, TypeOK, SandboxInv, ReportInv, Decided, InFlight
<1>4. CwdInv'
  BY DEF ShellInv, TypeOK, CwdInv, ConfinedInv, Unconfined, GetCwd, SandboxInv
<1>5. ASSUME NEW d \in Commands
      PROVE  ConfinedInv(d)' /\ SignalInv(d)'
  <2>1. ConfinedInv(d)'
    BY DEF ShellInv, TypeOK, ConfinedInv, Unconfined, SignalInv, Before
  <2>2. SignalInv(d)'
    BY DEF ShellInv, TypeOK, SignalInv, Before
  <2> QED
    BY <2>1, <2>2
<1> QED
  BY <1>1, <1>2, <1>3, <1>4, <1>5 DEF ShellInv

LEMMA HaveStateKeeps ==
    ASSUME ShellInv, NEW c \in Commands, HaveState(c)
    PROVE  ShellInv'
<1> USE ShellAssumption
<1> USE DEF HaveState, Goto, IsAborted, One, sandboxVars, reportVars, cwdVars, processVars, turnVars
<1>1. TypeOK'
  BY DEF ShellInv, TypeOK, SandboxInv, ReportInv, SignalInv, Decided, InFlight, Ended, Before
<1>2. SandboxInv'
  BY DEF ShellInv, TypeOK, SandboxInv
<1>3. ReportInv'
  BY DEF ShellInv, TypeOK, SandboxInv, ReportInv, Decided, InFlight
<1>4. CwdInv'
  BY DEF ShellInv, TypeOK, CwdInv, ConfinedInv, Unconfined, GetCwd, SandboxInv
<1>5. ASSUME NEW d \in Commands
      PROVE  ConfinedInv(d)' /\ SignalInv(d)'
  <2>1. ConfinedInv(d)'
    BY DEF ShellInv, TypeOK, ConfinedInv, Unconfined, SignalInv, Before
  <2>2. SignalInv(d)'
    BY DEF ShellInv, TypeOK, SignalInv, Before
  <2> QED
    BY <2>1, <2>2
<1> QED
  BY <1>1, <1>2, <1>3, <1>4, <1>5 DEF ShellInv

LEMMA WrapKeeps ==
    ASSUME ShellInv, NEW c \in Commands, Wrap(c)
    PROVE  ShellInv'
<1> USE ShellAssumption
<1> USE DEF Wrap, Goto, IsAborted, One, sandboxVars, reportVars, cwdVars, processVars, turnVars
<1>1. TypeOK'
  BY DEF ShellInv, TypeOK, SandboxInv, ReportInv, SignalInv, Decided, InFlight, Ended, Before
<1>2. SandboxInv'
  BY DEF ShellInv, TypeOK, SandboxInv
<1>3. ReportInv'
  BY DEF ShellInv, TypeOK, SandboxInv, ReportInv, Decided, InFlight
<1>4. CwdInv'
  BY DEF ShellInv, TypeOK, CwdInv, ConfinedInv, Unconfined, GetCwd, SandboxInv
<1>5. ASSUME NEW d \in Commands
      PROVE  ConfinedInv(d)' /\ SignalInv(d)'
  <2>1. ConfinedInv(d)'
    BY DEF ShellInv, TypeOK, ConfinedInv, Unconfined, SignalInv, Before
  <2>2. SignalInv(d)'
    BY DEF ShellInv, TypeOK, SignalInv, Before
  <2> QED
    BY <2>1, <2>2
<1> QED
  BY <1>1, <1>2, <1>3, <1>4, <1>5 DEF ShellInv

LEMMA MarkerReadKeeps ==
    ASSUME ShellInv, NEW c \in Commands, MarkerRead(c)
    PROVE  ShellInv'
<1> USE ShellAssumption
<1> USE DEF MarkerRead, Goto, IsAborted, One, sandboxVars, reportVars, cwdVars, processVars, turnVars
<1>1. TypeOK'
  BY DEF ShellInv, TypeOK, SandboxInv, ReportInv, SignalInv, Decided, InFlight, Ended, Before
<1>2. SandboxInv'
  BY DEF ShellInv, TypeOK, SandboxInv
<1>3. ReportInv'
  BY DEF ShellInv, TypeOK, SandboxInv, ReportInv, Decided, InFlight
<1>4. CwdInv'
  BY DEF ShellInv, TypeOK, CwdInv, ConfinedInv, Unconfined, GetCwd, SandboxInv
<1>5. ASSUME NEW d \in Commands
      PROVE  ConfinedInv(d)' /\ SignalInv(d)'
  <2>1. ConfinedInv(d)'
    BY DEF ShellInv, TypeOK, ConfinedInv, Unconfined, SignalInv, Before
  <2>2. SignalInv(d)'
    BY DEF ShellInv, TypeOK, SignalInv, Before
  <2> QED
    BY <2>1, <2>2
<1> QED
  BY <1>1, <1>2, <1>3, <1>4, <1>5 DEF ShellInv

LEMMA ResolvedKeeps ==
    ASSUME ShellInv, NEW c \in Commands, Resolved(c)
    PROVE  ShellInv'
<1> USE ShellAssumption
<1> USE DEF Resolved, Goto, IsAborted, One, sandboxVars, reportVars, cwdVars, processVars, turnVars
<1>1. TypeOK'
  BY DEF ShellInv, TypeOK, SandboxInv, ReportInv, SignalInv, Decided, InFlight, Ended, Before
<1>2. SandboxInv'
  BY DEF ShellInv, TypeOK, SandboxInv
<1>3. ReportInv'
  BY DEF ShellInv, TypeOK, SandboxInv, ReportInv, Decided, InFlight
<1>4. CwdInv'
  BY DEF ShellInv, TypeOK, CwdInv, ConfinedInv, Unconfined, GetCwd, SandboxInv
<1>5. ASSUME NEW d \in Commands
      PROVE  ConfinedInv(d)' /\ SignalInv(d)'
  <2>1. ConfinedInv(d)'
    BY DEF ShellInv, TypeOK, ConfinedInv, Unconfined, SignalInv, Before
  <2>2. SignalInv(d)'
    BY DEF ShellInv, TypeOK, SignalInv, Before
  <2> QED
    BY <2>1, <2>2
<1> QED
  BY <1>1, <1>2, <1>3, <1>4, <1>5 DEF ShellInv

LEMMA SpawnKeeps ==
    ASSUME ShellInv, NEW c \in Commands, Spawn(c)
    PROVE  ShellInv'
<1> USE ShellAssumption
<1> USE DEF Spawn, Goto, IsAborted, One, sandboxVars, reportVars, cwdVars, processVars, turnVars
<1>1. TypeOK'
  <2>1. /\ group' \in [Commands -> SUBSET Processes]
        /\ stubborn' \in [Commands -> SUBSET Processes]
    <3>1. /\ group \in [Commands -> SUBSET Processes]
          /\ stubborn \in [Commands -> SUBSET Processes]
      BY DEF ShellInv, TypeOK
    <3>2. \/ \E g \in SUBSET Processes :
                /\ group' = [group EXCEPT ![c] = g]
                /\ \E deaf \in SUBSET g : stubborn' = [stubborn EXCEPT ![c] = deaf]
          \/ UNCHANGED <<group, stubborn>>
      BY DEF Processes
    <3> HIDE DEF Spawn
    <3> QED
      BY <3>1, <3>2
  <2>2. pc' \in [Commands -> {"idle"} \union InFlight \union Ended]
    BY DEF ShellInv, TypeOK, InFlight
  <2>3. listening' \in [Commands -> BOOLEAN] /\ timer' \in [Commands -> BOOLEAN]
    BY DEF ShellInv, TypeOK
  <2> QED
    BY <2>1, <2>2, <2>3 DEF ShellInv, TypeOK
<1>2. SandboxInv'
  BY DEF ShellInv, TypeOK, SandboxInv
<1>3. ReportInv'
  BY DEF ShellInv, TypeOK, SandboxInv, ReportInv, Decided, InFlight
<1>4. CwdInv'
  BY DEF ShellInv, TypeOK, CwdInv, ConfinedInv, Unconfined, GetCwd, SandboxInv
<1>5. ASSUME NEW d \in Commands
      PROVE  ConfinedInv(d)' /\ SignalInv(d)'
  <2>1. ConfinedInv(d)'
    BY DEF ShellInv, TypeOK, ConfinedInv, Unconfined, SignalInv, Before
  <2>2. SignalInv(d)'
    BY DEF ShellInv, TypeOK, SignalInv, Before
  <2> QED
    BY <2>1, <2>2
<1> QED
  BY <1>1, <1>2, <1>3, <1>4, <1>5 DEF ShellInv

LEMMA ExitKeeps ==
    ASSUME ShellInv, NEW c \in Commands, Exit(c)
    PROVE  ShellInv'
<1> USE ShellAssumption
<1> USE DEF Exit, Goto, IsAborted, One, sandboxVars, reportVars, cwdVars, processVars, turnVars
<1>1. TypeOK'
  BY DEF ShellInv, TypeOK, InFlight, Ended
<1>2. SandboxInv'
  BY DEF ShellInv, TypeOK, SandboxInv
<1>3. ReportInv'
  BY DEF ShellInv, TypeOK, SandboxInv, ReportInv, Decided, InFlight
<1>4. CwdInv'
  BY DEF ShellInv, TypeOK, CwdInv, ConfinedInv, Unconfined, GetCwd, SandboxInv
<1>5. ASSUME NEW d \in Commands
      PROVE  ConfinedInv(d)' /\ SignalInv(d)'
  <2>1. ConfinedInv(d)'
    BY DEF ShellInv, TypeOK, ConfinedInv, Unconfined, SignalInv, Before
  <2>2. SignalInv(d)'
    BY DEF ShellInv, TypeOK, SignalInv, Before
  <2> QED
    BY <2>1, <2>2
<1> QED
  BY <1>1, <1>2, <1>3, <1>4, <1>5 DEF ShellInv

LEMMA FinishKeeps ==
    ASSUME ShellInv, NEW c \in Commands, Finish(c)
    PROVE  ShellInv'
<1> USE ShellAssumption
<1> USE DEF Finish, Goto, IsAborted, One, sandboxVars, reportVars, cwdVars, processVars, turnVars
<1>1. TypeOK'
  <2>1. killTimers' \in [Commands -> 0..2]
    BY CommandNumbers
  <2>2. pc' \in [Commands -> {"idle"} \union InFlight \union Ended]
    BY DEF ShellInv, TypeOK, InFlight
  <2>3. listening' \in [Commands -> BOOLEAN] /\ timer' \in [Commands -> BOOLEAN]
    BY DEF ShellInv, TypeOK
  <2> QED
    BY <2>1, <2>2, <2>3 DEF ShellInv, TypeOK
<1>2. SandboxInv'
  BY DEF ShellInv, TypeOK, SandboxInv
<1>3. ReportInv'
  BY DEF ShellInv, TypeOK, SandboxInv, ReportInv, Decided, InFlight
<1>4. CwdInv'
  BY DEF ShellInv, TypeOK, CwdInv, ConfinedInv, Unconfined, GetCwd, SandboxInv
<1>5. ASSUME NEW d \in Commands
      PROVE  ConfinedInv(d)' /\ SignalInv(d)'
  <2>1. ConfinedInv(d)'
    BY DEF ShellInv, TypeOK, ConfinedInv, Unconfined, SignalInv, Before
  <2>2. SignalInv(d)'
    <3>1. CASE d = c
      <4>2. killTimers'[c] > 0 => timedOut[c] /\ IsAborted(c)
        BY CommandNumbers
      <4>3. killTimers'[c] \in 0..1 /\ killTimers'[c] <= One(timedOut[c]) + One(IsAborted(c))
        BY CommandNumbers
      <4> QED
        BY <3>1, <4>2, <4>3 DEF ShellInv, TypeOK, SignalInv, Before
    <3>2. CASE d # c
      BY <3>2 DEF ShellInv, TypeOK, SignalInv
    <3> QED
      BY <3>1, <3>2
  <2> QED
    BY <2>1, <2>2
<1> QED
  BY <1>1, <1>2, <1>3, <1>4, <1>5 DEF ShellInv

LEMMA CwdReadKeeps ==
    ASSUME ShellInv, NEW c \in Commands, CwdRead(c)
    PROVE  ShellInv'
<1> USE ShellAssumption
<1> USE DEF CwdRead, After, Goto, IsAborted, One, sandboxVars, reportVars, cwdVars, processVars, turnVars
<1>1. TypeOK'
  BY DEF ShellInv, TypeOK, SandboxInv, ReportInv, SignalInv, Decided, InFlight, Ended, Before
<1>2. SandboxInv'
  BY DEF ShellInv, TypeOK, SandboxInv
<1>3. ReportInv'
  BY DEF ShellInv, TypeOK, SandboxInv, ReportInv, Decided, InFlight
<1>4. CwdInv'
  BY DEF ShellInv, TypeOK, CwdInv, ConfinedInv, Unconfined, GetCwd, SandboxInv
<1>5. ASSUME NEW d \in Commands
      PROVE  ConfinedInv(d)' /\ SignalInv(d)'
  <2>1. ConfinedInv(d)'
    BY DEF ShellInv, TypeOK, ConfinedInv, Unconfined, SignalInv, Before
  <2>2. SignalInv(d)'
    BY DEF ShellInv, TypeOK, SignalInv, Before
  <2> QED
    BY <2>1, <2>2
<1> QED
  BY <1>1, <1>2, <1>3, <1>4, <1>5 DEF ShellInv

LEMMA ReportKeeps ==
    ASSUME ShellInv, NEW c \in Commands, Report(c)
    PROVE  ShellInv'
<1> USE ShellAssumption
<1> USE DEF Report, Goto, IsAborted, One, sandboxVars, reportVars, cwdVars, processVars, turnVars
<1>1. TypeOK'
  <2>1. told' \in 0..1 /\ diagnostics' \in 0..1
    BY ShellNumbers
  <2>2. pc' \in [Commands -> {"idle"} \union InFlight \union Ended]
    BY DEF ShellInv, TypeOK, Ended
  <2> QED
    BY <2>1, <2>2 DEF ShellInv, TypeOK
<1>2. SandboxInv'
  BY DEF ShellInv, TypeOK, SandboxInv
<1>3. ReportInv'
  <2>1. told \in 0..1 /\ diagnostics \in 0..1 /\ told + diagnostics <= Decided /\ Decided \in 0..1
    BY ShellNumbers
  <2>2. told' + diagnostics' <= Decided'
    BY <2>1 DEF Decided
  <2>3. ASSUME aborted' = {}
        PROVE  told' + diagnostics' = Decided'
    BY <2>1, <2>3 DEF ShellInv, ReportInv, Decided
  <2>4. ASSUME aborted' = {}, sandbox' = "pending"
        PROVE  \E d \in Commands : pc'[d] = "state"
    BY <2>4 DEF ShellInv, TypeOK, ReportInv
  <2> QED
    BY <2>2, <2>3, <2>4 DEF ReportInv
<1>4. CwdInv'
  BY DEF ShellInv, TypeOK, CwdInv, ConfinedInv, Unconfined, GetCwd, SandboxInv
<1>5. ASSUME NEW d \in Commands
      PROVE  ConfinedInv(d)' /\ SignalInv(d)'
  <2>1. ConfinedInv(d)'
    BY DEF ShellInv, TypeOK, ConfinedInv, Unconfined, SignalInv, Before
  <2>2. SignalInv(d)'
    BY DEF ShellInv, TypeOK, SignalInv, Before
  <2> QED
    BY <2>1, <2>2
<1> QED
  BY <1>1, <1>2, <1>3, <1>4, <1>5 DEF ShellInv

LEMMA TimeoutKeeps ==
    ASSUME ShellInv, NEW c \in Commands, Timeout(c)
    PROVE  ShellInv'
<1> USE ShellAssumption
<1> USE DEF Timeout, ScheduleKill, Goto, IsAborted, One, sandboxVars, reportVars, cwdVars, processVars, turnVars
<1>1. TypeOK'
  <2>1. /\ group' \in [Commands -> SUBSET Processes]
        /\ timer' \in [Commands -> BOOLEAN] /\ timedOut' \in [Commands -> BOOLEAN]
    BY DEF ShellInv, TypeOK
  <2>2. ASSUME NEW d \in Commands
        PROVE  killTimers'[d] \in 0..2
    <3>1. killTimers[c] <= 1
      BY CommandNumbers DEF SignalInv
    <3>2. killTimers \in [Commands -> 0..2]
      BY CommandNumbers
    <3> QED
      BY <3>1, <3>2
  <2>3. killTimers' \in [Commands -> 0..2]
    BY <2>2
  <2> QED
    BY <2>1, <2>3 DEF ShellInv, TypeOK
<1>2. SandboxInv'
  BY DEF ShellInv, TypeOK, SandboxInv
<1>3. ReportInv'
  BY DEF ShellInv, TypeOK, SandboxInv, ReportInv, Decided, InFlight
<1>4. CwdInv'
  BY DEF ShellInv, TypeOK, CwdInv, ConfinedInv, Unconfined, GetCwd, SandboxInv
<1>5. ASSUME NEW d \in Commands
      PROVE  ConfinedInv(d)' /\ SignalInv(d)'
  <2>1. ConfinedInv(d)'
    BY DEF ShellInv, TypeOK, ConfinedInv, Unconfined, SignalInv, Before
  <2>2. SignalInv(d)'
    <3>1. CASE d = c
      <4>1. killTimers[c] \in 0..2 /\ killTimers[c] <= One(IsAborted(c))
        BY CommandNumbers DEF SignalInv
      <4>2. killTimers'[c] = killTimers[c] + 1 /\ timedOut'[c] /\ ~timer'[c]
        BY CommandNumbers
      <4>3. pc[c] \in {"running", "exiting"}
        BY DEF ShellInv, SignalInv
      <4>4. pc[c] # "running" => group'[c] \subseteq stubborn'[c] \ {"leader"}
        BY DEF ShellInv, TypeOK, SignalInv
      <4> QED
        BY <3>1, <4>1, <4>2, <4>3, <4>4 DEF SignalInv, Before
    <3>2. CASE d # c
      BY <3>2 DEF ShellInv, TypeOK, SignalInv
    <3> QED
      BY <3>1, <3>2
  <2> QED
    BY <2>1, <2>2
<1> QED
  BY <1>1, <1>2, <1>3, <1>4, <1>5 DEF ShellInv

LEMMA ForceKillKeeps ==
    ASSUME ShellInv, NEW c \in Commands, ForceKill(c)
    PROVE  ShellInv'
<1> USE ShellAssumption
<1> USE DEF ForceKill, Goto, IsAborted, One, sandboxVars, reportVars, cwdVars, processVars, turnVars
<1>1. TypeOK'
  <2>1. /\ group' \in [Commands -> SUBSET Processes]
        /\ stubborn' \in [Commands -> SUBSET Processes]
    BY DEF ShellInv, TypeOK
  <2>2. killTimers' \in [Commands -> 0..2]
    BY CommandNumbers
  <2> QED
    BY <2>1, <2>2 DEF ShellInv, TypeOK
<1>2. SandboxInv'
  BY DEF ShellInv, TypeOK, SandboxInv
<1>3. ReportInv'
  BY DEF ShellInv, TypeOK, SandboxInv, ReportInv, Decided, InFlight
<1>4. CwdInv'
  BY DEF ShellInv, TypeOK, CwdInv, ConfinedInv, Unconfined, GetCwd, SandboxInv
<1>5. ASSUME NEW d \in Commands
      PROVE  ConfinedInv(d)' /\ SignalInv(d)'
  <2>1. ConfinedInv(d)'
    BY DEF ShellInv, TypeOK, ConfinedInv, Unconfined, SignalInv, Before
  <2>2. SignalInv(d)'
    <3>1. CASE d = c
      <4>1. /\ killTimers[c] \in 1..2 /\ killTimers'[c] = killTimers[c] - 1
            /\ killTimers[c] <= One(timedOut[c]) + One(IsAborted(c))
        BY CommandNumbers
      <4>2. group'[c] = {}
        BY DEF ShellInv, TypeOK
      <4>3. SignalInv(c)
        BY DEF ShellInv
      <4> QED
        BY <3>1, <4>1, <4>2, <4>3 DEF SignalInv
    <3>2. CASE d # c
      BY <3>2 DEF ShellInv, TypeOK, SignalInv
    <3> QED
      BY <3>1, <3>2
  <2> QED
    BY <2>1, <2>2
<1> QED
  BY <1>1, <1>2, <1>3, <1>4, <1>5 DEF ShellInv

LEMMA EndsKeeps ==
    ASSUME ShellInv, NEW c \in Commands, Ends(c)
    PROVE  ShellInv'
<1> USE ShellAssumption
<1> USE DEF Ends, Goto, IsAborted, One, sandboxVars, reportVars, cwdVars, processVars, turnVars
<1>1. TypeOK'
  BY DEF ShellInv, TypeOK, InFlight, Ended
<1>2. SandboxInv'
  BY DEF ShellInv, TypeOK, SandboxInv
<1>3. ReportInv'
  BY DEF ShellInv, TypeOK, SandboxInv, ReportInv, Decided, InFlight
<1>4. CwdInv'
  BY DEF ShellInv, TypeOK, CwdInv, ConfinedInv, Unconfined, GetCwd, SandboxInv
<1>5. ASSUME NEW d \in Commands
      PROVE  ConfinedInv(d)' /\ SignalInv(d)'
  <2>1. ConfinedInv(d)'
    BY DEF ShellInv, TypeOK, ConfinedInv, Unconfined, SignalInv, Before
  <2>2. SignalInv(d)'
    <3>1. PICK p \in group[c] :
             /\ group' = [group EXCEPT ![c] = @ \ {p}]
             /\ stubborn' = [stubborn EXCEPT ![c] = @ \ {p}]
      OBVIOUS
    <3>2. /\ pc[d] \in Before => group'[d] = {}
          /\ pc[d] # "running" => group'[d] \subseteq stubborn'[d] \ {"leader"}
      BY <3>1 DEF ShellInv, TypeOK, SignalInv
    <3> QED
      BY <3>2 DEF ShellInv, TypeOK, SignalInv
  <2> QED
    BY <2>1, <2>2
<1> QED
  BY <1>1, <1>2, <1>3, <1>4, <1>5 DEF ShellInv

LEMMA InitializedKeeps ==
    ASSUME ShellInv, Initialized
    PROVE  ShellInv'
<1> USE DEF sandboxVars, reportVars, cwdVars, processVars, turnVars
<1>1. /\ sandbox = "pending"
      /\ UNCHANGED <<mode, finds, resets, late, closing, told, cwdVars, pc, from,
                     wrapped, processVars, turnVars>>
  BY DEF Initialized
<1>2. mode # "off" /\ backends = 0 /\ told = 0 /\ diagnostics = 0
  <2>1. Decided = 0 /\ backends = 0 /\ mode # "off"
    BY <1>1 DEF ShellInv, SandboxInv, Decided, One
  <2> QED
    BY <2>1, ShellNumbers
<1>3. /\ sandbox' \in {"active", "fallback", "unavailable", "rejected"}
      /\ sandbox' = "active" <=> finds = "backend"
      /\ sandbox' = "rejected" <=> finds = "error"
      /\ sandbox' = "fallback" =>
             mode = "auto" /\ finds \notin {"backend", "error", "bad settings"}
  BY DEF Initialized, Unavailable
<1>4. backends' = One(sandbox' = "active") /\ diagnostics' = One(sandbox' # "rejected")
  <2>1. /\ backends' = IF finds = "backend" THEN backends + 1 ELSE backends
        /\ diagnostics' = IF finds = "error" THEN diagnostics ELSE diagnostics + 1
    BY DEF Initialized
  <2>2. backends + 1 = 1 /\ diagnostics + 1 = 1
    BY <1>2
  <2>3. backends' = One(sandbox' = "active")
    BY <1>2, <1>3, <2>1, <2>2 DEF One
  <2>4. diagnostics' = One(sandbox' # "rejected")
    BY <1>2, <1>3, <2>1, <2>2 DEF One
  <2> QED
    BY <2>3, <2>4
<1>5. TypeOK'
  <2>1. backends' \in 0..1 /\ diagnostics' \in 0..1
    BY <1>4 DEF One
  <2> QED
    BY <1>1, <1>3, <2>1 DEF ShellInv, TypeOK
<1>6. SandboxInv'
  <2>1. closing = "closed" => late
    BY <1>1 DEF ShellInv, SandboxInv
  <2>2. finds \in {"backend", "nothing", "bad settings", "error"}
    BY DEF ShellInv, TypeOK
  <2>3. closing # "closed" => resets = 0
    BY DEF ShellInv, SandboxInv
  <2> QED
    BY <1>1, <1>2, <1>3, <1>4, <2>1, <2>2, <2>3 DEF SandboxInv
<1>7. ReportInv'
  <2>1. (sandbox' \in {"active", "fallback", "unavailable"}) <=> sandbox' # "rejected"
    BY <1>3
  <2>4. Decided' = One(sandbox' # "rejected") /\ Decided' \in 0..1
    BY <2>1 DEF Decided, One
  <2>2. told' + diagnostics' = Decided' /\ told' + diagnostics' <= Decided'
    BY <1>1, <1>2, <1>4, <2>4
  <2>3. aborted = {} => \E c \in Commands : pc[c] \in InFlight
    BY <1>1 DEF ShellInv, ReportInv, InFlight
  <2> QED
    BY <1>1, <1>3, <2>2, <2>3 DEF ReportInv
<1>8. CwdInv'
  BY <1>1, <1>2, <1>3 DEF ShellInv, TypeOK, CwdInv, GetCwd
<1>9. ASSUME NEW d \in Commands
      PROVE  ConfinedInv(d)' /\ SignalInv(d)'
  <2>1. ConfinedInv(d) /\ SignalInv(d)
    BY DEF ShellInv
  <2>2. ConfinedInv(d)'
    BY <1>1, <1>2, <2>1 DEF ConfinedInv, Unconfined, IsAborted
  <2>3. SignalInv(d)'
    BY <1>1, <2>1 DEF SignalInv, IsAborted
  <2> QED
    BY <2>2, <2>3
<1> QED
  BY <1>5, <1>6, <1>7, <1>8, <1>9 DEF ShellInv

LEMMA CloseKeeps ==
    ASSUME ShellInv, Close
    PROVE  ShellInv'
<1> USE ShellAssumption
<1> USE DEF Close, Goto, IsAborted, One, sandboxVars, reportVars, cwdVars, processVars, turnVars
<1>1. TypeOK'
  <2>1. resets' \in 0..1
    BY DEF ShellInv, SandboxInv
  <2> QED
    BY <2>1 DEF ShellInv, TypeOK
<1>2. SandboxInv'
  <2>1. closing # "closed" /\ resets = 0 /\ backends = One(sandbox = "active")
    BY DEF ShellInv, SandboxInv
  <2>2. CASE sandbox = "pending"
    BY <2>1, <2>2 DEF ShellInv, SandboxInv
  <2>3. CASE sandbox # "pending"
    BY <2>1, <2>3 DEF ShellInv, SandboxInv
  <2> QED
    BY <2>2, <2>3
<1>3. ReportInv'
  BY DEF ShellInv, TypeOK, SandboxInv, ReportInv, Decided, InFlight
<1>4. CwdInv'
  BY DEF ShellInv, TypeOK, CwdInv, ConfinedInv, Unconfined, GetCwd, SandboxInv
<1>5. ASSUME NEW d \in Commands
      PROVE  ConfinedInv(d)' /\ SignalInv(d)'
  <2>1. ConfinedInv(d)'
    BY DEF ShellInv, TypeOK, ConfinedInv, Unconfined, SignalInv, Before
  <2>2. SignalInv(d)'
    BY DEF ShellInv, TypeOK, SignalInv, Before
  <2> QED
    BY <2>1, <2>2
<1> QED
  BY <1>1, <1>2, <1>3, <1>4, <1>5 DEF ShellInv

LEMMA AbortKeeps ==
    ASSUME ShellInv, Abort
    PROVE  ShellInv'
<1> USE ShellAssumption
<1> USE DEF Abort, ScheduleKill, Goto, IsAborted, One, sandboxVars, reportVars, cwdVars, processVars, turnVars
<1>1. TypeOK'
  <2>1. /\ group' \in [Commands -> SUBSET Processes]
        /\ listening' \in [Commands -> BOOLEAN] /\ aborted' \subseteq 1..NumTurns
    BY DEF ShellInv, TypeOK
  <2>2. ASSUME NEW d \in Commands
        PROVE  killTimers'[d] \in 0..2
    <3>1. killTimers[d] \in 0..2 /\ (turn = TurnOf[d] => killTimers[d] <= 1)
      BY CommandNumbers
    <3> QED
      BY <3>1
  <2>3. killTimers' \in [Commands -> 0..2]
    BY <2>2
  <2> QED
    BY <2>1, <2>3 DEF ShellInv, TypeOK
<1>2. SandboxInv'
  BY DEF ShellInv, TypeOK, SandboxInv
<1>3. ReportInv'
  BY DEF ShellInv, TypeOK, SandboxInv, ReportInv, Decided, InFlight
<1>4. CwdInv'
  BY DEF ShellInv, TypeOK, CwdInv, ConfinedInv, Unconfined, GetCwd, SandboxInv
<1>5. ASSUME NEW d \in Commands
      PROVE  ConfinedInv(d)' /\ SignalInv(d)'
  <2>1. ConfinedInv(d)'
    BY DEF ShellInv, TypeOK, ConfinedInv, Unconfined, SignalInv, Before
  <2>2. SignalInv(d)'
    <3>1. IsAborted(d) => IsAborted(d)'
      OBVIOUS
    <3>2. CASE listening[d] /\ TurnOf[d] = turn
      <4>1. /\ ~IsAborted(d) /\ IsAborted(d)' /\ killTimers'[d] = killTimers[d] + 1
            /\ killTimers[d] \in 0..2 /\ killTimers[d] <= One(timedOut[d])
        BY <3>2, CommandNumbers
      <4>2. pc[d] \in {"running", "exiting"}
        BY <3>2 DEF ShellInv, SignalInv
      <4>3. /\ pc[d] # "running" => group'[d] \subseteq stubborn'[d] \ {"leader"}
            /\ timer[d] => ~timedOut[d]
        BY DEF ShellInv, TypeOK, SignalInv
      <4> QED
        BY <3>2, <4>1, <4>2, <4>3 DEF SignalInv, Before
    <3>3. CASE ~(listening[d] /\ TurnOf[d] = turn)
      <4>1. /\ killTimers'[d] = killTimers[d] /\ killTimers[d] \in 0..2
            /\ listening'[d] => listening[d]
        BY <3>3, CommandNumbers
      <4>2. group'[d] \subseteq group[d] /\ SignalInv(d)
        BY DEF ShellInv, TypeOK
      <4>3. killTimers[d] <= One(timedOut[d]) + One(IsAborted(d)')
        BY <3>1, <4>1, CommandNumbers
      <4> QED
        BY <3>1, <4>1, <4>2, <4>3 DEF SignalInv
    <3> QED
      BY <3>2, <3>3
  <2> QED
    BY <2>1, <2>2
<1> QED
  BY <1>1, <1>2, <1>3, <1>4, <1>5 DEF ShellInv

LEMMA NextTurnKeeps ==
    ASSUME ShellInv, NextTurn
    PROVE  ShellInv'
<1> USE ShellAssumption
<1> USE DEF NextTurn, Goto, IsAborted, One, sandboxVars, reportVars, cwdVars, processVars, turnVars
<1>1. TypeOK'
  <2>1. turn' \in 1..NumTurns
    BY ShellNumbers
  <2> QED
    BY <2>1 DEF ShellInv, TypeOK
<1>2. SandboxInv'
  BY DEF ShellInv, TypeOK, SandboxInv
<1>3. ReportInv'
  BY DEF ShellInv, TypeOK, SandboxInv, ReportInv, Decided, InFlight
<1>4. CwdInv'
  BY DEF ShellInv, TypeOK, CwdInv, ConfinedInv, Unconfined, GetCwd, SandboxInv
<1>5. ASSUME NEW d \in Commands
      PROVE  ConfinedInv(d)' /\ SignalInv(d)'
  <2>1. ConfinedInv(d)'
    BY DEF ShellInv, TypeOK, ConfinedInv, Unconfined, SignalInv, Before
  <2>2. SignalInv(d)'
    BY DEF ShellInv, TypeOK, SignalInv, Before
  <2> QED
    BY <2>1, <2>2
<1> QED
  BY <1>1, <1>2, <1>3, <1>4, <1>5 DEF ShellInv

LEMMA ShellInitInv == Init => ShellInv
<1> SUFFICES ASSUME Init PROVE ShellInv
  OBVIOUS
<1> USE ShellAssumption
<1>1. TypeOK
  <2>1. /\ backends \in 0..1 /\ resets \in 0..1 /\ diagnostics \in 0..1 /\ told \in 0..1
        /\ turn \in 1..NumTurns
    <3>1. backends = 0 /\ resets = 0 /\ diagnostics = 0 /\ told = 0 /\ turn = 1
      BY DEF Init
    <3> QED
      BY <3>1
  <2>2. killTimers \in [Commands -> 0..2]
    <3>1. killTimers = [c \in Commands |-> 0]
      BY DEF Init
    <3> QED
      BY <3>1
  <2> QED
    BY <2>1, <2>2 DEF Init, TypeOK
<1>2. SandboxInv
  BY DEF Init, SandboxInv, One
<1>3. ReportInv
  <2>1. Decided = 0 /\ told = 0 /\ diagnostics = 0 /\ sandbox = "none"
    BY DEF Init, Decided, One
  <2> QED
    BY <2>1 DEF ReportInv
<1>4. CwdInv
  BY DEF Init, CwdInv, GetCwd
<1>5. ASSUME NEW c \in Commands
      PROVE  ConfinedInv(c) /\ SignalInv(c)
  <2>1. /\ pc[c] = "idle" /\ ~wrapped[c] /\ group[c] = {} /\ ~timedOut[c] /\ killTimers[c] = 0
        /\ ~timer[c] /\ ~listening[c] /\ ~IsAborted(c)
    BY DEF Init, IsAborted
  <2>2. ConfinedInv(c)
    BY <2>1 DEF ConfinedInv
  <2>3. SignalInv(c)
    BY <2>1 DEF SignalInv, One
  <2> QED
    BY <2>2, <2>3
<1> QED
  BY <1>1, <1>2, <1>3, <1>4, <1>5 DEF ShellInv

LEMMA ShellNextInv == ShellInv /\ [Next]_vars => ShellInv'
<1> SUFFICES ASSUME ShellInv, [Next]_vars PROVE ShellInv'
  OBVIOUS
<1>1. ASSUME NEW c \in Commands, Step(c) PROVE ShellInv'
  BY <1>1, HaveStateKeeps, WrapKeeps, MarkerReadKeeps, ResolvedKeeps, SpawnKeeps, ExitKeeps,
     FinishKeeps, CwdReadKeeps, ReportKeeps DEF Step
<1>2. ASSUME NEW c \in Commands, Start(c) \/ Timeout(c) \/ ForceKill(c) \/ Ends(c)
      PROVE  ShellInv'
  BY <1>2, StartKeeps, TimeoutKeeps, ForceKillKeeps, EndsKeeps
<1>3. CASE Initialized \/ Close \/ Abort \/ NextTurn
  BY <1>3, InitializedKeeps, CloseKeeps, AbortKeeps, NextTurnKeeps
<1>4. CASE UNCHANGED vars
  <2>1. UNCHANGED <<sandboxVars, reportVars, cwdVars, pc, from, wrapped, processVars, turnVars>>
    BY <1>4 DEF vars
  <2> USE <2>1 DEF sandboxVars, reportVars, cwdVars, processVars, turnVars
  <2>2. TypeOK' /\ SandboxInv'
    BY DEF ShellInv, TypeOK, SandboxInv
  <2>3. ReportInv' /\ CwdInv'
    BY DEF ShellInv, ReportInv, Decided, CwdInv, GetCwd
  <2>4. ASSUME NEW c \in Commands
        PROVE  ConfinedInv(c)' /\ SignalInv(c)'
    BY DEF ShellInv, ConfinedInv, Unconfined, SignalInv, IsAborted
  <2> QED
    BY <2>2, <2>3, <2>4 DEF ShellInv
<1> QED
  BY <1>1, <1>2, <1>3, <1>4 DEF Next

LEMMA ShellSpecInv == Spec => []ShellInv
  BY ShellInitInv, ShellNextInv, PTL DEF Spec

-------------------------------------------------------------------------------
\* However commands exit, time out and are aborted, what a command leaves
\* running are processes that ignore SIGTERM, and no SIGKILL goes off at a
\* process group whose command has ended, unless the command was timed out and
\* aborted at once (executeShell, scheduleKill and finish, LocalRuntime.ts:80-210).
THEOREM AimedSignals == Spec => []SignalsAreAimed
<1>1. ShellInv => SignalsAreAimed
  BY DEF ShellInv, SignalInv, SignalsAreAimed
<1> QED
  BY <1>1, ShellSpecInv, PTL

\* No command runs outside the sandbox its user asks for, none starts outside
\* the workspace, each starts where the one before it ended, and how the
\* sandbox came out is told once and the sandbox given back at the close,
\* whatever is aborted, throws or is still being initialized
\* (SandboxRuntimeWrapper, createRuntime.ts:60-402).
THEOREM ContainedCommands == Spec => []CommandsAreContained
<1>1. ASSUME ShellInv PROVE Sandboxed
  <2>1. SandboxInv /\ \A c \in Commands : ConfinedInv(c)
    BY <1>1 DEF ShellInv
  <2> QED
    BY <2>1 DEF SandboxInv, ConfinedInv, Unconfined, Sandboxed
<1>2. ASSUME ShellInv PROVE CwdTracked
  <2>1. CwdInv /\ \A c \in Commands : ConfinedInv(c)
    BY <1>2 DEF ShellInv
  <2> QED
    BY <2>1 DEF CwdInv, ConfinedInv, CwdTracked
<1>3. ASSUME ShellInv PROVE SandboxAccounted
  <2>1. TypeOK /\ SandboxInv /\ ReportInv
    BY <1>3 DEF ShellInv
  <2>2. ASSUME aborted = {}, \A c \in Commands : pc[c] \notin InFlight
        PROVE  told = IF sandbox \in {"active", "fallback", "unavailable"} THEN 1 ELSE 0
    <3>1. told + diagnostics = Decided /\ diagnostics # 1
      BY <2>1, <2>2 DEF ReportInv
    <3>2. told \in 0..1 /\ diagnostics \in 0..1
      BY <1>3, ShellNumbers
    <3>3. told = Decided
      BY <3>1, <3>2
    <3> QED
      BY <3>3 DEF Decided, One
  <2> QED
    BY <2>1, <2>2 DEF SandboxInv, SandboxAccounted
<1>4. ShellInv => CommandsAreContained
  BY <1>1, <1>2, <1>3 DEF CommandsAreContained
<1> QED
  BY <1>4, ShellSpecInv, PTL

-------------------------------------------------------------------------------
(***************************************************************************)
(* Folds, one element after the other: the function on sets of indices     *)
(* that FoldLeft chooses exists, and sequences with a common beginning     *)
(* have its fold in common.                                                *)
(***************************************************************************)
\* A non-empty set of natural numbers has a least element.
LEMMA NatSetHasMinimum ==
    ASSUME NEW T, T \subseteq Nat, T # {}
    PROVE  \E d \in T : \A e \in T : d <= e
<1> DEFINE R == {ss \in Nat \X Nat : ss[1] < ss[2]}
<1>1. IsWellFoundedOn(R, Nat)
  BY NatLessThanWellFounded DEF OpToRel
<1>2. \A e, d \in Nat : <<e, d>> \notin R => d <= e
  OBVIOUS
<1> HIDE DEF R
<1>3. \E d \in T : \A e \in T : ~(<<e, d>> \in R)
  BY <1>1, WFMin
<1> QED
  BY <1>2, <1>3

LEMMA MaxOfInterval ==
    ASSUME NEW k \in Nat
    PROVE  /\ Max(1..k + 1) = k + 1
           /\ (1..k + 1) \ {k + 1} = 1..k
           /\ \A u \in SUBSET (1..k + 1) : k + 1 \in u => Max(u) = k + 1
           /\ \A u \in SUBSET (1..k + 1) : k + 1 \in u => u \ {k + 1} \in SUBSET (1..k)
           /\ \A u \in SUBSET (1..k + 1) : k + 1 \notin u => u \in SUBSET (1..k)
<1>1. ASSUME NEW u \in SUBSET (1..k + 1), k + 1 \in u PROVE Max(u) = k + 1
  <2>1. \A y \in u : k + 1 >= y
    OBVIOUS
  <2>2. \A x \in u : (\A y \in u : x >= y) => x = k + 1
    <3> SUFFICES ASSUME NEW x \in u, \A y \in u : x >= y PROVE x = k + 1
      OBVIOUS
    <3>1. x >= k + 1 /\ k + 1 >= x /\ x \in Nat
      BY <1>1, <2>1
    <3> QED
      BY <3>1
  <2> QED
    BY <1>1, <2>1, <2>2 DEF Max
<1>2. 1..k + 1 \in SUBSET (1..k + 1) /\ k + 1 \in 1..k + 1
  OBVIOUS
<1> QED
  BY <1>1, <1>2

\* What a text comes to with one hunk more, and the files with one operation.
Taken(kind, s, e) ==
    IF kind = "hunks" THEN ApplyHunk(s, e) ELSE AppliedNext(s, e)

\* g is the fold over the first k elements of s, for every set of indices.
FoldStep(kind, g, s, b, k) ==
    g = [u \in SUBSET (1..k) |->
            IF u = {} THEN b ELSE Taken(kind, g[u \ {Max(u)}], s[Max(u)])]

\* By the least length for which there would be none.
LEMMA FoldExists ==
    ASSUME NEW kind, NEW s, NEW b, NEW n \in Nat
    PROVE  \E g : FoldStep(kind, g, s, b, n)
<1> DEFINE Bad == {k \in Nat : ~ \E g : FoldStep(kind, g, s, b, k)}
<1>1. SUFFICES ASSUME Bad # {} PROVE FALSE
  OBVIOUS
<1>2. PICK m \in Bad : \A k \in Bad : m <= k
  BY <1>1, NatSetHasMinimum
<1>3. CASE m = 0
  <2> DEFINE g == [u \in SUBSET (1..0) |-> b]
  <2>1. \A u \in SUBSET (1..0) : u = {}
    OBVIOUS
  <2>2. FoldStep(kind, g, s, b, 0)
    BY <2>1 DEF FoldStep
  <2> QED
    BY <1>2, <1>3, <2>2
<1>4. CASE m # 0
  <2>1. PICK k \in Nat : m = k + 1
    <3>1. m - 1 \in Nat /\ m = (m - 1) + 1
      BY <1>4
    <3> QED
      BY <3>1
  <2>2. PICK g : FoldStep(kind, g, s, b, k)
    <3>1. k \notin Bad
      BY <1>2, <2>1
    <3> QED
      BY <3>1
  <2> DEFINE h == [u \in SUBSET (1..k + 1) |->
                     IF k + 1 \in u THEN Taken(kind, g[u \ {k + 1}], s[k + 1]) ELSE g[u]]
  <2>3. \A u \in SUBSET (1..k) :
           u \in SUBSET (1..k + 1) /\ k + 1 \notin u /\ h[u] = g[u]
    OBVIOUS
  <2>4. ASSUME NEW u \in SUBSET (1..k + 1)
        PROVE  h[u] = IF u = {} THEN b ELSE Taken(kind, h[u \ {Max(u)}], s[Max(u)])
    <3>1. CASE k + 1 \in u
      <4>1. Max(u) = k + 1 /\ u \ {k + 1} \in SUBSET (1..k)
        BY <3>1, MaxOfInterval
      <4>2. h[u] = Taken(kind, g[u \ {k + 1}], s[k + 1]) /\ u # {}
        BY <3>1
      <4> HIDE DEF h
      <4> QED
        BY <2>3, <4>1, <4>2
    <3>2. CASE k + 1 \notin u
      <4>1. u \in SUBSET (1..k) /\ h[u] = g[u]
        BY <3>2, MaxOfInterval
      <4>2. g[u] = IF u = {} THEN b ELSE Taken(kind, g[u \ {Max(u)}], s[Max(u)])
        BY <2>2, <4>1 DEF FoldStep
      <4>3. u # {} => u \ {Max(u)} \in SUBSET (1..k)
        BY <4>1
      <4> HIDE DEF h
      <4> QED
        BY <2>3, <4>1, <4>2, <4>3
    <3> QED
      BY <3>1, <3>2
  <2>5. h = [u \in SUBSET (1..k + 1) |-> h[u]]
    OBVIOUS
  <2> HIDE DEF h
  <2>6. FoldStep(kind, h, s, b, k + 1)
    BY <2>4, <2>5 DEF FoldStep
  <2> QED
    BY <1>2, <2>1, <2>6
<1> QED
  BY <1>3, <1>4

\* Sequences with a common beginning have the fold of it in common.
LEMMA FoldAgrees ==
    ASSUME NEW kind, NEW s, NEW t, NEW b, NEW m \in Nat, NEW n \in Nat, m <= n,
           \A i \in 1..m : s[i] = t[i],
           NEW g, NEW h, FoldStep(kind, g, s, b, m), FoldStep(kind, h, t, b, n)
    PROVE  g[1..m] = h[1..m]
<1> DEFINE Bad == {k \in 0..m : g[1..k] # h[1..k]}
<1>1. SUFFICES ASSUME Bad # {} PROVE FALSE
  <2>1. m \in 0..m
    OBVIOUS
  <2> QED
    BY <2>1
<1>2. PICK j \in Bad : \A k \in Bad : j <= k
  <2>1. Bad \subseteq Nat
    OBVIOUS
  <2> HIDE DEF Bad
  <2> QED
    BY <1>1, <2>1, NatSetHasMinimum
<1>0. \A k \in 0..m : 1..k \in SUBSET (1..m) /\ 1..k \in SUBSET (1..n)
  OBVIOUS
<1>3. CASE j = 0
  <2>1. 1..0 = {} /\ {} \in SUBSET (1..m) /\ {} \in SUBSET (1..n)
    OBVIOUS
  <2>2. g[{}] = b /\ h[{}] = b
    BY <2>1 DEF FoldStep
  <2> QED
    BY <1>2, <1>3, <2>1, <2>2
<1>4. CASE j # 0
  <2>1. PICK k \in Nat : j = k + 1 /\ k \in 0..m /\ k + 1 \in 1..m
    <3>1. j \in 1..m
      BY <1>4
    <3>2. j - 1 \in Nat /\ j = (j - 1) + 1 /\ j - 1 \in 0..m
      BY <3>1
    <3> QED
      BY <3>1, <3>2
  <2>2. g[1..k] = h[1..k]
    BY <1>2, <2>1
  <2>3. 1..k + 1 # {} /\ Max(1..k + 1) = k + 1 /\ (1..k + 1) \ {k + 1} = 1..k
    <3>1. k + 1 \in 1..k + 1
      OBVIOUS
    <3> QED
      BY <3>1, MaxOfInterval
  <2>4. 1..k + 1 \in SUBSET (1..m) /\ 1..k + 1 \in SUBSET (1..n)
    BY <2>1
  <2> DEFINE u == 1..k + 1
  <2> HIDE DEF u
  <2>5. g[u] = Taken(kind, g[1..k], s[k + 1])
    <3>1. g[u] = IF u = {} THEN b ELSE Taken(kind, g[u \ {Max(u)}], s[Max(u)])
      BY <2>4 DEF FoldStep, u
    <3>2. u # {} /\ Max(u) = k + 1 /\ u \ {k + 1} = 1..k
      BY <2>3 DEF u
    <3> QED
      BY <3>1, <3>2
  <2>6. h[u] = Taken(kind, h[1..k], t[k + 1])
    <3>1. h[u] = IF u = {} THEN b ELSE Taken(kind, h[u \ {Max(u)}], t[Max(u)])
      BY <2>4 DEF FoldStep, u
    <3>2. u # {} /\ Max(u) = k + 1 /\ u \ {k + 1} = 1..k
      BY <2>3 DEF u
    <3> QED
      BY <3>1, <3>2
  <2>7. g[1..k + 1] = h[1..k + 1]
    BY <2>1, <2>2, <2>5, <2>6 DEF u
  <2> QED
    BY <1>2, <2>1, <2>7
<1> QED
  BY <1>3, <1>4

LEMMA HunksFold ==
    ASSUME NEW V, NEW s \in Seq(V), NEW b
    PROVE  \E g : /\ FoldStep("hunks", g, s, b, Len(s))
                  /\ FoldLeft(ApplyHunk, b, s) = g[1..Len(s)]
<1> DEFINE F(g) == g = [u \in SUBSET DOMAIN s |->
                          IF u = {} THEN b ELSE ApplyHunk(g[u \ {Max(u)}], s[Max(u)])]
<1>1. FoldLeft(ApplyHunk, b, s) = (CHOOSE g : F(g))[DOMAIN s]
  BY DEF FoldLeft, MapThenFoldSet
<1>2. DOMAIN s = 1..Len(s) /\ Len(s) \in Nat
  OBVIOUS
<1>3. \A g : F(g) <=> FoldStep("hunks", g, s, b, Len(s))
  BY <1>2 DEF FoldStep, Taken
<1>4. \E g : F(g)
  BY <1>2, <1>3, FoldExists
<1> HIDE DEF F
<1>5. F(CHOOSE g : F(g))
  BY <1>4
<1> QED
  BY <1>1, <1>2, <1>3, <1>5

LEMMA OutcomeFold ==
    ASSUME NEW V, NEW s \in Seq(V), NEW b
    PROVE  \E g : /\ FoldStep("operations", g, s, b, Len(s))
                  /\ FoldLeft(AppliedNext, b, s) = g[1..Len(s)]
<1> DEFINE F(g) == g = [u \in SUBSET DOMAIN s |->
                          IF u = {} THEN b ELSE AppliedNext(g[u \ {Max(u)}], s[Max(u)])]
<1>1. FoldLeft(AppliedNext, b, s) = (CHOOSE g : F(g))[DOMAIN s]
  BY DEF FoldLeft, MapThenFoldSet
<1>2. DOMAIN s = 1..Len(s) /\ Len(s) \in Nat
  OBVIOUS
<1>3. \A g : F(g) <=> FoldStep("operations", g, s, b, Len(s))
  BY <1>2 DEF FoldStep, Taken
<1>4. \E g : F(g)
  BY <1>2, <1>3, FoldExists
<1> HIDE DEF F
<1>5. F(CHOOSE g : F(g))
  BY <1>4
<1> QED
  BY <1>1, <1>2, <1>3, <1>5

LEMMA OutcomeOfNothing ==
    ASSUME NEW fs
    PROVE  Outcome(fs, <<>>) = fs
<1>1. <<>> \in Seq({}) /\ Len(<<>>) = 0 /\ 1..0 = {} /\ {} \in SUBSET (1..0)
  OBVIOUS
<1>2. PICK g : FoldStep("operations", g, <<>>, fs, 0) /\ FoldLeft(AppliedNext, fs, <<>>) = g[1..0]
  BY <1>1, OutcomeFold
<1> QED
  BY <1>1, <1>2 DEF FoldStep, Outcome

\* The outcome of one operation more.
LEMMA OutcomeOfNext ==
    ASSUME NEW V, NEW s \in Seq(V), NEW k \in Nat, k < Len(s), NEW fs
    PROVE  Outcome(fs, SubSeq(s, 1, k + 1)) = AppliedNext(Outcome(fs, SubSeq(s, 1, k)), s[k + 1])
<1> DEFINE a == SubSeq(s, 1, k)
           t == SubSeq(s, 1, k + 1)
<1>1. /\ a \in Seq(V) /\ Len(a) = k /\ t \in Seq(V) /\ Len(t) = k + 1
      /\ t[k + 1] = s[k + 1] /\ \A i \in 1..k : a[i] = t[i]
  OBVIOUS
<1> HIDE DEF a, t
<1>2. PICK g : FoldStep("operations", g, a, fs, k) /\ FoldLeft(AppliedNext, fs, a) = g[1..k]
  BY <1>1, OutcomeFold
<1>3. PICK h : /\ FoldStep("operations", h, t, fs, k + 1)
               /\ FoldLeft(AppliedNext, fs, t) = h[1..k + 1]
  BY <1>1, OutcomeFold
<1>4. g[1..k] = h[1..k]
  BY <1>1, <1>2, <1>3, FoldAgrees
<1>5. h[1..k + 1] = Taken("operations", h[1..k], t[k + 1])
  <2>1. 1..k + 1 # {} /\ Max(1..k + 1) = k + 1 /\ (1..k + 1) \ {k + 1} = 1..k
    <3>1. k + 1 \in 1..k + 1
      OBVIOUS
    <3> QED
      BY <3>1, MaxOfInterval
  <2> QED
    BY <1>3, <2>1 DEF FoldStep
<1> QED
  BY <1>1, <1>2, <1>3, <1>4, <1>5 DEF a, t, Outcome, Taken

\* The places of a text in another, of which the least is the first.
LEMMA ReplaceFirstTypes ==
    ASSUME NEW text \in Seq(Lines), NEW hunk \in [old : Seq(Lines), new : Seq(Lines)],
           OccursOnce(text, hunk.old)
    PROVE  ReplaceFirst(text, hunk) \in Seq(Lines)
<1> DEFINE places == At(text, hunk.old)
<1>1. places # {} /\ places \subseteq Nat
  BY DEF At, OccursOnce
<1>2. PICK d \in places : \A e \in places : d <= e
  BY <1>1, NatSetHasMinimum
<1>3. Min(places) \in places
  BY <1>2 DEF Min
<1>4. Min(places) \in 1..Len(text) - Len(hunk.old) + 1
  BY <1>3 DEF At
<1>5. /\ SubSeq(text, 1, Min(places) - 1) \in Seq(Lines)
      /\ SubSeq(text, Min(places) + Len(hunk.old), Len(text)) \in Seq(Lines)
  <2> DEFINE i == Min(places)
             j == i + Len(hunk.old)
  <2>1. i \in Nat /\ i >= 1 /\ i - 1 <= Len(text) /\ j \in Nat /\ j >= 1 /\ Len(text) \in Nat
    BY <1>4
  <2> HIDE DEF i, j
  <2>2. SubSeq(text, 1, i - 1) \in Seq(Lines) /\ SubSeq(text, j, Len(text)) \in Seq(Lines)
    BY <2>1
  <2> QED
    BY <2>2 DEF i, j
<1> QED
  BY <1>5 DEF ReplaceFirst

\* Hunks make a text of a text, or fail.
LEMMA ApplyHunksTypes ==
    ASSUME NEW text \in Contents, NEW hunks \in Hunks
    PROVE  ApplyHunks(text, hunks) \in Contents
<1> DEFINE n == Len(hunks)
<1>1. n \in Nat /\ \A i \in 1..n : hunks[i] \in [old : Seq(Lines), new : Seq(Lines)]
  <2> DEFINE V == [old : Seq(Lines), new : Seq(Lines)]
  <2>1. hunks \in Seq(V)
    BY DEF Hunks
  <2> HIDE DEF V
  <2>2. n \in Nat /\ \A i \in 1..n : hunks[i] \in V
    BY <2>1
  <2> QED
    BY <2>2 DEF V
<1>2. PICK g : FoldStep("hunks", g, hunks, text, n) /\ FoldLeft(ApplyHunk, text, hunks) = g[1..n]
  BY HunksFold DEF Hunks
<1> HIDE DEF n
<1> DEFINE Bad == {k \in 0..n : g[1..k] \notin Contents}
<1>3. SUFFICES ASSUME Bad # {} PROVE FALSE
  <2>1. n \in 0..n
    BY <1>1
  <2> QED
    BY <1>2, <2>1 DEF ApplyHunks
<1>4. PICK j \in Bad : \A k \in Bad : j <= k
  <2>1. Bad \subseteq Nat
    BY <1>1
  <2> HIDE DEF Bad
  <2> QED
    BY <1>3, <2>1, NatSetHasMinimum
<1>5. CASE j = 0
  <2>1. 1..0 = {} /\ {} \in SUBSET (1..n)
    OBVIOUS
  <2>2. g[{}] = text
    BY <1>2, <2>1 DEF FoldStep
  <2> QED
    BY <1>4, <1>5, <2>1, <2>2
<1>6. CASE j # 0
  <2>1. PICK k \in Nat : j = k + 1 /\ k \in 0..n /\ k + 1 \in 1..n
    <3>1. j \in 1..n
      BY <1>6
    <3>2. j - 1 \in Nat /\ j = (j - 1) + 1 /\ j - 1 \in 0..n
      BY <1>1, <3>1
    <3> QED
      BY <3>1, <3>2
  <2>2. g[1..k] \in Contents
    BY <1>4, <2>1
  <2>3. 1..k + 1 # {} /\ Max(1..k + 1) = k + 1 /\ (1..k + 1) \ {k + 1} = 1..k
    <3>1. k + 1 \in 1..k + 1
      OBVIOUS
    <3> QED
      BY <3>1, MaxOfInterval
  <2>4. 1..k + 1 \in SUBSET (1..n)
    BY <1>1, <2>1
  <2>5. g[1..k + 1] = ApplyHunk(g[1..k], hunks[k + 1])
    <3>1. g[1..k + 1] = Taken("hunks", g[1..k], hunks[k + 1])
      BY <1>2, <2>3, <2>4 DEF FoldStep
    <3> QED
      BY <3>1 DEF Taken
  <2>6. g[1..k + 1] \in Contents
    BY <1>1, <2>1, <2>2, <2>5, ReplaceFirstTypes DEF ApplyHunk, Contents
  <2> QED
    BY <1>4, <2>1, <2>6
<1> QED
  BY <1>5, <1>6

-------------------------------------------------------------------------------
(***************************************************************************)
(* FileEdits                                                               *)
(***************************************************************************)
Planning == [file : Files, after : Contents]
Overwrites == [type : {"overwrite"}, file : Files, text : Seq(Lines), overwrite : BOOLEAN]

\* What is left to plan of a patch; of any other call, the one thing it does.
IsRest(s) ==
    \/ s \in Seq(Operations)
    \/ s \in Seq(Writes \union Reads \union Overwrites) /\ Len(s) = 1

CallTypes ==
    /\ job \in [Calls -> Seq(Operations) \union Seq(Writes \union Reads)]
    /\ rest \in [Calls -> Seq(Operations) \union Seq(Writes \union Reads \union Overwrites)]
    /\ plan \in [Calls -> Seq(Planning)]
    /\ landed \in [Calls -> Nat] /\ under \in [Calls -> Nat]

\* What a call has at the places where it may be.
CallInv(c) ==
    /\ landed[c] \in 0..Len(plan[c]) /\ under[c] \in 0..Len(plan[c])
    /\ \A i, k \in DOMAIN plan[c] : plan[c][i].file = plan[c][k].file => i = k
    /\ c > cur => doing[c] = "idle"
    /\ doing[c] = "idle" => job[c] = <<>> /\ plan[c] = <<>> /\ c >= cur
    /\ c < cur => c \in abandoned \/ doing[c] \in {"done", "failed"}
    /\ doing[c] # "idle" => IsJob(job[c])
    /\ doing[c] = "planning" =>
        /\ ~IsRead(c) /\ IsRest(rest[c]) /\ rest[c] # <<>> /\ rest[c][1].type # "read"
        /\ landed[c] = 0 /\ under[c] = 0
    /\ doing[c] = "reading" => IsRead(c) /\ plan[c] = <<>>
    /\ doing[c] = "landing" => ~IsRead(c) /\ landed[c] < Len(plan[c])
    /\ doing[c] = "done" /\ IsRead(c) =>
        /\ Len(plan[c]) = 1 /\ plan[c][1].file = job[c][1].file /\ plan[c][1].after # Missing
    /\ doing[c] = "done" /\ ~IsRead(c) => landed[c] = Len(plan[c])

\* An aborted call makes no write but the one it was making.
LastWrite(c) ==
    c \in abandoned /\ doing[c] = "landing" /\ plan[c][landed[c] + 1].after # Missing
        => under[c] = landed[c] + 1

\* A text in the cache was shown, or is about to be, or was dropped.
CacheInv ==
    /\ \A f \in Files :
           \/ cache[f] = Missing \/ f \in lost \/ cache[f] = seen[f]
           \/ /\ cur \in Calls \ stub /\ doing[cur] = "done" /\ IsRead(cur)
              /\ job[cur][1].file = f /\ plan[cur][1].after = cache[f]
    /\ \A c \in stub : c <= cur /\ doing[c] = "done" /\ IsRead(c)
    /\ cur \in Calls /\ ~IsRead(cur) /\ doing[cur] \in {"landing", "done"}
           => \A i \in 1..landed[cur] : cache[plan[cur][i].file] = Missing
    /\ cur \in Calls /\ IsRead(cur) /\ doing[cur] = "done"
           => cache[job[cur][1].file] \in {Missing, plan[cur][1].after}

\* What the first n changes of the plan p make of the files fs.
Made(fs, p, n) ==
    [f \in Files |-> IF \E i \in 1..n : p[i].file = f
                     THEN p[CHOOSE i \in 1..n : p[i].file = f].after ELSE fs[f]]

\* A deletion is of a file that was there.
DeletesExisting(p) == \A i \in DOMAIN p : p[i].after = Missing => base[p[i].file] # Missing

\* Of the call that changes files, while nobody else does: before its first
\* change the plan is what the operations planned so far come to, and then the
\* files are what its first changes make of those there were.
WholeInv(c) ==
    LET p == plan[c]
        k == Len(job[c]) - Len(rest[c])
    IN  /\ doing[c] \in {"planning", "landing", "done", "failed"} /\ ~IsRead(c)
        /\ DeletesExisting(p)
        /\ doing[c] = "planning" =>
              /\ files = base /\ Len(rest[c]) <= Len(job[c])
              /\ \/ rest[c] = SubSeq(job[c], k + 1, Len(job[c]))
                 \/ /\ k = 0 /\ rest[c][1].type = "overwrite"
                    /\ job[c] = <<[rest[c][1] EXCEPT !.type = "write"]>>
                    /\ job[c][1].overwrite
              /\ Outcome(base, SubSeq(job[c], 1, k)) = Made(base, p, Len(p))
        /\ doing[c] \in {"landing", "done"} =>
              /\ Outcome(base, job[c]) = Made(base, p, Len(p))
              /\ files = Made(base, p, landed[c])
        /\ doing[c] = "failed" =>
              \/ files = base
              \/ /\ c \in abandoned /\ Outcome(base, job[c]) = Made(base, p, Len(p))
                 /\ files = Made(base, p, landed[c])

EditsInv ==
    /\ EditsTypeOK /\ CallTypes
    /\ \A c \in Calls : CallInv(c) /\ LastWrite(c)
    /\ lateWriters = {}
    /\ CacheInv /\ StubsAreBacked
    /\ latest # NoOne /\ ~disturbed => WholeInv(latest)

-------------------------------------------------------------------------------
(***************************************************************************)
(* What a plan makes of the files                                          *)
(***************************************************************************)
\* No two changes of a plan are of one file.
OnePlace(p) == \A i, k \in DOMAIN p : p[i].file = p[k].file => i = k

LEMMA MadeTypes ==
    ASSUME NEW fs \in [Files -> Contents], NEW p \in Seq(Planning), NEW n \in 0..Len(p)
    PROVE  Made(fs, p, n) \in [Files -> Contents]
<1> SUFFICES ASSUME NEW f \in Files PROVE Made(fs, p, n)[f] \in Contents
  BY DEF Made
<1>1. CASE \E i \in 1..n : p[i].file = f
  <2> DEFINE i == CHOOSE i \in 1..n : p[i].file = f
  <2>1. i \in 1..n
    BY <1>1
  <2>2. i \in DOMAIN p
    BY <2>1
  <2>3. p[i] \in Planning
    BY <2>2
  <2>4. Made(fs, p, n)[f] = p[i].after
    BY <1>1 DEF Made
  <2> QED
    BY <2>3, <2>4 DEF Planning
<1>2. CASE ~ \E i \in 1..n : p[i].file = f
  BY <1>2 DEF Made
<1> QED
  BY <1>1, <1>2

\* What a change makes of its file, and what no change touches.
LEMMA MadeAt ==
    ASSUME NEW fs, NEW p \in Seq(Planning), OnePlace(p), NEW n \in 0..Len(p),
           NEW i \in 1..n, p[i].file \in Files
    PROVE  Made(fs, p, n)[p[i].file] = p[i].after
<1> DEFINE f == p[i].file
           k == CHOOSE k \in 1..n : p[k].file = f
<1>1. k \in 1..n /\ p[k].file = f
  OBVIOUS
<1>2. i \in DOMAIN p /\ k \in DOMAIN p
  BY <1>1
<1>3. k = i
  BY <1>1, <1>2 DEF OnePlace
<1> QED
  BY <1>3 DEF Made

LEMMA MadeElsewhere ==
    ASSUME NEW fs, NEW p, NEW n \in Nat, NEW f \in Files, \A i \in 1..n : p[i].file # f
    PROVE  Made(fs, p, n)[f] = fs[f]
  BY DEF Made

\* One change more.
LEMMA MadeNext ==
    ASSUME NEW fs \in [Files -> Contents], NEW p \in Seq(Planning), OnePlace(p),
           NEW n \in Nat, n < Len(p)
    PROVE  /\ Made(fs, p, n + 1) = [Made(fs, p, n) EXCEPT ![p[n + 1].file] = p[n + 1].after]
           /\ Made(fs, p, n)[p[n + 1].file] = fs[p[n + 1].file]
           /\ p[n + 1].file \in Files /\ p[n + 1].after \in Contents
<1>1. n \in 0..Len(p) /\ n + 1 \in 0..Len(p) /\ n + 1 \in DOMAIN p
  OBVIOUS
<1>2. p[n + 1] \in Planning
  BY <1>1
<1>3. p[n + 1].file \in Files /\ p[n + 1].after \in Contents
  BY <1>2 DEF Planning
<1>4. ASSUME NEW i \in 1..n PROVE p[i].file # p[n + 1].file
  <2>1. i \in DOMAIN p /\ i # n + 1
    OBVIOUS
  <2> QED
    BY <1>1, <2>1 DEF OnePlace
<1>5. Made(fs, p, n)[p[n + 1].file] = fs[p[n + 1].file]
  BY <1>3, <1>4, MadeElsewhere
<1>6. Made(fs, p, n) \in [Files -> Contents] /\ Made(fs, p, n + 1) \in [Files -> Contents]
  BY <1>1, MadeTypes
<1>7. ASSUME NEW f \in Files
      PROVE  Made(fs, p, n + 1)[f] = IF f = p[n + 1].file THEN p[n + 1].after ELSE Made(fs, p, n)[f]
  <2>1. CASE f = p[n + 1].file
    <3>1. n + 1 \in 1..n + 1
      OBVIOUS
    <3> QED
      BY <1>1, <2>1, <3>1, MadeAt
  <2>2. CASE f # p[n + 1].file /\ \E i \in 1..n : p[i].file = f
    <3>1. PICK i \in 1..n : p[i].file = f
      BY <2>2
    <3>2. i \in 1..n + 1
      OBVIOUS
    <3> QED
      BY <1>1, <2>2, <3>1, <3>2, MadeAt
  <2>3. CASE f # p[n + 1].file /\ \A i \in 1..n : p[i].file # f
    <3>1. \A i \in 1..n + 1 : p[i].file # f
      <4> SUFFICES ASSUME NEW i \in 1..n + 1 PROVE p[i].file # f
        OBVIOUS
      <4>1. i = n + 1 \/ i \in 1..n
        OBVIOUS
      <4> QED
        BY <2>3, <4>1
    <3> QED
      BY <2>3, <3>1, MadeElsewhere
  <2> QED
    BY <2>1, <2>2, <2>3
<1> QED
  BY <1>3, <1>5, <1>6, <1>7

LEMMA MadeOfNothing ==
    ASSUME NEW fs \in [Files -> Contents], NEW p
    PROVE  Made(fs, p, 0) = fs
  BY DEF Made

\* What is planned of a file, as getExistingPlan finds it.
LEMMA ExistingIsMade ==
    ASSUME NEW c \in Calls, plan[c] \in Seq(Planning), OnePlace(plan[c]), NEW f \in Files
    PROVE  /\ Existing(c, f) = Made(files, plan[c], Len(plan[c]))[f]
           /\ \A i \in PlanOf(c, f) : PlanOf(c, f) = {i}
<1> DEFINE p == plan[c]
<1>0. p \in Seq(Planning) /\ OnePlace(p)
  OBVIOUS
<1>1. DOMAIN p = 1..Len(p) /\ Len(p) \in 0..Len(p) /\ PlanOf(c, f) = {i \in DOMAIN p : p[i].file = f}
  BY DEF PlanOf
<1>2. \A i \in PlanOf(c, f) : PlanOf(c, f) = {i}
  BY <1>1 DEF OnePlace
<1>3. CASE PlanOf(c, f) # {}
  <2>1. PICK i : i \in PlanOf(c, f)
    BY <1>3
  <2>2. i \in Nat /\ PlanOf(c, f) = {i} /\ i \in 1..Len(p) /\ p[i].file = f
    BY <1>1, <1>2, <2>1
  <2>3. Max(PlanOf(c, f)) = i
    BY <2>2 DEF Max
  <2>4. Existing(c, f) = p[i].after
    BY <1>3, <2>3 DEF Existing
  <2> HIDE DEF p
  <2>5. Made(files, p, Len(p))[p[i].file] = p[i].after
    BY <1>0, <1>1, <2>2, MadeAt
  <2> QED
    BY <1>2, <2>2, <2>4, <2>5 DEF p
<1>4. CASE PlanOf(c, f) = {}
  <2>1. \A i \in 1..Len(p) : p[i].file # f
    BY <1>1, <1>4
  <2>2. Made(files, p, Len(p))[f] = files[f]
    BY <2>1, MadeElsewhere
  <2> QED
    BY <1>2, <1>4, <2>2 DEF Existing
<1> QED
  BY <1>3, <1>4

\* The plan with a change put in its place, and what it makes of the files.
LEMMA PutPlanMakes ==
    ASSUME NEW c \in Calls, plan[c] \in Seq(Planning), OnePlace(plan[c]),
           NEW f \in Files, NEW a \in Contents
    PROVE  LET p == plan[c]
               q == PutPlan(c, f, a)
           IN  /\ q \in Seq(Planning) /\ OnePlace(q) /\ Len(q) > 0 /\ Len(q) >= Len(p)
               /\ \A fs \in [Files -> Contents] :
                      Made(fs, q, Len(q)) = [Made(fs, p, Len(p)) EXCEPT ![f] = a]
               /\ \A i \in DOMAIN q : q[i] = [file |-> f, after |-> a]
                                        \/ (i \in DOMAIN p /\ q[i] = p[i])
<1> DEFINE p == plan[c]
           q == PutPlan(c, f, a)
           r == [file |-> f, after |-> a]
           n == Len(p)
<1>1. /\ DOMAIN p = 1..n /\ n \in Nat /\ r \in Planning /\ r.file = f /\ r.after = a
      /\ PlanOf(c, f) = {i \in 1..n : p[i].file = f}
  BY DEF PlanOf, Planning
<1>2. CASE PlanOf(c, f) = {}
  <2>1. q = Append(p, r)
    BY <1>2 DEF PutPlan
  <2>2. /\ q \in Seq(Planning) /\ Len(q) = n + 1 /\ q[n + 1] = r
        /\ \A i \in 1..n : q[i] = p[i]
    BY <1>1, <2>1
  <2> HIDE DEF q, r, p, n
  <2>3. \A i \in 1..n : q[i].file # f
    BY <1>1, <1>2, <2>2
  <2>4. \A i \in DOMAIN q : i = n + 1 \/ i \in 1..n
    BY <1>1, <2>2
  <2>5. OnePlace(q)
    <3> SUFFICES ASSUME NEW i \in DOMAIN q, NEW k \in DOMAIN q, q[i].file = q[k].file PROVE i = k
      BY DEF OnePlace
    <3>1. CASE i \in 1..n /\ k \in 1..n
      BY <1>1, <2>2, <3>1 DEF OnePlace, p
    <3> QED
      BY <1>1, <2>2, <2>3, <2>4, <3>1
  <2>6. ASSUME NEW fs \in [Files -> Contents]
        PROVE  Made(fs, q, Len(q)) = [Made(fs, p, n) EXCEPT ![f] = a]
    <3>1. Made(fs, q, n + 1) = [Made(fs, q, n) EXCEPT ![f] = a]
      BY <1>1, <2>2, <2>5, MadeNext
    <3>2. Made(fs, q, n) = Made(fs, p, n)
      BY <2>2 DEF Made
    <3> QED
      BY <2>2, <3>1, <3>2
  <2> QED
    BY <1>1, <2>2, <2>4, <2>5, <2>6 DEF q, r, p, n
<1>3. CASE PlanOf(c, f) # {}
  <2>1. PICK j \in 1..n : p[j].file = f
    BY <1>1, <1>3
  <2>2. q = [i \in 1..n |-> IF i = j THEN r ELSE p[i]]
    <3>1. PlanOf(c, f) = {j}
      BY <1>1, <2>1, ExistingIsMade
    <3> QED
      BY <1>1, <1>3, <3>1 DEF PutPlan
  <2>3. /\ q \in Seq(Planning) /\ Len(q) = n /\ DOMAIN q = 1..n
        /\ \A i \in 1..n : q[i] = IF i = j THEN r ELSE p[i]
    <3>1. \A i \in 1..n : p[i] \in Planning
      BY <1>1
    <3> HIDE DEF q, r, p, n
    <3>2. q \in [1..n -> Planning]
      BY <1>1, <2>2, <3>1
    <3>3. q \in Seq(Planning) /\ DOMAIN q = 1..n /\ Len(q) = n
      BY <1>1, <3>2
    <3> QED
      BY <2>2, <3>3
  <2> HIDE DEF q, r, p, n
  <2>4. \A i \in 1..n : q[i].file = p[i].file
    BY <1>1, <2>1, <2>3
  <2>5. OnePlace(q)
    BY <1>1, <2>3, <2>4 DEF OnePlace, p
  <2>6. ASSUME NEW fs \in [Files -> Contents]
        PROVE  Made(fs, q, n) = [Made(fs, p, n) EXCEPT ![f] = a]
    <3>1. n \in 0..n /\ n \in 0..Len(p) /\ n \in 0..Len(q) /\ p \in Seq(Planning) /\ OnePlace(p)
      BY <1>1, <2>3 DEF p, n
    <3>2. Made(fs, q, n) \in [Files -> Contents] /\ Made(fs, p, n) \in [Files -> Contents]
      BY <2>3, <3>1, MadeTypes DEF n
    <3>3. ASSUME NEW g \in Files
          PROVE  Made(fs, q, n)[g] = IF g = f THEN a ELSE Made(fs, p, n)[g]
      <4>1. CASE g = f
        <5>1. q[j].file = g /\ q[j].after = a
          BY <1>1, <2>1, <2>3, <4>1
        <5>2. Made(fs, q, n)[q[j].file] = q[j].after
          BY <2>3, <2>5, <3>1, <4>1, <5>1, MadeAt
        <5> QED
          BY <4>1, <5>1, <5>2
      <4>2. CASE g # f /\ \E i \in 1..n : p[i].file = g
        <5>1. PICK i \in 1..n : p[i].file = g
          BY <4>2
        <5>2. i # j /\ q[i] = p[i]
          BY <2>1, <2>3, <4>2, <5>1
        <5>3. Made(fs, p, n)[p[i].file] = p[i].after
          BY <3>1, <5>1, MadeAt
        <5>4. Made(fs, q, n)[q[i].file] = q[i].after
          BY <2>3, <2>5, <3>1, <5>1, <5>2, MadeAt
        <5> QED
          BY <4>2, <5>1, <5>2, <5>3, <5>4
      <4>3. CASE g # f /\ \A i \in 1..n : p[i].file # g
        <5>1. Made(fs, p, n)[g] = fs[g]
          BY <1>1, <4>3, MadeElsewhere
        <5>2. Made(fs, q, n)[g] = fs[g]
          BY <1>1, <2>4, <4>3, MadeElsewhere
        <5> QED
          BY <4>3, <5>1, <5>2
      <4> QED
        BY <4>1, <4>2, <4>3
    <3> QED
      BY <3>2, <3>3
  <2> QED
    BY <1>1, <2>1, <2>3, <2>5, <2>6 DEF q, r, p, n
<1> QED
  BY <1>2, <1>3

-------------------------------------------------------------------------------
(***************************************************************************)
(* The steps of the tools that change files                                *)
(***************************************************************************)
\* What a step leaves as it is of the call d.
CallSame(d) ==
    /\ job'[d] = job[d] /\ doing'[d] = doing[d] /\ rest'[d] = rest[d]
    /\ plan'[d] = plan[d] /\ landed'[d] = landed[d] /\ under'[d] = under[d]

LEMMA SameCallKeeps ==
    ASSUME EditsInv, NEW d \in Calls, CallSame(d), UNCHANGED <<cur, abandoned>>
    PROVE  CallInv(d)' /\ LastWrite(d)'
<1>1. CallInv(d) /\ LastWrite(d)
  BY DEF EditsInv
<1>2. CallInv(d)'
  BY <1>1 DEF CallSame, CallInv, IsRead
<1>3. LastWrite(d)'
  BY <1>1 DEF CallSame, LastWrite
<1> QED
  BY <1>2, <1>3

LEMMA SameWholeKeeps ==
    ASSUME NEW d \in Calls, WholeInv(d), CallSame(d), UNCHANGED <<files, base>>,
           abandoned \subseteq abandoned'
    PROVE  WholeInv(d)'
  BY DEF CallSame, WholeInv, DeletesExisting, IsRead

\* What the invariant says of a call, for leaves that need nothing else.
LEMMA CallFacts ==
    ASSUME EditsInv, NEW c \in Calls
    PROVE  /\ job \in [Calls -> Seq(Operations) \union Seq(Writes \union Reads)]
           /\ rest \in [Calls -> Seq(Operations) \union Seq(Writes \union Reads \union Overwrites)]
           /\ plan \in [Calls -> Seq(Planning)] /\ plan[c] \in Seq(Planning)
           /\ landed \in [Calls -> Nat] /\ under \in [Calls -> Nat]
           /\ doing \in [Calls -> {"idle", "planning", "landing", "reading", "done", "failed"}]
           /\ CallInv(c) /\ LastWrite(c) /\ OnePlace(plan[c])
           /\ files \in [Files -> Contents] /\ base \in [Files -> Contents]
           /\ cache \in [Files -> Contents] /\ seen \in [Files -> Contents]
           /\ cur \in 1..NCalls + 1 /\ abandoned \subseteq 1..cur - 1
<1>1. EditsTypeOK /\ CallTypes /\ CallInv(c) /\ LastWrite(c)
  BY DEF EditsInv
<1>2. OnePlace(plan[c])
  BY <1>1 DEF CallInv, OnePlace
<1>3. plan[c] \in Seq(Planning)
  BY <1>1 DEF CallTypes
<1> QED
  BY <1>1, <1>2, <1>3 DEF EditsTypeOK, CallTypes

\* A call that is running and not abandoned is the one the turn waits for.
LEMMA RunningIsCurrent ==
    ASSUME EditsInv, NEW c \in Calls, doing[c] \in {"planning", "landing", "reading"}
    PROVE  c = cur \/ c \in abandoned
<1>1. CallInv(c) /\ cur \in 1..NCalls + 1 /\ c \in Nat
  BY CallFacts DEF Calls
<1>2. ~(c > cur) /\ (c < cur => c \in abandoned)
  BY <1>1 DEF CallInv
<1> QED
  BY <1>1, <1>2

LEMMA ChangeTypes ==
    ASSUME NEW p \in Seq(Planning), NEW i \in DOMAIN p
    PROVE  p[i].file \in Files /\ p[i].after \in Contents
<1>1. p[i] \in Planning
  OBVIOUS
<1> QED
  BY <1>1 DEF Planning

\* The cache and the stubs, where a step leaves all calls that are done alone.
LEMMA SameCacheKeeps ==
    ASSUME EditsInv, UNCHANGED <<cache, cur, lost, seen, stub>>,
           \A d \in Calls : doing[d] = "done" => CallSame(d),
           \A d \in Calls : doing'[d] = "done" => CallSame(d),
           \A d \in Calls : doing'[d] = "landing" => CallSame(d) \/ landed'[d] = 0
    PROVE  CacheInv' /\ StubsAreBacked'
<1>1. CacheInv /\ StubsAreBacked /\ stub \subseteq Calls
  BY DEF EditsInv, EditsTypeOK
<1>2. ASSUME NEW g \in Files, cache[g] # Missing, g \notin lost, cache[g] # seen[g]
      PROVE  /\ cur \in Calls \ stub /\ doing'[cur] = "done" /\ IsRead(cur)'
             /\ job'[cur][1].file = g /\ plan'[cur][1].after = cache[g]
  <2>1. /\ cur \in Calls \ stub /\ doing[cur] = "done" /\ IsRead(cur)
        /\ job[cur][1].file = g /\ plan[cur][1].after = cache[g]
    BY <1>1, <1>2 DEF CacheInv
  <2> QED
    BY <2>1 DEF CallSame, IsRead
<1>3. ASSUME NEW d \in stub PROVE doing'[d] = "done" /\ IsRead(d)' /\ d <= cur
  BY <1>1 DEF CacheInv, CallSame, IsRead
<1>4. ASSUME cur \in Calls, job'[cur] = <<>> \/ job'[cur][1].type # "read",
             doing'[cur] \in {"landing", "done"}, NEW i \in 1..landed'[cur]
      PROVE  cache[plan'[cur][i].file] = Missing
  <2>1. landed'[cur] # 0
    OBVIOUS
  <2> QED
    BY <1>1, <1>4, <2>1 DEF CacheInv, CallSame, IsRead
<1>5. ASSUME cur \in Calls, IsRead(cur)', doing'[cur] = "done"
      PROVE  cache[job'[cur][1].file] \in {Missing, plan'[cur][1].after}
  <2>1. CallSame(cur)
    BY <1>5
  <2> QED
    BY <1>1, <1>5, <2>1 DEF CacheInv, CallSame, IsRead
<1>6. CacheInv'
  BY <1>2, <1>3, <1>4, <1>5 DEF CacheInv, IsRead
<1>7. StubsAreBacked'
  BY <1>1 DEF CacheInv, StubsAreBacked, CallSame
<1> QED
  BY <1>6, <1>7

\* A call that fails while it plans, or while it reads, has changed nothing.
LEMMA FailKeeps ==
    ASSUME EditsInv, NEW c \in Calls, doing[c] \in {"planning", "reading"}, Fail(c),
           UNCHANGED <<files, cache, job, landed, cur, abandoned, mishaps, ghostVars>>
    PROVE  EditsInv'
<1> USE DEF ghostVars, Fail
<1>1. /\ doing' = [doing EXCEPT ![c] = "failed"] /\ doing'[c] = "failed"
      /\ \A d \in Calls \ {c} : CallSame(d)
  BY CallFacts DEF CallSame
<1>2. CallTypes'
  BY DEF EditsInv, CallTypes
<1>3. ASSUME NEW d \in Calls PROVE CallInv(d)' /\ LastWrite(d)'
  <2>1. CASE d = c
    <3>1. CallInv(c)
      BY CallFacts
    <3> QED
      BY <1>1, <2>1, <3>1 DEF CallInv, LastWrite, IsRead
  <2>2. CASE d # c
    BY <1>1, <2>2, SameCallKeeps
  <2> QED
    BY <2>1, <2>2
<1>4. EditsTypeOK'
  BY <1>1 DEF EditsInv, EditsTypeOK
<1>5. CacheInv' /\ StubsAreBacked'
  <2>1. \A d \in Calls : doing[d] = "done" \/ doing'[d] \in {"landing", "done"} => d # c
    BY <1>1
  <2> QED
    BY <1>1, <2>1, SameCacheKeeps
<1>6. lateWriters' = {}
  BY DEF EditsInv
<1>7. ASSUME latest' # NoOne, ~disturbed' PROVE WholeInv(latest)'
  <2>1. latest \in Calls /\ WholeInv(latest)
    BY <1>7 DEF EditsInv, EditsTypeOK
  <2>2. CASE latest = c
    <3>1. doing[c] = "planning" /\ files = base
      BY <2>1, <2>2 DEF WholeInv
    <3> QED
      BY <1>1, <2>1, <2>2, <3>1 DEF WholeInv, DeletesExisting, IsRead
  <2>3. CASE latest # c
    BY <1>1, <2>1, <2>3, SameWholeKeeps
  <2> QED
    BY <2>2, <2>3
<1> QED
  BY <1>2, <1>3, <1>4, <1>5, <1>6, <1>7 DEF EditsInv

LEMMA TailTypes ==
    ASSUME NEW V, NEW s \in Seq(V), s # <<>>
    PROVE  /\ Tail(s) \in Seq(V) /\ Len(Tail(s)) = Len(s) - 1
           /\ Len(s) > 1 => Tail(s) # <<>>
           /\ Len(s) = 1 => Tail(s) = <<>>
<1>1. Tail(s) \in Seq(V) /\ Len(Tail(s)) = Len(s) - 1 /\ Len(s) \in Nat
  OBVIOUS
<1>2. Len(s) > 1 => Len(Tail(s)) # 0
  BY <1>1
<1>3. Len(<<>>) = 0
  OBVIOUS
<1>4. \A t \in Seq(V) : Len(t) = 0 => t = <<>>
  OBVIOUS
<1>5. Len(s) = 1 => Len(Tail(s)) = 0
  BY <1>1
<1>6. Len(s) = 1 => Tail(s) = <<>>
  BY <1>1, <1>4, <1>5, Zenon
<1> QED
  BY <1>1, <1>2, <1>3, <1>6

\* An operation is planned: the change a of the file f finds its place in the
\* plan.  What the operations so far come to has changed in the same way.
LEMMA PlannedKeeps ==
    ASSUME EditsInv, NEW c \in Calls, doing[c] = "planning", c \notin abandoned,
           NEW f \in Files, NEW a \in Contents, Planned(c, PutPlan(c, f, a)),
           UNCHANGED <<files, cache, job, landed, cur, abandoned, mishaps, ghostVars>>,
           latest = c /\ ~disturbed =>
               LET k == Len(job[c]) - Len(rest[c])
               IN  /\ a = Missing => base[f] # Missing
                   /\ k \in Nat /\ k < Len(job[c])
                   /\ Tail(rest[c]) = SubSeq(job[c], k + 2, Len(job[c]))
                   /\ Outcome(base, SubSeq(job[c], 1, k + 1))
                          = [Outcome(base, SubSeq(job[c], 1, k)) EXCEPT ![f] = a]
    PROVE  EditsInv'
<1> DEFINE p == plan[c]
           q == PutPlan(c, f, a)
<1> USE DEF ghostVars
<1>1. /\ p \in Seq(Planning) /\ OnePlace(p) /\ CallInv(c)
      /\ q \in Seq(Planning) /\ OnePlace(q) /\ Len(q) > 0 /\ Len(q) >= Len(p)
      /\ \A fs \in [Files -> Contents] : Made(fs, q, Len(q)) = [Made(fs, p, Len(p)) EXCEPT ![f] = a]
      /\ \A i \in DOMAIN q : \/ q[i] = [file |-> f, after |-> a]
                             \/ i \in DOMAIN p /\ q[i] = p[i]
  BY CallFacts, PutPlanMakes
<1>2. /\ plan' = [plan EXCEPT ![c] = q] /\ rest' = [rest EXCEPT ![c] = Tail(rest[c])]
      /\ plan'[c] = q /\ rest'[c] = Tail(rest[c])
      /\ doing' = [doing EXCEPT ![c] = IF Len(rest[c]) > 1 THEN "planning" ELSE "landing"]
      /\ doing'[c] = IF Len(rest[c]) > 1 THEN "planning" ELSE "landing"
      /\ \A d \in Calls \ {c} : CallSame(d)
  <2>1. plan' = [plan EXCEPT ![c] = q] /\ rest' = [rest EXCEPT ![c] = Tail(rest[c])]
    BY DEF Planned
  <2>2. doing' = [doing EXCEPT ![c] = IF Len(rest[c]) > 1 THEN "planning" ELSE "landing"]
    <3>1. Len(q) # 0
      BY <1>1
    <3>2. CASE Len(rest[c]) > 1
      BY <3>2, CallFacts DEF Planned
    <3>3. CASE ~(Len(rest[c]) > 1)
      BY <3>1, <3>3 DEF Planned, NextChange
    <3> QED
      BY <3>2, <3>3
  <2> HIDE DEF q
  <2> QED
    BY <2>1, <2>2, CallFacts DEF CallSame
<1>3. /\ IsRest(rest[c]) /\ rest[c] # <<>> /\ landed[c] = 0 /\ under[c] = 0 /\ ~IsRead(c)
      /\ IsJob(job[c])
  BY <1>1 DEF CallInv
<1>4. /\ Tail(rest[c]) \in Seq(Operations) \union Seq(Writes \union Reads \union Overwrites)
      /\ Len(rest[c]) > 1 => Tail(rest[c]) \in Seq(Operations) /\ Tail(rest[c]) # <<>>
  <2>1. CASE rest[c] \in Seq(Operations)
    BY <1>3, <2>1, TailTypes
  <2>2. CASE rest[c] \in Seq(Writes \union Reads \union Overwrites) /\ Len(rest[c]) = 1
    <3> DEFINE V == Writes \union Reads \union Overwrites
    <3> HIDE DEF V
    <3>1. rest[c] \in Seq(V) /\ rest[c] # <<>> /\ Len(rest[c]) = 1
      BY <1>3, <2>2 DEF V
    <3>2. Tail(rest[c]) \in Seq(V) /\ ~(Len(rest[c]) > 1)
      BY <3>1
    <3> QED
      BY <3>2 DEF V
  <2> QED
    BY <1>3, <2>1, <2>2 DEF IsRest
<1> HIDE DEF p, q
<1>5. CallTypes'
  BY <1>1, <1>2, <1>4 DEF EditsInv, CallTypes
<1>6. ASSUME NEW d \in Calls PROVE CallInv(d)' /\ LastWrite(d)'
  <2>1. CASE d = c
    <3>1. CallInv(c)'
      <4>1. Len(q) \in Nat /\ landed'[c] \in 0..Len(q) /\ under'[c] \in 0..Len(q)
            /\ landed'[c] < Len(q)
        BY <1>1, <1>3
      <4>2. Len(rest[c]) > 1 => IsRest(rest'[c]) /\ rest'[c] # <<>> /\ rest'[c][1].type # "read"
        <5> SUFFICES ASSUME Len(rest[c]) > 1
                     PROVE  IsRest(rest'[c]) /\ rest'[c] # <<>> /\ rest'[c][1].type # "read"
          OBVIOUS
        <5>1. rest'[c] \in Seq(Operations) /\ rest'[c] # <<>>
          BY <1>2, <1>4
        <5>2. rest'[c][1] \in Operations
          BY <5>1
        <5> QED
          BY <5>1, <5>2 DEF IsRest, Operations
      <4>3. c <= cur /\ ~(c < cur)
        BY CallFacts, RunningIsCurrent DEF Calls
      <4>4. \A i, k \in DOMAIN q : q[i].file = q[k].file => i = k
        BY <1>1 DEF OnePlace
      <4> QED
        BY <1>1, <1>2, <1>3, <4>1, <4>2, <4>3, <4>4 DEF CallInv, IsRead
    <3>2. LastWrite(c)'
      BY DEF LastWrite
    <3> QED
      BY <2>1, <3>1, <3>2
  <2>2. CASE d # c
    BY <1>2, <2>2, SameCallKeeps
  <2> QED
    BY <2>1, <2>2
<1>7. EditsTypeOK'
  <2>1. /\ \A d \in Calls : \A i \in DOMAIN plan'[d] :
               plan'[d][i].file \in Files /\ plan'[d][i].after \in Contents
        /\ \A d \in Calls : landed'[d] \in 0..Len(plan'[d]) /\ under'[d] \in 0..Len(plan'[d])
    <3>1. \A d \in Calls : plan'[d] \in Seq(Planning)
      BY <1>5 DEF CallTypes
    <3>2. \A d \in Calls : landed'[d] \in 0..Len(plan'[d]) /\ under'[d] \in 0..Len(plan'[d])
      BY <1>6 DEF CallInv
    <3> QED
      BY <3>1, <3>2, ChangeTypes
  <2>2. doing' \in [Calls -> {"idle", "planning", "landing", "reading", "done", "failed"}]
    BY <1>2, CallFacts
  <2> QED
    BY <2>1, <2>2 DEF EditsInv, EditsTypeOK
<1>8. CacheInv' /\ StubsAreBacked'
  <2>1. \A d \in Calls : doing[d] = "done" => d # c
    OBVIOUS
  <2>2. landed'[c] = 0
    BY <1>3
  <2> QED
    BY <1>2, <2>1, <2>2, SameCacheKeeps
<1>9. lateWriters' = {}
  BY DEF EditsInv
<1>10. ASSUME latest' # NoOne, ~disturbed' PROVE WholeInv(latest)'
  <2>1. latest \in Calls /\ WholeInv(latest)
    BY <1>10 DEF EditsInv, EditsTypeOK
  <2>2. CASE latest = c
    <3> DEFINE k == Len(job[c]) - Len(rest[c])
    <3>1. /\ a = Missing => base[f] # Missing
          /\ k \in Nat /\ k < Len(job[c])
          /\ rest'[c] = SubSeq(job[c], k + 2, Len(job[c]))
          /\ Outcome(base, SubSeq(job[c], 1, k + 1))
                 = [Outcome(base, SubSeq(job[c], 1, k)) EXCEPT ![f] = a]
      BY <1>2, <1>10, <2>2
    <3>2. /\ files = base /\ DeletesExisting(p)
          /\ Outcome(base, SubSeq(job[c], 1, k)) = Made(base, p, Len(p))
      BY <2>1, <2>2 DEF WholeInv, p
    <3>3. Outcome(base, SubSeq(job[c], 1, k + 1)) = Made(base, q, Len(q))
      BY <1>1, <3>1, <3>2, CallFacts
    <3>4. DeletesExisting(plan[c])'
      BY <1>1, <1>2, <3>1, <3>2 DEF DeletesExisting
    <3>5. Len(job[c]) \in Nat /\ Len(rest[c]) \in Nat /\ Len(rest[c]) > 0
          /\ job[c] = SubSeq(job[c], 1, Len(job[c])) /\ Len(rest'[c]) = Len(rest[c]) - 1
      BY <1>2, <1>3, CallFacts DEF IsRest, IsJob
    <3>0. \A n, r \in Nat : /\ n - (r - 1) = (n - r) + 1
                            /\ (n - r) + 1 + 1 = (n - r) + 2
                            /\ (n - r) \in Nat => r - 1 <= n
                            /\ r > 0 /\ ~(r > 1) => (n - r) + 1 = n
      OBVIOUS
    <3>6. CASE Len(rest[c]) > 1
      <4>1. doing'[c] = "planning"
        BY <1>2, <3>6
      <4>2. Len(job[c]) - Len(rest'[c]) = k + 1 /\ k + 1 + 1 = k + 2 /\ Len(rest'[c]) <= Len(job[c])
        BY <3>0, <3>1, <3>5
      <4> HIDE DEF k
      <4> QED
        BY <1>2, <1>3, <2>2, <3>1, <3>2, <3>3, <3>4, <4>1, <4>2 DEF WholeInv, IsRead
    <3>7. CASE ~(Len(rest[c]) > 1)
      <4>1. doing'[c] = "landing"
        BY <1>2, <3>7
      <4>2. SubSeq(job[c], 1, k + 1) = job[c]
        <5>1. k + 1 = Len(job[c])
          BY <3>0, <3>5, <3>7
        <5> QED
          BY <3>5, <5>1
      <4>3. Made(base, q, 0) = files
        BY <3>2, CallFacts, MadeOfNothing
      <4> HIDE DEF k
      <4> QED
        BY <1>2, <1>3, <2>2, <3>2, <3>3, <3>4, <4>1, <4>2, <4>3 DEF WholeInv, IsRead
    <3> QED
      BY <3>6, <3>7
  <2>3. CASE latest # c
    BY <1>2, <2>1, <2>3, SameWholeKeeps
  <2> QED
    BY <2>2, <2>3
<1> QED
  BY <1>5, <1>6, <1>7, <1>8, <1>9, <1>10 DEF EditsInv

\* The operation that is planned next, by its type.
LEMMA NextOperationTypes ==
    ASSUME EditsInv, NEW c \in Calls, doing[c] = "planning"
    PROVE  LET op == Head(rest[c])
           IN  /\ op = rest[c][1] /\ op.file \in Files
               /\ op.type \in {"add", "write", "overwrite"} => op.text \in Seq(Lines)
               /\ op.type = "update" => op.hunks \in Hunks
               /\ op.type = "write" => op \in Writes /\ Len(rest[c]) = 1
               /\ op.type = "overwrite" => op \in Overwrites /\ Len(rest[c]) = 1
<1> DEFINE op == Head(rest[c])
<1>1. IsRest(rest[c]) /\ rest[c] # <<>>
  BY CallFacts DEF CallInv
<1>2. op = rest[c][1]
  OBVIOUS
<1> HIDE DEF op
<1>3. CASE rest[c] \in Seq(Operations)
  <2>1. op \in Operations
    <3> DEFINE V == Operations
    <3>1. rest[c] \in Seq(V)
      BY <1>3
    <3> HIDE DEF V
    <3>2. rest[c][1] \in V
      BY <1>1, <3>1
    <3> QED
      BY <1>2, <3>2 DEF V
  <2> QED
    BY <1>2, <2>1 DEF Operations, op
<1>4. CASE rest[c] \in Seq(Writes \union Reads \union Overwrites) /\ Len(rest[c]) = 1
  <2>1. op \in Writes \union Reads \union Overwrites
    <3> DEFINE V == Writes \union Reads \union Overwrites
    <3>1. rest[c] \in Seq(V)
      BY <1>4
    <3> HIDE DEF V
    <3>2. rest[c][1] \in V
      BY <1>1, <3>1
    <3> QED
      BY <1>2, <3>2 DEF V
  <2>2. op.type \in {"write", "read", "overwrite"} /\ op.file \in Files
    BY <2>1 DEF Writes, Reads, Overwrites
  <2>3. op.type = "write" => op \in Writes
    BY <2>1 DEF Writes, Reads, Overwrites
  <2>4. op.type = "overwrite" => op \in Overwrites
    BY <2>1 DEF Writes, Reads, Overwrites
  <2>5. op.type \in {"write", "overwrite"} => op.text \in Seq(Lines)
    BY <2>3, <2>4 DEF Writes, Overwrites
  <2> QED
    BY <1>2, <1>4, <2>2, <2>3, <2>4, <2>5 DEF op
<1> QED
  BY <1>1, <1>3, <1>4 DEF IsRest

\* The elements of a job, whatever the call is.
LEMMA JobFacts ==
    ASSUME NEW j, IsJob(j)
    PROVE  /\ j \in Seq(Operations \union Writes \union Reads) /\ Len(j) \in Nat /\ Len(j) > 0
           /\ \A i \in 1..Len(j) : j[i].type # "overwrite"
           /\ \A i \in 1..Len(j) : j[i].type = "write" => Len(j) = 1
<1> DEFINE V == Operations \union Writes \union Reads
<1>1. j \in Seq(V) /\ j # <<>>
  BY DEF IsJob
<1> HIDE DEF V
<1>2. Len(j) \in Nat /\ Len(j) > 0 /\ \A i \in 1..Len(j) : j[i] \in V
  BY <1>1
<1>3. \A e \in V : e.type # "overwrite"
  BY DEF V, Operations, Writes, Reads
<1>4. CASE j \in Seq(Operations)
  <2> DEFINE W == Operations
  <2>1. j \in Seq(W)
    BY <1>4
  <2> HIDE DEF W
  <2>2. \A i \in 1..Len(j) : j[i] \in W
    BY <2>1
  <2>3. \A e \in W : e.type # "write"
    BY DEF W, Operations
  <2> QED
    BY <1>1, <1>2, <1>3, <2>2, <2>3 DEF V
<1>5. CASE Len(j) = 1
  BY <1>1, <1>2, <1>3, <1>5 DEF V
<1> QED
  BY <1>4, <1>5 DEF IsJob

\* What the plan has come to, and what the next operation is to do to it.
LEMMA NextOperation ==
    ASSUME EditsInv, NEW c \in Calls, doing[c] = "planning", latest = c, ~disturbed
    PROVE  LET op == rest[c][1]
               k == Len(job[c]) - Len(rest[c])
               made == Made(base, plan[c], Len(plan[c]))
           IN  /\ files = base /\ made \in [Files -> Contents] /\ made # Missing
               /\ k \in Nat /\ k < Len(job[c])
               /\ Tail(rest[c]) = SubSeq(job[c], k + 2, Len(job[c]))
               /\ Outcome(base, SubSeq(job[c], 1, k)) = made
               /\ Outcome(base, SubSeq(job[c], 1, k + 1)) = Applied(made, job[c][k + 1])
               /\ op.type # "overwrite" => op = job[c][k + 1] /\ rest[c] = SubSeq(job[c], k + 1, Len(job[c]))
               /\ op.type = "overwrite" => /\ job[c] = <<[op EXCEPT !.type = "write"]>>
                                           /\ k = 0 /\ job[c][1].overwrite
               /\ op.type \in {"write", "overwrite"} => k = 0 /\ made = base
<1> DEFINE op == rest[c][1]
           k == Len(job[c]) - Len(rest[c])
           made == Made(base, plan[c], Len(plan[c]))
           n == Len(job[c])
<1>1. WholeInv(c) /\ IsJob(job[c]) /\ rest[c] # <<>> /\ IsRest(rest[c])
  BY CallFacts DEF EditsInv, NoOne, Calls, CallInv
<1>2. /\ files = base /\ Len(rest[c]) <= Len(job[c])
      /\ \/ rest[c] = SubSeq(job[c], k + 1, Len(job[c]))
         \/ /\ k = 0 /\ op.type = "overwrite"
            /\ job[c] = <<[op EXCEPT !.type = "write"]>>
            /\ job[c][1].overwrite
      /\ Outcome(base, SubSeq(job[c], 1, k)) = made
  BY <1>1 DEF WholeInv
<1>3. Len(rest[c]) \in Nat /\ Len(rest[c]) > 0
  BY <1>1 DEF IsRest
<1>4. /\ job[c] \in Seq(Operations \union Writes \union Reads) /\ n \in Nat /\ n > 0
      /\ \A i \in 1..n : job[c][i].type # "overwrite"
      /\ \A i \in 1..n : job[c][i].type = "write" => n = 1
  BY <1>1, JobFacts
<1>5. k \in Nat /\ k < n /\ k + 1 \in 1..n
  <2> DEFINE r == Len(rest[c])
  <2>1. n \in Nat /\ r \in Nat /\ r > 0 /\ r <= n /\ k = n - r
    BY <1>2, <1>3, <1>4
  <2> HIDE DEF n, r, k
  <2> QED
    BY <2>1
<1>6. made \in [Files -> Contents] /\ made # Missing
  <2>1. Len(plan[c]) \in 0..Len(plan[c])
    BY CallFacts
  <2> QED
    BY <2>1, CallFacts, MadeTypes, FileAssumption
<1>7. Outcome(base, SubSeq(job[c], 1, k + 1)) = Applied(made, job[c][k + 1])
  <2> DEFINE V == Operations \union Writes \union Reads
  <2>1. job[c] \in Seq(V)
    BY <1>4
  <2> HIDE DEF V, made, k, n
  <2>2. Outcome(base, SubSeq(job[c], 1, k + 1))
            = AppliedNext(Outcome(base, SubSeq(job[c], 1, k)), job[c][k + 1])
    BY <1>5, <2>1, OutcomeOfNext DEF n
  <2> QED
    BY <1>2, <1>6, <2>2 DEF AppliedNext
<1> HIDE DEF made, k, n, op
<1>8. CASE rest[c] = SubSeq(job[c], k + 1, Len(job[c]))
  <2>1. op = job[c][k + 1] /\ Tail(rest[c]) = SubSeq(job[c], k + 2, Len(job[c]))
    <3> DEFINE V == Operations \union Writes \union Reads
    <3>1. job[c] \in Seq(V) /\ n = Len(job[c])
      BY <1>4 DEF n
    <3> HIDE DEF V
    <3> QED
      BY <1>5, <1>8, <3>1 DEF op
  <2>2. op.type # "overwrite"
    BY <1>4, <1>5, <2>1
  <2>3. op.type = "write" => k = 0
    BY <1>4, <1>5, <2>1
  <2>4. k = 0 => made = base
    <3>1. SubSeq(job[c], 1, 0) = <<>>
      BY <1>4
    <3> QED
      BY <1>2, <3>1, OutcomeOfNothing
  <2> QED
    BY <1>2, <1>5, <1>6, <1>7, <1>8, <2>1, <2>2, <2>3, <2>4 DEF made, k, n, op
<1>9. CASE /\ k = 0 /\ op.type = "overwrite"
           /\ job[c] = <<[op EXCEPT !.type = "write"]>>
           /\ job[c][1].overwrite
  <2>1. Len(job[c]) = 1 /\ Len(rest[c]) = 1
    BY <1>3, <1>4, <1>9 DEF k, n
  <2>2. Tail(rest[c]) = SubSeq(job[c], k + 2, Len(job[c])) /\ SubSeq(job[c], 1, 0) = <<>>
    <3> DEFINE V == Operations \union Writes \union Reads
               W == Writes \union Reads \union Overwrites
    <3>1. job[c] \in Seq(V)
      BY <1>4
    <3>2. \E X : rest[c] \in Seq(X)
      BY <1>1 DEF IsRest
    <3> HIDE DEF V
    <3>3. SubSeq(job[c], 2, 1) = <<>> /\ SubSeq(job[c], 1, 0) = <<>>
      BY <3>1
    <3>4. Tail(rest[c]) = <<>>
      <4>1. PICK X : rest[c] \in Seq(X)
        BY <3>2
      <4> QED
        BY <1>1, <2>1, <4>1, TailTypes
    <3>5. k + 2 = 2 /\ Len(job[c]) = 1
      BY <1>9, <2>1
    <3> QED
      BY <3>3, <3>4, <3>5
  <2>3. made = base
    BY <1>2, <1>9, <2>2, OutcomeOfNothing
  <2> QED
    BY <1>2, <1>5, <1>6, <1>7, <1>9, <2>2, <2>3 DEF made, k, n, op
<1> QED
  BY <1>2, <1>8, <1>9

\* The next operation plans the change a of its file, which is what it is to do
\* to what the operations before it have come to.
LEMMA NextPlannedKeeps ==
    ASSUME EditsInv, NEW c \in Calls, doing[c] = "planning", c \notin abandoned,
           NEW a \in Contents, Planned(c, PutPlan(c, Head(rest[c]).file, a)),
           UNCHANGED <<files, cache, job, landed, cur, abandoned, mishaps, ghostVars>>,
           latest = c /\ ~disturbed =>
               LET f == Head(rest[c]).file
                   k == Len(job[c]) - Len(rest[c])
                   made == Made(base, plan[c], Len(plan[c]))
               IN  /\ a = Missing => base[f] # Missing
                   /\ Applied(made, job[c][k + 1]) = [made EXCEPT ![f] = a]
    PROVE  EditsInv'
<1> DEFINE f == Head(rest[c]).file
           k == Len(job[c]) - Len(rest[c])
           made == Made(base, plan[c], Len(plan[c]))
<1>1. f \in Files
  BY NextOperationTypes
<1>2. ASSUME latest = c, ~disturbed
      PROVE  /\ a = Missing => base[f] # Missing
             /\ k \in Nat /\ k < Len(job[c])
             /\ Tail(rest[c]) = SubSeq(job[c], k + 2, Len(job[c]))
             /\ Outcome(base, SubSeq(job[c], 1, k + 1))
                    = [Outcome(base, SubSeq(job[c], 1, k)) EXCEPT ![f] = a]
  <2>1. /\ a = Missing => base[f] # Missing
        /\ Applied(made, job[c][k + 1]) = [made EXCEPT ![f] = a]
    BY <1>2
  <2>2. /\ k \in Nat /\ k < Len(job[c])
        /\ Tail(rest[c]) = SubSeq(job[c], k + 2, Len(job[c]))
        /\ Outcome(base, SubSeq(job[c], 1, k)) = made
        /\ Outcome(base, SubSeq(job[c], 1, k + 1)) = Applied(made, job[c][k + 1])
    BY <1>2, NextOperation
  <2> HIDE DEF f, k, made
  <2> QED
    BY <2>1, <2>2
<1>3. Planned(c, PutPlan(c, f, a))
  OBVIOUS
<1> HIDE DEF f
<1> QED
  BY <1>1, <1>2, <1>3, PlannedKeeps

\* What a patch finds of a file is what its operations so far have made of it.
LEMMA ExistingSoFar ==
    ASSUME EditsInv, NEW c \in Calls, doing[c] = "planning", NEW f \in Files
    PROVE  /\ Existing(c, f) \in Contents /\ files[f] \in Contents
           /\ latest = c /\ ~disturbed =>
                /\ Made(base, plan[c], Len(plan[c]))[f] = Existing(c, f) /\ files = base
                /\ PlanOf(c, f) = {} => Existing(c, f) = base[f]
<1>1. /\ plan[c] \in Seq(Planning) /\ OnePlace(plan[c]) /\ files \in [Files -> Contents]
      /\ Len(plan[c]) \in 0..Len(plan[c])
  BY CallFacts
<1>2. Existing(c, f) = Made(files, plan[c], Len(plan[c]))[f]
  BY <1>1, ExistingIsMade
<1>3. Made(files, plan[c], Len(plan[c])) \in [Files -> Contents]
  BY <1>1, MadeTypes
<1>4. latest = c /\ ~disturbed => files = base
  BY NextOperation
<1>5. PlanOf(c, f) = {} => Existing(c, f) = files[f]
  BY DEF Existing
<1> QED
  BY <1>1, <1>2, <1>3, <1>4, <1>5

LEMMA TextsAreContents ==
    ASSUME NEW t \in Seq(Lines)
    PROVE  t \in Contents /\ t # Missing
  BY FileAssumption DEF Contents

LEMMA PlanAddKeeps ==
    ASSUME EditsInv, NEW c \in Calls, doing[c] = "planning", c \notin abandoned,
           Head(rest[c]).type = "add", PlanAdd(c, Head(rest[c])),
           UNCHANGED <<files, cache, job, landed, cur, abandoned, mishaps, ghostVars>>
    PROVE  EditsInv'
<1> DEFINE op == Head(rest[c])
           f == op.file
           k == Len(job[c]) - Len(rest[c])
           made == Made(base, plan[c], Len(plan[c]))
<1>1. op = rest[c][1] /\ f \in Files /\ op.text \in Contents /\ op.text # Missing
  BY NextOperationTypes, TextsAreContents
<1>2. CASE files[f] = Missing /\ PlanOf(c, f) = {}
  <2>1. Planned(c, PutPlan(c, f, op.text))
    BY <1>2 DEF PlanAdd
  <2>2. ASSUME latest = c, ~disturbed
        PROVE  Applied(made, job[c][k + 1]) = [made EXCEPT ![f] = op.text]
    <3>1. made[f] = Missing
      BY <1>1, <1>2, <2>2, ExistingSoFar
    <3>2. op = job[c][k + 1] /\ op.type = "add"
      BY <1>1, <2>2, NextOperation
    <3> HIDE DEF made, k, op
    <3> QED
      BY <3>1, <3>2 DEF Applied
  <2> HIDE DEF made, k
  <2> QED
    BY <1>1, <2>1, <2>2, NextPlannedKeeps DEF made, k
<1>3. CASE ~(files[f] = Missing /\ PlanOf(c, f) = {})
  BY <1>3, FailKeeps DEF PlanAdd
<1> QED
  BY <1>2, <1>3

LEMMA PlanDeleteKeeps ==
    ASSUME EditsInv, NEW c \in Calls, doing[c] = "planning", c \notin abandoned,
           Head(rest[c]).type = "delete", PlanDelete(c, Head(rest[c])),
           UNCHANGED <<files, cache, job, landed, cur, abandoned, mishaps, ghostVars>>
    PROVE  EditsInv'
<1> DEFINE op == Head(rest[c])
           f == op.file
           k == Len(job[c]) - Len(rest[c])
           made == Made(base, plan[c], Len(plan[c]))
<1>1. op = rest[c][1] /\ f \in Files /\ Missing \in Contents
  BY NextOperationTypes DEF Contents
<1>2. CASE files[f] # Missing /\ Existing(c, f) # Missing
  <2>1. Planned(c, PutPlan(c, f, Missing))
    BY <1>2 DEF PlanDelete
  <2>2. ASSUME latest = c, ~disturbed
        PROVE  base[f] # Missing /\ Applied(made, job[c][k + 1]) = [made EXCEPT ![f] = Missing]
    <3>1. made[f] # Missing /\ base[f] # Missing
      BY <1>1, <1>2, <2>2, ExistingSoFar
    <3>2. op = job[c][k + 1] /\ op.type = "delete"
      BY <1>1, <2>2, NextOperation
    <3> HIDE DEF made, k, op
    <3> QED
      BY <3>1, <3>2 DEF Applied
  <2> HIDE DEF made, k
  <2> QED
    BY <1>1, <2>1, <2>2, NextPlannedKeeps DEF made, k
<1>3. CASE ~(files[f] # Missing /\ Existing(c, f) # Missing)
  BY <1>3, FailKeeps DEF PlanDelete
<1> QED
  BY <1>2, <1>3

LEMMA PlanUpdateKeeps ==
    ASSUME EditsInv, NEW c \in Calls, doing[c] = "planning", c \notin abandoned,
           Head(rest[c]).type = "update", PlanUpdate(c, Head(rest[c])),
           UNCHANGED <<files, cache, job, landed, cur, abandoned, mishaps, ghostVars>>
    PROVE  EditsInv'
<1> DEFINE op == Head(rest[c])
           f == op.file
           k == Len(job[c]) - Len(rest[c])
           made == Made(base, plan[c], Len(plan[c]))
           next == ApplyHunks(Existing(c, f), op.hunks)
<1>1. op = rest[c][1] /\ f \in Files /\ op.hunks \in Hunks
  BY NextOperationTypes
<1>2. next \in Contents
  BY <1>1, ExistingSoFar, ApplyHunksTypes
<1>3. CASE files[f] # Missing /\ next # Missing
  <2>1. Planned(c, PutPlan(c, f, next))
    BY <1>3 DEF PlanUpdate
  <2>2. ASSUME latest = c, ~disturbed
        PROVE  Applied(made, job[c][k + 1]) = [made EXCEPT ![f] = next]
    <3>1. next = ApplyHunks(made[f], op.hunks)
      BY <1>1, <2>2, ExistingSoFar
    <3>2. op = job[c][k + 1] /\ op.type = "update"
      BY <1>1, <2>2, NextOperation
    <3> HIDE DEF made, k, op, next
    <3> QED
      BY <1>3, <3>1, <3>2 DEF Applied
  <2> HIDE DEF made, k, next
  <2> QED
    BY <1>1, <1>2, <1>3, <2>1, <2>2, NextPlannedKeeps DEF made, k
<1>4. CASE ~(files[f] # Missing /\ next # Missing)
  BY <1>4, FailKeeps DEF PlanUpdate
<1> QED
  BY <1>3, <1>4

LEMMA PlanWriteKeeps ==
    ASSUME EditsInv, NEW c \in Calls, doing[c] = "planning", c \notin abandoned,
           Head(rest[c]).type = "write", PlanWrite(c, Head(rest[c])),
           UNCHANGED <<files, cache, job, landed, cur, abandoned, mishaps, ghostVars>>
    PROVE  EditsInv'
<1> DEFINE op == Head(rest[c])
           f == op.file
           k == Len(job[c]) - Len(rest[c])
           made == Made(base, plan[c], Len(plan[c]))
           over == [op EXCEPT !.type = "overwrite"]
<1>1. /\ op = rest[c][1] /\ f \in Files /\ op.text \in Contents /\ op.text # Missing
      /\ op \in Writes /\ Len(rest[c]) = 1
  BY NextOperationTypes, TextsAreContents
<1>2. CASE files[f] = Missing
  <2>1. Planned(c, PutPlan(c, f, op.text))
    BY <1>2 DEF PlanWrite
  <2>2. ASSUME latest = c, ~disturbed
        PROVE  Applied(made, job[c][k + 1]) = [made EXCEPT ![f] = op.text]
    <3>1. files = base /\ op = job[c][k + 1] /\ op.type = "write" /\ made = base
      BY <1>1, <2>2, NextOperation
    <3>2. made[f] = Missing
      BY <1>2, <3>1
    <3> HIDE DEF made, k, op
    <3> QED
      BY <3>1, <3>2 DEF Applied
  <2> HIDE DEF made, k
  <2> QED
    BY <1>1, <2>1, <2>2, NextPlannedKeeps DEF made, k
<1>3. CASE files[f] # Missing /\ ~op.overwrite
  BY <1>3, FailKeeps DEF PlanWrite
<1>4. CASE files[f] # Missing /\ op.overwrite
  <2> USE DEF ghostVars
  <2>1. rest' = [rest EXCEPT ![c] = <<over>>] /\ UNCHANGED <<doing, plan>>
    BY <1>4 DEF PlanWrite
  <2>2. over \in Overwrites /\ over.type = "overwrite" /\ op = [over EXCEPT !.type = "write"]
    BY <1>1 DEF Writes, Overwrites
  <2>3. <<over>> \in Seq(Writes \union Reads \union Overwrites) /\ Len(<<over>>) = 1
        /\ <<over>>[1] = over /\ <<over>> # <<>>
    <3> DEFINE V == Writes \union Reads \union Overwrites
    <3>1. over \in V
      BY <2>2
    <3> HIDE DEF V, over
    <3> QED
      BY <3>1 DEF V
  <2> HIDE DEF over, op
  <2>4. /\ rest' \in [Calls -> Seq(Operations) \union Seq(Writes \union Reads \union Overwrites)]
        /\ rest'[c] = <<over>> /\ \A d \in Calls \ {c} : CallSame(d)
    BY <2>1, <2>3, CallFacts DEF CallSame
  <2>5. CallTypes' /\ EditsTypeOK' /\ lateWriters' = {}
    BY <2>1, <2>4 DEF EditsInv, CallTypes, EditsTypeOK
  <2>6. ASSUME NEW d \in Calls PROVE CallInv(d)' /\ LastWrite(d)'
    <3>1. CASE d = c
      <4>1. CallInv(c) /\ LastWrite(c)
        BY CallFacts
      <4>2. IsRest(rest'[c]) /\ rest'[c] # <<>> /\ rest'[c][1].type # "read"
        BY <2>2, <2>3, <2>4 DEF IsRest
      <4>3. CallInv(c)'
        BY <2>1, <4>1, <4>2 DEF CallInv, IsRead
      <4> QED
        BY <2>1, <3>1, <4>1, <4>3 DEF LastWrite
    <3>2. CASE d # c
      BY <2>4, <3>2, SameCallKeeps
    <3> QED
      BY <3>1, <3>2
  <2>7. CacheInv' /\ StubsAreBacked'
    <3>1. \A d \in Calls : doing[d] \in {"landing", "done"} => d # c
      OBVIOUS
    <3> QED
      BY <2>1, <2>4, <3>1, SameCacheKeeps
  <2>8. ASSUME latest' # NoOne, ~disturbed' PROVE WholeInv(latest)'
    <3>1. latest \in Calls /\ WholeInv(latest)
      BY <2>8 DEF EditsInv, EditsTypeOK
    <3>2. CASE latest = c
      <4>1. op = job[c][k + 1] /\ k = 0 /\ k < Len(job[c]) /\ made = base
        BY <1>1, <2>8, <3>2, NextOperation DEF op
      <4>2. Len(job[c]) = 1 /\ Len(job[c]) - 1 = 0
        BY <1>1, <4>1, CallFacts, JobFacts DEF CallInv
      <4>3. job[c] = <<op>>
        <5> DEFINE V == Operations \union Writes \union Reads
        <5>1. job[c] \in Seq(V)
          BY CallFacts, JobFacts DEF CallInv
        <5>2. job[c][1] = op
          <6> HIDE DEF k
          <6> QED
            BY <4>1
        <5> HIDE DEF V
        <5> QED
          BY <4>2, <5>1, <5>2
      <4>4. job'[c] = <<[rest'[c][1] EXCEPT !.type = "write"]>> /\ job'[c][1].overwrite
        <5>1. job'[c] = <<op>> /\ job'[c][1] = op
          BY <4>3
        <5>2. rest'[c][1] = over
          BY <2>3, <2>4
        <5> QED
          BY <1>4, <2>2, <5>1, <5>2
      <4> HIDE DEF k, made
      <4>5. Len(job'[c]) - Len(rest'[c]) = 0 /\ Len(rest'[c]) <= Len(job'[c])
        BY <2>3, <2>4, <4>2
      <4> QED
        BY <2>1, <2>2, <2>3, <2>4, <3>1, <3>2, <4>1, <4>4, <4>5
           DEF WholeInv, DeletesExisting, IsRead, k
    <3>3. CASE latest # c
      BY <2>1, <2>4, <3>1, <3>3, SameWholeKeeps
    <3> QED
      BY <3>2, <3>3
  <2> QED
    BY <2>5, <2>6, <2>7, <2>8 DEF EditsInv
<1> QED
  BY <1>2, <1>3, <1>4

LEMMA PlanOverwriteKeeps ==
    ASSUME EditsInv, NEW c \in Calls, doing[c] = "planning", c \notin abandoned,
           Head(rest[c]).type = "overwrite", PlanOverwrite(c, Head(rest[c])),
           UNCHANGED <<files, cache, job, landed, cur, abandoned, mishaps, ghostVars>>
    PROVE  EditsInv'
<1> DEFINE op == Head(rest[c])
           f == op.file
           k == Len(job[c]) - Len(rest[c])
           made == Made(base, plan[c], Len(plan[c]))
<1>1. /\ op = rest[c][1] /\ f \in Files /\ op.text \in Contents /\ op.text # Missing
      /\ op \in Overwrites
  BY NextOperationTypes, TextsAreContents
<1>2. CASE files[f] # Missing
  <2>1. Planned(c, PutPlan(c, f, op.text))
    BY <1>2 DEF PlanOverwrite
  <2>2. ASSUME latest = c, ~disturbed
        PROVE  Applied(made, job[c][k + 1]) = [made EXCEPT ![f] = op.text]
    <3>1. job[c] = <<[op EXCEPT !.type = "write"]>> /\ k = 0 /\ job[c][1].overwrite
      BY <1>1, <2>2, NextOperation
    <3>2. LET w == job[c][k + 1]
          IN  w.type = "write" /\ w.overwrite /\ w.file = f /\ w.text = op.text
      <4> HIDE DEF k, op, f
      <4>1. job[c][k + 1] = [op EXCEPT !.type = "write"]
        BY <3>1
      <4> QED
        BY <1>1, <3>1, <4>1 DEF Overwrites, f
    <3> HIDE DEF made, k, op
    <3> QED
      BY <3>2 DEF Applied
  <2> HIDE DEF made, k
  <2> QED
    BY <1>1, <2>1, <2>2, NextPlannedKeeps DEF made, k
<1>3. CASE files[f] = Missing
  BY <1>3, FailKeeps DEF PlanOverwrite
<1> QED
  BY <1>2, <1>3

LEMMA PlanNextKeeps ==
    ASSUME EditsInv, NEW c \in Calls, PlanNext(c)
    PROVE  EditsInv'
<1>1. /\ doing[c] = "planning"
      /\ UNCHANGED <<files, cache, job, landed, cur, abandoned, mishaps, ghostVars>>
  BY DEF PlanNext
<1>2. CASE c \in abandoned
  BY <1>1, <1>2, FailKeeps DEF PlanNext
<1>3. CASE c \notin abandoned
  BY <1>1, <1>3, PlanAddKeeps, PlanDeleteKeeps, PlanUpdateKeeps, PlanWriteKeeps,
     PlanOverwriteKeeps DEF PlanNext
<1> QED
  BY <1>2, <1>3

LEMMA ExistingTypes ==
    ASSUME EditsInv, NEW c \in Calls, NEW f \in Files
    PROVE  Existing(c, f) \in Contents
<1>1. /\ plan[c] \in Seq(Planning) /\ OnePlace(plan[c]) /\ files \in [Files -> Contents]
      /\ Len(plan[c]) \in 0..Len(plan[c])
  BY CallFacts
<1>2. Made(files, plan[c], Len(plan[c])) \in [Files -> Contents]
  BY <1>1, MadeTypes
<1> QED
  BY <1>1, <1>2, ExistingIsMade

\* A call is begun.  One that changes files is the latest, and has done nothing.
LEMMA BeginKeeps ==
    ASSUME EditsInv, NEW c \in Calls, Begin(c)
    PROVE  EditsInv'
<1>1. PICK j \in Jobs[c] :
           /\ job' = [job EXCEPT ![c] = j] /\ rest' = [rest EXCEPT ![c] = j]
           /\ doing' = [doing EXCEPT ![c] = IF j[1].type = "read" THEN "reading" ELSE "planning"]
           /\ IF j[1].type = "read" THEN UNCHANGED <<base, latest, disturbed>>
              ELSE base' = files /\ latest' = c /\ disturbed' = (Running # {})
  BY DEF Begin
<1>2. /\ c = cur /\ doing[c] = "idle"
      /\ UNCHANGED <<files, cache, plan, landed, cur, abandoned, mishaps, stub, seen, lost,
                     under, lateWriters>>
  BY DEF Begin
<1>3. IsJob(j)
  BY FileAssumption
<1>4. /\ j \in Seq(Operations) \union Seq(Writes \union Reads) /\ j # <<>>
      /\ j \in Seq(Operations) \union Seq(Writes \union Reads \union Overwrites)
      /\ IsRest(j) /\ Len(j) \in Nat
      /\ \E X : j \in Seq(X)
  <2> DEFINE V == Operations
             W == Writes \union Reads
             U == Writes \union Reads \union Overwrites
  <2>1. j # <<>> /\ (j \in Seq(V) \/ (j \in Seq(W) /\ Len(j) = 1))
    BY <1>3 DEF IsJob
  <2>2. W \subseteq U
    OBVIOUS
  <2> HIDE DEF V, W, U
  <2>3. j \in Seq(W) => j \in Seq(U)
    BY <2>2
  <2>4. Len(j) \in Nat
    BY <2>1
  <2> QED
    BY <2>1, <2>3, <2>4 DEF IsRest, V, W, U
<1>5. /\ job[c] = <<>> /\ plan[c] = <<>> /\ landed[c] = 0 /\ under[c] = 0 /\ CallInv(c)
  <2>1. CallInv(c) /\ Len(<<>>) = 0
    BY CallFacts
  <2>2. job[c] = <<>> /\ plan[c] = <<>>
    BY <1>2, <2>1 DEF CallInv
  <2>3. landed[c] \in 0..0 /\ under[c] \in 0..0
    BY <2>1, <2>2 DEF CallInv
  <2> QED
    BY <2>1, <2>2, <2>3
<1>6. /\ job'[c] = j /\ rest'[c] = j
      /\ doing'[c] = IF j[1].type = "read" THEN "reading" ELSE "planning"
      /\ \A d \in Calls \ {c} : CallSame(d)
  BY <1>1, <1>2, CallFacts DEF CallSame
<1>7. CallTypes'
  BY <1>1, <1>2, <1>4 DEF EditsInv, CallTypes
<1>8. EditsTypeOK' /\ lateWriters' = {}
  <2>1. doing' \in [Calls -> {"idle", "planning", "landing", "reading", "done", "failed"}]
    BY <1>1, CallFacts
  <2>2. base' \in [Files -> Contents] /\ latest' \in Calls \union {NoOne} /\ disturbed' \in BOOLEAN
    BY <1>1 DEF EditsInv, EditsTypeOK
  <2> QED
    BY <1>2, <2>1, <2>2 DEF EditsInv, EditsTypeOK
<1>9. ASSUME NEW d \in Calls PROVE CallInv(d)' /\ LastWrite(d)'
  <2>1. CASE d = c
    <3>1. ~(c > cur) /\ ~(c < cur)
      BY <1>2 DEF Calls
    <3>2. CallInv(c)'
      BY <1>2, <1>3, <1>4, <1>5, <1>6, <3>1 DEF CallInv, IsRead
    <3>3. LastWrite(c)'
      BY <1>6 DEF LastWrite
    <3> QED
      BY <2>1, <3>2, <3>3
  <2>2. CASE d # c
    BY <1>2, <1>6, <2>2, SameCallKeeps
  <2> QED
    BY <2>1, <2>2
<1>10. CacheInv' /\ StubsAreBacked'
  <2>1. \A d \in Calls : doing[d] = "done" \/ doing'[d] \in {"landing", "done"} => d # c
    BY <1>2, <1>6
  <2> QED
    BY <1>2, <1>6, <2>1, SameCacheKeeps
<1>11. ASSUME latest' # NoOne, ~disturbed' PROVE WholeInv(latest)'
  <2>1. CASE j[1].type = "read"
    <3>1. latest' = latest /\ base' = base /\ latest \in Calls /\ WholeInv(latest)
      BY <1>1, <1>11, <2>1 DEF EditsInv, EditsTypeOK
    <3>2. latest # c
      BY <1>2, <3>1 DEF WholeInv
    <3> QED
      BY <1>2, <1>6, <3>1, <3>2, SameWholeKeeps
  <2>2. CASE j[1].type # "read"
    <3>1. latest' = c /\ base' = files
      BY <1>1, <2>2
    <3>2. Len(j) - Len(j) = 0 /\ Len(j) <= Len(j) /\ j = SubSeq(j, 0 + 1, Len(j))
          /\ SubSeq(j, 1, 0) = <<>>
      <4>1. PICK X : j \in Seq(X)
        BY <1>4
      <4> QED
        BY <1>4, <4>1
    <3>3. Made(files, <<>>, Len(<<>>)) = files /\ Outcome(files, <<>>) = files
      BY CallFacts, MadeOfNothing, OutcomeOfNothing
    <3>4. DeletesExisting(plan[c])'
      BY <1>2, <1>5 DEF DeletesExisting
    <3> QED
      BY <1>2, <1>4, <1>5, <1>6, <2>2, <3>1, <3>2, <3>3, <3>4 DEF WholeInv, IsRead
  <2> QED
    BY <2>1, <2>2
<1> QED
  BY <1>7, <1>8, <1>9, <1>10, <1>11 DEF EditsInv

\* A call that stops while it makes its changes.
LEMMA LandingStops ==
    ASSUME EditsInv, NEW c \in Calls, doing[c] = "landing", Fail(c),
           landed' = landed \/ landed' = [landed EXCEPT ![c] = landed[c] + 1],
           UNCHANGED <<cache, job, cur, abandoned, base, latest, stub, seen, lost, under, lateWriters>>,
           files' \in [Files -> Contents], mishaps' \in 0..MaxMishaps, disturbed' \in BOOLEAN,
           latest # NoOne /\ ~disturbed' => WholeInv(latest)'
    PROVE  EditsInv'
<1> USE DEF Fail
<1>1. /\ doing' = [doing EXCEPT ![c] = "failed"] /\ doing'[c] = "failed"
      /\ \A d \in Calls \ {c} : CallSame(d)
  BY CallFacts DEF CallSame
<1>2. CallInv(c) /\ landed[c] \in Nat /\ landed[c] < Len(plan[c])
  BY CallFacts DEF CallInv
<1>3. landed' \in [Calls -> Nat] /\ landed'[c] \in 0..Len(plan[c])
  <2>1. landed \in [Calls -> Nat] /\ Len(plan[c]) \in Nat
    BY CallFacts
  <2>2. landed[c] \in 0..Len(plan[c]) /\ landed[c] + 1 \in 0..Len(plan[c])
    BY <1>2, <2>1
  <2> QED
    BY <2>1, <2>2
<1>4. CallTypes'
  BY <1>3 DEF EditsInv, CallTypes
<1>5. ASSUME NEW d \in Calls PROVE CallInv(d)' /\ LastWrite(d)'
  <2>1. CASE d = c
    <3>1. IsJob(job[c]) /\ ~(c > cur)
      BY <1>2 DEF CallInv
    <3>2. CallInv(c)'
      BY <1>1, <1>2, <1>3, <3>1 DEF CallInv, IsRead
    <3>3. LastWrite(c)'
      BY <1>1 DEF LastWrite
    <3> QED
      BY <2>1, <3>2, <3>3
  <2>2. CASE d # c
    BY <1>1, <2>2, SameCallKeeps
  <2> QED
    BY <2>1, <2>2
<1>6. EditsTypeOK'
  <2>1. \A d \in Calls : landed'[d] \in 0..Len(plan'[d])
    BY <1>5 DEF CallInv
  <2>2. doing' \in [Calls -> {"idle", "planning", "landing", "reading", "done", "failed"}]
    BY <1>1, CallFacts
  <2> QED
    BY <2>1, <2>2 DEF EditsInv, EditsTypeOK
<1>7. CacheInv' /\ StubsAreBacked'
  <2>1. \A d \in Calls : doing[d] = "done" \/ doing'[d] \in {"landing", "done"} => d # c
    BY <1>1
  <2> QED
    BY <1>1, <2>1, SameCacheKeeps
<1> QED
  BY <1>4, <1>5, <1>6, <1>7 DEF EditsInv

\* The change that comes next, and what it makes of the files of a call that
\* nobody has disturbed: a file to delete is still there.
LEMMA NextChangeFacts ==
    ASSUME EditsInv, NEW c \in Calls, doing[c] = "landing"
    PROVE  LET n == landed[c] + 1
               file == plan[c][n].file
               after == plan[c][n].after
           IN  /\ n \in Nat /\ n \in 1..Len(plan[c]) /\ n \in DOMAIN plan[c]
               /\ file \in Files /\ after \in Contents
               /\ latest = c /\ ~disturbed =>
                    /\ after = Missing => files[file] # Missing
                    /\ [files EXCEPT ![file] = after] = Made(base, plan[c], n)
                    /\ Outcome(base, job[c]) = Made(base, plan[c], Len(plan[c]))
                    /\ DeletesExisting(plan[c])
<1> DEFINE m == landed[c]
           p == plan[c]
<1>1. /\ CallInv(c) /\ p \in Seq(Planning) /\ OnePlace(p) /\ base \in [Files -> Contents]
      /\ landed \in [Calls -> Nat]
  BY CallFacts
<1>2. m \in Nat /\ m < Len(p)
  BY <1>1 DEF CallInv
<1>3. latest = c /\ ~disturbed =>
        /\ DeletesExisting(p) /\ files = Made(base, p, m)
        /\ Outcome(base, job[c]) = Made(base, p, Len(p))
  <2>1. latest = c /\ ~disturbed => WholeInv(c)
    BY DEF EditsInv, Calls, NoOne
  <2> QED
    BY <2>1 DEF WholeInv
<1> HIDE DEF m, p
<1>4. /\ Made(base, p, m + 1) = [Made(base, p, m) EXCEPT ![p[m + 1].file] = p[m + 1].after]
      /\ Made(base, p, m)[p[m + 1].file] = base[p[m + 1].file]
      /\ p[m + 1].file \in Files /\ p[m + 1].after \in Contents
  BY <1>1, <1>2, MadeNext
<1>5. m + 1 \in Nat /\ m + 1 \in 1..Len(p) /\ m + 1 \in DOMAIN p
  BY <1>1, <1>2
<1>6. DeletesExisting(p) => (p[m + 1].after = Missing => base[p[m + 1].file] # Missing)
  BY <1>5 DEF DeletesExisting
<1> QED
  BY <1>3, <1>4, <1>5, <1>6 DEF m, p

LEMMA WriteFailsKeeps ==
    ASSUME EditsInv, NEW c \in Calls, WriteFails(c)
    PROVE  EditsInv'
<1> DEFINE f == plan[c][landed[c] + 1].file
<1>1. /\ doing[c] = "landing" /\ Fail(c) /\ disturbed' = TRUE /\ mishaps' = mishaps + 1
      /\ mishaps < MaxMishaps
      /\ \E t \in {files[f], <<>>} : files' = [files EXCEPT ![f] = t]
      /\ UNCHANGED <<cache, job, landed, cur, abandoned, base, latest, stub, seen, lost,
                     under, lateWriters>>
  BY DEF WriteFails
<1>2. f \in Files
  BY <1>1, NextChangeFacts
<1>3. <<>> \in Contents /\ files \in [Files -> Contents]
  BY CallFacts DEF Contents
<1> HIDE DEF f
<1>4. files' \in [Files -> Contents]
  BY <1>1, <1>2, <1>3
<1>5. mishaps' \in 0..MaxMishaps
  BY <1>1, FileAssumption DEF EditsInv, EditsTypeOK
<1> QED
  BY <1>1, <1>4, <1>5, LandingStops

\* A change is made and the call goes on, or ends, or is found aborted.
LEMMA LandingGoesOn ==
    ASSUME EditsInv, NEW c \in Calls, doing[c] = "landing",
           ~(plan[c][landed[c] + 1].after # Missing /\ c \in abandoned),
           NextChange(c, plan[c], landed[c] + 1),
           files' = [files EXCEPT ![plan[c][landed[c] + 1].file] = plan[c][landed[c] + 1].after],
           landed' = [landed EXCEPT ![c] = landed[c] + 1],
           cache' = Invalidated(plan[c][landed[c] + 1].file),
           disturbed' = (disturbed \/ c # latest),
           UNCHANGED <<job, plan, rest, cur, abandoned, mishaps, base, latest, stub, seen, lost,
                       under, lateWriters>>
    PROVE  EditsInv'
<1> DEFINE n == landed[c] + 1
           file == plan[c][n].file
           after == plan[c][n].after
<1>1. /\ n \in Nat /\ n \in 1..Len(plan[c]) /\ file \in Files /\ after \in Contents
      /\ latest = c /\ ~disturbed =>
           /\ files' = Made(base, plan[c], n)
           /\ Outcome(base, job[c]) = Made(base, plan[c], Len(plan[c]))
           /\ DeletesExisting(plan[c])
  BY NextChangeFacts
<1>2. /\ landed' = [landed EXCEPT ![c] = n] /\ landed' \in [Calls -> Nat] /\ landed'[c] = n
      /\ files' = [files EXCEPT ![file] = after] /\ files' \in [Files -> Contents]
      /\ cache' = [cache EXCEPT ![file] = Missing] /\ cache' \in [Files -> Contents]
      /\ CallInv(c) /\ cache \in [Files -> Contents] /\ Missing \in Contents
  <2>1. /\ landed \in [Calls -> Nat] /\ files \in [Files -> Contents]
        /\ cache \in [Files -> Contents] /\ Missing \in Contents
    BY CallFacts DEF Contents
  <2>2. /\ landed' = [landed EXCEPT ![c] = n] /\ files' = [files EXCEPT ![file] = after]
        /\ cache' = [cache EXCEPT ![file] = Missing]
    BY DEF Invalidated
  <2> HIDE DEF n, file, after
  <2>3. landed' \in [Calls -> Nat] /\ landed'[c] = n
    BY <1>1, <2>1, <2>2
  <2>4. files' \in [Files -> Contents] /\ cache' \in [Files -> Contents]
    BY <1>1, <2>1, <2>2
  <2>5. CallInv(c)
    BY CallFacts
  <2> QED
    BY <2>1, <2>2, <2>3, <2>4, <2>5
<1>3. /\ doing' \in [Calls -> {"idle", "planning", "landing", "reading", "done", "failed"}]
      /\ doing'[c] = IF n = Len(plan[c]) THEN "done"
                     ELSE IF plan[c][n + 1].after # Missing /\ c \in abandoned THEN "failed"
                     ELSE "landing"
      /\ \A d \in Calls \ {c} : CallSame(d)
  BY <1>2, CallFacts DEF NextChange, CallSame
<1>4. ~(after # Missing /\ c \in abandoned)
  OBVIOUS
<1> HIDE DEF n, file, after
<1>5. CallTypes'
  BY <1>2 DEF EditsInv, CallTypes
<1>6. ASSUME NEW d \in Calls PROVE CallInv(d)' /\ LastWrite(d)'
  <2>1. CASE d = c
    <3>1. n \in 0..Len(plan[c]) /\ (n # Len(plan[c]) => n < Len(plan[c]))
      BY <1>1, CallFacts
    <3>2. CallInv(c)'
      BY <1>2, <1>3, <3>1 DEF CallInv, IsRead
    <3>3. LastWrite(c)'
      BY <1>2, <1>3 DEF LastWrite
    <3> QED
      BY <2>1, <3>2, <3>3
  <2>2. CASE d # c
    BY <1>3, <2>2, SameCallKeeps
  <2> QED
    BY <2>1, <2>2
<1>7. EditsTypeOK' /\ lateWriters' = {}
  <2>1. \A d \in Calls : landed'[d] \in 0..Len(plan'[d])
    BY <1>6 DEF CallInv
  <2>2. disturbed' \in BOOLEAN
    BY DEF EditsInv, EditsTypeOK
  <2> QED
    BY <1>2, <1>3, <2>1, <2>2 DEF EditsInv, EditsTypeOK
<1>8. CacheInv /\ StubsAreBacked /\ ~IsRead(c) /\ stub \subseteq Calls
  BY <1>2 DEF EditsInv, EditsTypeOK, CallInv
<1>9. \A g \in Files : cache'[g] = IF g = file THEN Missing ELSE cache[g]
  BY <1>1, <1>2
<1>10. CacheInv'
  <2>1. ASSUME NEW g \in Files, cache'[g] # Missing, g \notin lost, cache'[g] # seen[g]
        PROVE  /\ cur \in Calls \ stub /\ doing'[cur] = "done" /\ IsRead(cur)'
               /\ job[cur][1].file = g /\ plan[cur][1].after = cache'[g]
    <3>1. /\ cur \in Calls \ stub /\ doing[cur] = "done" /\ IsRead(cur)
          /\ job[cur][1].file = g /\ plan[cur][1].after = cache[g]
      BY <1>8, <1>9, <2>1 DEF CacheInv
    <3>2. CallSame(cur)
      BY <1>3, <1>8, <3>1
    <3> QED
      BY <1>9, <2>1, <3>1, <3>2 DEF CallSame, IsRead
  <2>2. ASSUME NEW d \in stub PROVE d <= cur /\ doing'[d] = "done" /\ IsRead(d)'
    <3>1. d <= cur /\ doing[d] = "done" /\ IsRead(d)
      BY <1>8 DEF CacheInv
    <3>2. CallSame(d)
      BY <1>3, <1>8, <3>1
    <3> QED
      BY <3>1, <3>2 DEF CallSame, IsRead
  <2>3. ASSUME cur \in Calls, ~IsRead(cur), doing'[cur] \in {"landing", "done"}
        PROVE  \A i \in 1..landed'[cur] : cache'[plan[cur][i].file] = Missing
    <3>1. \A i \in 1..landed[cur] : cache[plan[cur][i].file] = Missing /\ plan[cur][i].file \in Files
      <4>1. doing[cur] \in {"landing", "done"}
        BY <1>3, <2>3 DEF CallSame
      <4>2. \A i \in 1..landed[cur] : cache[plan[cur][i].file] = Missing
        BY <1>8, <2>3, <4>1 DEF CacheInv
      <4>3. \A i \in 1..landed[cur] : i \in DOMAIN plan[cur]
        BY <2>3, CallFacts DEF CallInv
      <4> QED
        BY <2>3, <4>2, <4>3, CallFacts, ChangeTypes
    <3>2. CASE cur = c
      <4> SUFFICES ASSUME NEW i \in 1..n PROVE cache'[plan[c][i].file] = Missing
        BY <1>2, <3>2
      <4>1. i = n \/ i \in 1..landed[c]
        BY <1>1, CallFacts DEF n
      <4> QED
        BY <1>1, <1>9, <3>1, <3>2, <4>1 DEF file
    <3>3. CASE cur # c
      <4>1. landed'[cur] = landed[cur]
        BY <1>3, <2>3, <3>3 DEF CallSame
      <4> QED
        BY <1>9, <3>1, <4>1
    <3> QED
      BY <3>2, <3>3
  <2>4. ASSUME cur \in Calls, IsRead(cur), doing'[cur] = "done"
        PROVE  cache'[job[cur][1].file] \in {Missing, plan[cur][1].after}
    <3>1. doing[cur] = "done"
      BY <1>3, <1>8, <2>4 DEF CallSame
    <3>2. cache[job[cur][1].file] \in {Missing, plan[cur][1].after}
      BY <1>8, <2>4, <3>1 DEF CacheInv
    <3> QED
      BY <1>2, <3>2
  <2> QED
    BY <2>1, <2>2, <2>3, <2>4 DEF CacheInv, IsRead
<1>11. StubsAreBacked'
  BY <1>8 DEF StubsAreBacked
<1>12. ASSUME latest' # NoOne, ~disturbed' PROVE WholeInv(latest)'
  <2>1. latest = c /\ ~disturbed
    BY <1>12
  <2>2. DeletesExisting(plan[c])'
    BY <1>1, <2>1 DEF DeletesExisting
  <2> QED
    BY <1>1, <1>2, <1>3, <1>8, <2>1, <2>2 DEF WholeInv, IsRead
<1> QED
  BY <1>5, <1>6, <1>7, <1>10, <1>11, <1>12 DEF EditsInv

\* A change reaches the disk.  The write an aborted call was making is the one
\* it was making then.
LEMMA LandKeeps ==
    ASSUME EditsInv, NEW c \in Calls, Land(c)
    PROVE  EditsInv'
<1> DEFINE n == landed[c] + 1
           file == plan[c][n].file
           after == plan[c][n].after
<1>1. /\ doing[c] = "landing" /\ disturbed' = (disturbed \/ c # latest)
      /\ UNCHANGED <<job, cur, abandoned, mishaps, base, latest, stub, seen, lost, under>>
  BY DEF Land
<1>2. lateWriters' = lateWriters
  <2>1. c \in abandoned /\ after # Missing => n = under[c]
    BY <1>1, CallFacts DEF LastWrite
  <2>2. lateWriters' = IF c \in abandoned /\ after # Missing /\ n # under[c]
                       THEN lateWriters \union {c} ELSE lateWriters
    BY DEF Land
  <2> QED
    BY <2>1, <2>2
<1>3. /\ file \in Files /\ after \in Contents /\ files \in [Files -> Contents]
      /\ mishaps' \in 0..MaxMishaps /\ disturbed' \in BOOLEAN
  BY <1>1, NextChangeFacts DEF EditsInv, EditsTypeOK
<1>4. CASE after = Missing /\ files[file] = Missing
  <2>1. Fail(c) /\ UNCHANGED <<files, cache, landed>>
    BY <1>4 DEF Land
  <2>2. latest = c => disturbed
    BY <1>1, <1>4, NextChangeFacts
  <2> HIDE DEF n, file, after
  <2> QED
    BY <1>1, <1>2, <1>3, <2>1, <2>2, LandingStops
<1>5. CASE ~(after = Missing /\ files[file] = Missing) /\ after # Missing /\ c \in abandoned
  <2>1. /\ files' = [files EXCEPT ![file] = after] /\ landed' = [landed EXCEPT ![c] = n]
        /\ Fail(c) /\ UNCHANGED cache
    BY <1>5 DEF Land
  <2>2. files' \in [Files -> Contents]
    BY <1>3, <2>1
  <2>3. ASSUME latest # NoOne, ~disturbed' PROVE WholeInv(latest)'
    <3>1. latest = c /\ ~disturbed
      BY <1>1, <2>3
    <3>2. /\ files' = Made(base, plan[c], n)
          /\ Outcome(base, job[c]) = Made(base, plan[c], Len(plan[c]))
          /\ DeletesExisting(plan[c])
      BY <1>1, <2>1, <3>1, NextChangeFacts
    <3>3. landed'[c] = n /\ doing'[c] = "failed" /\ UNCHANGED <<plan, rest>> /\ ~IsRead(c)
      <4>1. CallInv(c) /\ c \in DOMAIN landed /\ c \in DOMAIN doing
        BY CallFacts
      <4> QED
        BY <1>1, <2>1, <4>1 DEF Fail, CallInv
    <3>4. DeletesExisting(plan[c])'
      BY <1>1, <3>2, <3>3 DEF DeletesExisting
    <3> HIDE DEF n
    <3> QED
      BY <1>1, <1>5, <3>1, <3>2, <3>3, <3>4 DEF WholeInv, IsRead
  <2> QED
    BY <1>1, <1>2, <1>3, <2>1, <2>2, <2>3, LandingStops
<1>6. CASE ~(after = Missing /\ files[file] = Missing) /\ ~(after # Missing /\ c \in abandoned)
  <2>1. /\ files' = [files EXCEPT ![file] = after] /\ landed' = [landed EXCEPT ![c] = n]
        /\ cache' = Invalidated(file) /\ NextChange(c, plan[c], n) /\ UNCHANGED <<plan, rest>>
    BY <1>6 DEF Land
  <2> QED
    BY <1>1, <1>2, <1>6, <2>1, LandingGoesOn
<1> QED
  BY <1>4, <1>5, <1>6

\* The read tool finds the file: the text is in the cache and, when it was there
\* before, a stub is answered.
LEMMA ReadFoundKeeps ==
    ASSUME EditsInv, NEW c \in Calls, doing[c] = "reading", c \notin abandoned,
           files[job[c][1].file] # Missing,
           doing' = [doing EXCEPT ![c] = "done"],
           plan' = [plan EXCEPT ![c] = <<[file |-> job[c][1].file, after |-> files[job[c][1].file]]>>],
           cache' = [cache EXCEPT ![job[c][1].file] = files[job[c][1].file]],
           stub' = IF Repeated(job[c][1].file) THEN stub \union {c} ELSE stub,
           UNCHANGED <<files, rest, job, landed, cur, abandoned, mishaps, base, latest, disturbed,
                       seen, lost, under, lateWriters>>
    PROVE  EditsInv'
<1> DEFINE f == job[c][1].file
           r == [file |-> f, after |-> files[f]]
<1>1. c = cur /\ CallInv(c) /\ IsRead(c) /\ plan[c] = <<>> /\ IsJob(job[c])
  BY RunningIsCurrent, CallFacts DEF CallInv
<1>2. f \in Files
  <2> DEFINE V == Operations \union Writes \union Reads
  <2>1. job[c] \in Seq(V) /\ job[c] # <<>>
    BY <1>1, JobFacts DEF IsRead
  <2> HIDE DEF V
  <2>2. job[c][1] \in V
    BY <2>1
  <2> QED
    BY <2>2 DEF V, Operations, Writes, Reads
<1>3. /\ landed[c] = 0 /\ under[c] = 0
  <2>1. Len(<<>>) = 0
    OBVIOUS
  <2>2. landed[c] \in 0..0 /\ under[c] \in 0..0
    BY <1>1, <2>1 DEF CallInv
  <2> QED
    BY <2>2
<1>4. /\ files \in [Files -> Contents] /\ cache \in [Files -> Contents]
      /\ files[f] \in Contents /\ files[f] # Missing
  BY <1>2, CallFacts
<1>5. r \in Planning /\ <<r>> \in Seq(Planning) /\ Len(<<r>>) = 1 /\ <<r>>[1] = r
      /\ r.file = f /\ r.after = files[f] /\ DOMAIN <<r>> = {1}
  BY <1>2, <1>4 DEF Planning
<1> HIDE DEF r
<1>6. /\ plan' \in [Calls -> Seq(Planning)] /\ plan'[c] = <<r>> /\ doing'[c] = "done"
      /\ \A d \in Calls \ {c} : CallSame(d)
      /\ doing' \in [Calls -> {"idle", "planning", "landing", "reading", "done", "failed"}]
  <2>1. plan' = [plan EXCEPT ![c] = <<r>>]
    BY DEF r
  <2> QED
    BY <1>5, <2>1, CallFacts DEF CallSame
<1>7. CallTypes'
  BY <1>6 DEF EditsInv, CallTypes
<1>8. ASSUME NEW d \in Calls PROVE CallInv(d)' /\ LastWrite(d)'
  <2>1. CASE d = c
    <3>1. ~(c > cur) /\ ~(c < cur)
      BY <1>1 DEF Calls
    <3>2. /\ \A i, k \in DOMAIN plan'[c] : i = k
          /\ landed'[c] \in 0..Len(plan'[c]) /\ under'[c] \in 0..Len(plan'[c])
          /\ Len(plan'[c]) = 1 /\ plan'[c][1].file = f /\ plan'[c][1].after # Missing
      BY <1>3, <1>4, <1>5, <1>6
    <3>3. CallInv(c)'
      BY <1>1, <1>6, <3>1, <3>2 DEF CallInv, IsRead
    <3>4. LastWrite(c)'
      BY <1>6 DEF LastWrite
    <3> QED
      BY <2>1, <3>3, <3>4
  <2>2. CASE d # c
    BY <1>6, <2>2, SameCallKeeps
  <2> QED
    BY <2>1, <2>2
<1>9. EditsTypeOK' /\ lateWriters' = {}
  <2>1. \A d \in Calls : landed'[d] \in 0..Len(plan'[d]) /\ under'[d] \in 0..Len(plan'[d])
    BY <1>8 DEF CallInv
  <2>2. \A d \in Calls : \A i \in DOMAIN plan'[d] :
            plan'[d][i].file \in Files /\ plan'[d][i].after \in Contents
    BY <1>6, ChangeTypes
  <2>3. cache' \in [Files -> Contents] /\ stub' \subseteq Calls
    BY <1>2, <1>4 DEF EditsInv, EditsTypeOK
  <2> QED
    BY <1>6, <2>1, <2>2, <2>3 DEF EditsInv, EditsTypeOK
<1>10. CacheInv /\ StubsAreBacked
  BY DEF EditsInv
<1>11. /\ \A d \in stub : d # c /\ d <= cur /\ doing'[d] = "done" /\ IsRead(d)'
       /\ \A g \in Files : cache[g] = Missing \/ g \in lost \/ cache[g] = seen[g]
       /\ \A g \in Files : cache'[g] = IF g = f THEN files[f] ELSE cache[g]
  <2>1. ASSUME NEW d \in stub PROVE d # c /\ d <= cur /\ doing'[d] = "done" /\ IsRead(d)'
    <3>1. d \in Calls /\ d # c /\ d <= cur /\ doing[d] = "done" /\ IsRead(d)
      BY <1>10 DEF CacheInv, EditsInv, EditsTypeOK
    <3> QED
      BY <1>6, <3>1 DEF CallSame, IsRead
  <2>2. \A g \in Files : cache[g] = Missing \/ g \in lost \/ cache[g] = seen[g]
    BY <1>1, <1>10 DEF CacheInv
  <2>3. \A g \in Files : cache'[g] = IF g = f THEN files[f] ELSE cache[g]
    BY <1>2, <1>4
  <2> QED
    BY <2>1, <2>2, <2>3
<1>12. IsRead(c)' /\ job'[c][1].file = f /\ plan'[c][1].after = files[f] /\ cur' = c
  BY <1>1, <1>5, <1>6 DEF IsRead
<1>13. Repeated(f) => cache[f] = files[f]
  BY DEF Repeated
<1>14. stub' = IF Repeated(f) THEN stub \union {c} ELSE stub
  OBVIOUS
<1> HIDE DEF f
<1>15. CacheInv'
  <2>1. ASSUME NEW g \in Files
        PROVE  \/ cache'[g] = Missing \/ g \in lost \/ cache'[g] = seen[g]
               \/ /\ c \notin stub' /\ g = f /\ cache'[g] = files[f]
    BY <1>11, <1>13, <1>14, <2>1
  <2>2. \A d \in stub' : d <= cur /\ doing'[d] = "done" /\ IsRead(d)'
    <3>1. c <= cur
      BY <1>1 DEF Calls
    <3> QED
      BY <1>6, <1>11, <1>12, <1>14, <3>1
  <2>3. cache'[f] = files[f]
    BY <1>2, <1>11
  <2> QED
    BY <1>1, <1>6, <1>12, <2>1, <2>2, <2>3 DEF CacheInv
<1>16. StubsAreBacked'
  <2> SUFFICES ASSUME NEW d \in stub', d = cur', job'[d][1].file \notin lost'
               PROVE  plan'[d][1].after = seen'[job'[d][1].file]
    BY DEF StubsAreBacked
  <2>1. d = c /\ Repeated(f)
    BY <1>1, <1>11, <1>14
  <2>2. cache[f] = files[f] /\ f \notin lost
    BY <1>12, <1>13, <2>1
  <2>3. files[f] = seen[f]
    BY <1>2, <1>4, <1>11, <2>2 DEF f
  <2> QED
    BY <1>12, <2>1, <2>3
<1>17. ASSUME latest' # NoOne, ~disturbed' PROVE WholeInv(latest)'
  <2>1. latest \in Calls /\ WholeInv(latest)
    BY <1>17 DEF EditsInv, EditsTypeOK
  <2>2. latest # c
    BY <2>1 DEF WholeInv
  <2> QED
    BY <1>6, <2>1, <2>2, SameWholeKeeps
<1> QED
  BY <1>7, <1>8, <1>9, <1>15, <1>16, <1>17 DEF EditsInv

LEMMA ReadFileKeeps ==
    ASSUME EditsInv, NEW c \in Calls, ReadFile(c)
    PROVE  EditsInv'
<1>1. /\ doing[c] = "reading"
      /\ UNCHANGED <<files, job, landed, cur, abandoned, mishaps, base, latest, disturbed,
                     seen, lost, under, lateWriters>>
  BY DEF ReadFile
<1>2. CASE c \in abandoned \/ files[job[c][1].file] = Missing
  <2>1. Fail(c) /\ UNCHANGED <<cache, stub>>
    BY <1>2 DEF ReadFile
  <2> QED
    BY <1>1, <2>1, FailKeeps DEF ghostVars
<1>3. CASE ~(c \in abandoned \/ files[job[c][1].file] = Missing)
  <2>1. /\ doing' = [doing EXCEPT ![c] = "done"] /\ UNCHANGED rest
        /\ plan' = [plan EXCEPT ![c] = <<[file |-> job[c][1].file, after |-> files[job[c][1].file]]>>]
        /\ cache' = [cache EXCEPT ![job[c][1].file] = files[job[c][1].file]]
        /\ stub' = IF Repeated(job[c][1].file) THEN stub \union {c} ELSE stub
    BY <1>3 DEF ReadFile
  <2> QED
    BY <1>1, <1>3, <2>1, ReadFoundKeeps
<1> QED
  BY <1>2, <1>3

\* What a step that leaves the calls and the files as they are keeps, when the
\* turn goes on to its next call.
LEMMA NextCallKeeps ==
    ASSUME EditsInv, cur \in Calls, doing[cur] # "idle", cur' = cur + 1,
           UNCHANGED <<files, cache, callVars, mishaps, base, latest, disturbed, stub, lateWriters>>,
           abandoned' = abandoned \/ abandoned' = abandoned \union {cur},
           cur \in abandoned' \/ doing[cur] \in {"done", "failed"},
           seen' \in [Files -> Contents], lost' \subseteq Files,
           under' = under \/ (doing[cur] = "landing"
                                /\ under' = [under EXCEPT ![cur] = landed[cur] + 1]),
           doing[cur] = "landing" /\ cur \in abandoned' => under'[cur] = landed[cur] + 1,
           \A g \in Files : cache[g] = Missing \/ g \in lost' \/ cache[g] = seen'[g]
    PROVE  EditsInv'
<1> USE DEF callVars
<1>1. /\ cur \in Nat /\ cur' \in 1..NCalls + 1 /\ abandoned \subseteq 1..cur - 1
      /\ abandoned' \subseteq 1..cur' - 1
  <2>1. cur \in Nat /\ cur >= 1 /\ cur <= NCalls /\ NCalls \in Nat
    BY FileAssumption DEF Calls
  <2>2. abandoned \subseteq 1..cur - 1
    BY CallFacts
  <2>3. cur' - 1 = cur /\ cur' \in 1..NCalls + 1 /\ 1..cur - 1 \subseteq 1..cur /\ cur \in 1..cur
    BY <2>1
  <2>4. abandoned' \subseteq 1..cur
    BY <2>2, <2>3
  <2> QED
    BY <2>1, <2>2, <2>3, <2>4
<1>2. under' \in [Calls -> Nat] /\ \A d \in Calls : d # cur => under'[d] = under[d]
  <2>1. under \in [Calls -> Nat] /\ landed[cur] + 1 \in Nat
    BY CallFacts
  <2> QED
    BY <2>1
<1>3. CallTypes'
  BY <1>2 DEF EditsInv, CallTypes
<1>4. ASSUME NEW d \in Calls PROVE CallInv(d)' /\ LastWrite(d)'
  <2>1. CallInv(d) /\ LastWrite(d) /\ d \in Nat
    BY CallFacts DEF Calls
  <2>2. under'[d] \in 0..Len(plan[d]) /\ (doing[d] = "planning" => under'[d] = under[d])
    <3>1. CASE d = cur /\ doing[cur] = "landing"
      <4>1. landed[d] < Len(plan[d]) /\ landed[d] \in Nat /\ under[d] \in 0..Len(plan[d])
            /\ Len(plan[d]) \in Nat
        BY <2>1, <3>1, CallFacts DEF CallInv
      <4>2. under'[d] = under[d] \/ under'[d] = landed[d] + 1
        BY <3>1, CallFacts
      <4> QED
        BY <3>1, <4>1, <4>2
    <3>2. CASE ~(d = cur /\ doing[cur] = "landing")
      BY <1>2, <2>1, <3>2 DEF CallInv
    <3> QED
      BY <3>1, <3>2
  <2>3. CallInv(d)'
    <3>1. /\ d > cur' => d > cur
          /\ d >= cur /\ d # cur => d >= cur'
          /\ d < cur' => d < cur \/ d = cur
      BY <1>1, <2>1
    <3>2. /\ d > cur' => doing[d] = "idle"
          /\ doing[d] = "idle" => d >= cur'
          /\ d < cur' => d \in abandoned' \/ doing[d] \in {"done", "failed"}
      BY <2>1, <3>1 DEF CallInv
    <3> QED
      BY <2>1, <2>2, <3>2 DEF CallInv, IsRead
  <2>4. LastWrite(d)'
    BY <1>2, <2>1 DEF LastWrite
  <2> QED
    BY <2>3, <2>4
<1>5. EditsTypeOK' /\ lateWriters' = {}
  <2>1. \A d \in Calls : under'[d] \in 0..Len(plan'[d])
    BY <1>4 DEF CallInv
  <2> QED
    BY <1>1, <2>1 DEF EditsInv, EditsTypeOK
<1>6. \A d \in stub : d <= cur /\ doing[d] = "done" /\ IsRead(d) /\ d \in Nat
  BY DEF EditsInv, EditsTypeOK, CacheInv, Calls
<1>7. cur' \in Calls => doing[cur'] = "idle"
  <2>1. cur' > cur
    BY <1>1
  <2> QED
    BY <2>1, CallFacts DEF CallInv
<1>8. CacheInv'
  <2>1. \A d \in stub : d <= cur'
    BY <1>1, <1>6
  <2> QED
    BY <1>6, <1>7, <2>1 DEF CacheInv, IsRead
<1>9. StubsAreBacked'
  <2>1. \A d \in stub : d # cur'
    BY <1>1, <1>6
  <2> QED
    BY <2>1 DEF StubsAreBacked
<1>10. latest' # NoOne /\ ~disturbed' => WholeInv(latest)'
  <2>1. latest # NoOne /\ ~disturbed => WholeInv(latest)
    BY DEF EditsInv
  <2> QED
    BY <2>1 DEF WholeInv, DeletesExisting, IsRead
<1> QED
  BY <1>3, <1>4, <1>5, <1>8, <1>9, <1>10 DEF EditsInv

\* The model is shown a read, or the diffs of a change whose files are no longer
\* in the cache.
LEMMA DeliverKeeps ==
    ASSUME EditsInv, NEW c \in Calls, Deliver(c)
    PROVE  EditsInv'
<1>1. /\ c = cur /\ doing[c] \in {"done", "failed"} /\ cur' = cur + 1
      /\ seen' = IF doing[c] = "failed" \/ c \in stub THEN seen
                 ELSE [f \in Files |-> IF PlanOf(c, f) # {} THEN Existing(c, f) ELSE seen[f]]
      /\ UNCHANGED <<files, cache, callVars, abandoned, mishaps, base, latest, disturbed,
                     stub, lost, under, lateWriters>>
  BY DEF Deliver
<1>2. seen' \in [Files -> Contents] /\ lost' \subseteq Files
  <2>1. seen \in [Files -> Contents] /\ lost \subseteq Files
    BY DEF EditsInv, EditsTypeOK
  <2> QED
    BY <1>1, <2>1, ExistingTypes
<1>3. CacheInv /\ CallInv(c) /\ plan[c] \in Seq(Planning) /\ OnePlace(plan[c])
      /\ landed[c] \in 0..Len(plan[c])
  BY CallFacts DEF EditsInv, CallInv
<1>4. ASSUME NEW g \in Files, cache[g] # Missing, g \notin lost
      PROVE  cache[g] = seen'[g]
  <2>1. \/ cache[g] = seen[g]
        \/ /\ c \notin stub /\ doing[c] = "done" /\ IsRead(c)
           /\ job[c][1].file = g /\ plan[c][1].after = cache[g]
    BY <1>1, <1>3, <1>4 DEF CacheInv
  <2>2. CASE doing[c] = "failed" \/ c \in stub
    BY <1>1, <2>1, <2>2
  <2>3. CASE doing[c] = "done" /\ c \notin stub /\ IsRead(c)
    <3>1. /\ Len(plan[c]) = 1 /\ plan[c][1].file = job[c][1].file
          /\ cache[job[c][1].file] \in {Missing, plan[c][1].after}
      BY <1>1, <1>3, <2>3 DEF CallInv, CacheInv
    <3>2. DOMAIN plan[c] = {1}
      BY <1>3, <3>1
    <3>3. PlanOf(c, g) = IF job[c][1].file = g THEN {1} ELSE {}
      BY <3>1, <3>2 DEF PlanOf
    <3>4. seen'[g] = IF PlanOf(c, g) # {} THEN Existing(c, g) ELSE seen[g]
      BY <1>1, <2>3
    <3>5. CASE job[c][1].file = g
      <4>1. Max({1}) = 1
        BY DEF Max
      <4>2. Existing(c, g) = plan[c][1].after
        BY <3>3, <3>5, <4>1 DEF Existing
      <4> QED
        BY <1>4, <3>1, <3>3, <3>4, <3>5, <4>2
    <3>6. CASE job[c][1].file # g
      BY <2>1, <3>3, <3>4, <3>6
    <3> QED
      BY <3>5, <3>6
  <2>4. CASE doing[c] = "done" /\ c \notin stub /\ ~IsRead(c)
    <3>1. \A i \in 1..landed[c] : cache[plan[c][i].file] = Missing
      BY <1>1, <1>3, <2>4 DEF CacheInv
    <3>2. DOMAIN plan[c] = 1..landed[c]
      BY <1>3, <2>4 DEF CallInv
    <3>3. PlanOf(c, g) = {}
      BY <1>4, <3>1, <3>2 DEF PlanOf
    <3> QED
      BY <1>1, <2>1, <2>4, <3>3
  <2> QED
    BY <1>1, <2>2, <2>3, <2>4
<1>5. cur \in Calls /\ doing[cur] # "idle" /\ doing[cur] # "landing" /\ UNCHANGED <<under, abandoned>>
  BY <1>1
<1> QED
  BY <1>1, <1>2, <1>4, <1>5, NextCallKeeps

\* The turn is aborted: a write under way is the last one, a read is dropped.
LEMMA AbortCallKeeps ==
    ASSUME EditsInv, NEW c \in Calls, AbortCall(c)
    PROVE  EditsInv'
<1>1. /\ c = cur /\ doing[c] # "idle" /\ cur' = cur + 1
      /\ abandoned' = abandoned \union {c}
      /\ lost' = IF IsRead(c) /\ doing[c] = "done"
                 THEN lost \union {f \in Files : PlanOf(c, f) # {}} ELSE lost
      /\ under' = IF doing[c] = "landing" THEN [under EXCEPT ![c] = landed[c] + 1] ELSE under
      /\ UNCHANGED <<files, cache, callVars, mishaps, base, latest, disturbed, stub, seen,
                     lateWriters>>
  BY DEF AbortCall
<1>2. seen' \in [Files -> Contents] /\ lost' \subseteq Files
  BY <1>1 DEF EditsInv, EditsTypeOK
<1>3. /\ CacheInv /\ CallInv(c) /\ plan[c] \in Seq(Planning) /\ under \in [Calls -> Nat]
  BY CallFacts DEF EditsInv
<1>4. ASSUME NEW g \in Files, cache[g] # Missing, g \notin lost'
      PROVE  cache[g] = seen[g]
  <2>1. SUFFICES ASSUME /\ doing[c] = "done" /\ IsRead(c)
                        /\ job[c][1].file = g
                 PROVE  FALSE
    BY <1>1, <1>3, <1>4 DEF CacheInv
  <2>2. Len(plan[c]) = 1 /\ plan[c][1].file = g
    BY <1>3, <2>1 DEF CallInv
  <2>3. 1 \in PlanOf(c, g)
    BY <1>3, <2>2 DEF PlanOf
  <2> QED
    BY <1>1, <1>4, <2>1, <2>3
<1>5. doing[c] = "landing" => under'[c] = landed[c] + 1
  BY <1>1, <1>3
<1> QED
  BY <1>1, <1>2, <1>4, <1>5, NextCallKeeps

LEMMA ElsewhereKeeps ==
    ASSUME EditsInv, NEW f \in Files, Elsewhere(f)
    PROVE  EditsInv'
<1> USE DEF callVars
<1>1. /\ mishaps < MaxMishaps /\ mishaps' = mishaps + 1 /\ disturbed' = TRUE
      /\ \E s \in Starts : files' = [files EXCEPT ![f] = s[f]]
      /\ UNCHANGED <<cache, callVars, cur, abandoned, base, latest, stub, seen, lost, under,
                     lateWriters>>
  BY DEF Elsewhere
<1>2. \A d \in Calls : CallSame(d)
  BY <1>1 DEF CallSame
<1>3. files' \in [Files -> Contents] /\ mishaps' \in 0..MaxMishaps
  BY <1>1, FileAssumption DEF EditsInv, EditsTypeOK
<1>4. EditsTypeOK' /\ CallTypes' /\ lateWriters' = {}
  BY <1>1, <1>3 DEF EditsInv, EditsTypeOK, CallTypes
<1>5. \A d \in Calls : CallInv(d)' /\ LastWrite(d)'
  BY <1>1, <1>2, SameCallKeeps
<1>6. CacheInv' /\ StubsAreBacked'
  BY <1>1, <1>2, SameCacheKeeps
<1> QED
  BY <1>1, <1>4, <1>5, <1>6 DEF EditsInv

LEMMA EditsInitInv ==
    ASSUME EditsInit
    PROVE  EditsInv
<1>1. EditsTypeOK /\ CallTypes
  <2>1. /\ files \in [Files -> Contents] /\ Missing \in Contents /\ NCalls \in Nat
        /\ MaxMishaps \in Nat
    BY FileAssumption DEF EditsInit, Contents
  <2>2. \A S : <<>> \in Seq(S)
    OBVIOUS
  <2>3. cur \in 1..NCalls + 1 /\ mishaps \in 0..MaxMishaps
    BY <2>1 DEF EditsInit
  <2>4. \A c \in Calls : plan[c] = <<>> /\ landed[c] = 0 /\ under[c] = 0 /\ Len(<<>>) = 0
    BY DEF EditsInit
  <2>5. \A c \in Calls : landed[c] \in 0..Len(plan[c]) /\ under[c] \in 0..Len(plan[c])
    BY <2>4
  <2>6. abandoned \subseteq 1..cur - 1
    BY DEF EditsInit
  <2>7. EditsTypeOK
    <3>1. \A c \in Calls : DOMAIN plan[c] = {}
      BY <2>4
    <3>2. /\ cache \in [Files -> Contents] /\ base \in [Files -> Contents]
          /\ seen \in [Files -> Contents]
          /\ doing \in [Calls -> {"idle", "planning", "landing", "reading", "done", "failed"}]
      BY <2>1 DEF EditsInit
    <3>3. /\ latest \in Calls \union {NoOne} /\ disturbed \in BOOLEAN /\ stub \subseteq Calls
          /\ lost \subseteq Files /\ lateWriters \subseteq Calls
      BY DEF EditsInit
    <3> QED
      BY <2>1, <2>3, <2>5, <2>6, <3>1, <3>2, <3>3 DEF EditsTypeOK
  <2>8. CallTypes
    BY <2>2 DEF EditsInit, CallTypes
  <2> QED
    BY <2>7, <2>8
<1>2. ASSUME NEW c \in Calls PROVE CallInv(c) /\ LastWrite(c)
  <2>1. c >= cur /\ ~(c < cur)
    BY DEF Calls, EditsInit
  <2> QED
    BY <2>1 DEF EditsInit, CallInv, LastWrite
<1>3. CacheInv /\ StubsAreBacked
  BY DEF EditsInit, CacheInv, StubsAreBacked
<1> QED
  BY <1>1, <1>2, <1>3 DEF EditsInit, EditsInv

LEMMA EditsNextInv ==
    ASSUME EditsInv, [EditsNext]_editVars
    PROVE  EditsInv'
<1>1. ASSUME NEW c \in Calls,
             Begin(c) \/ PlanNext(c) \/ Land(c) \/ WriteFails(c) \/ ReadFile(c) \/ Deliver(c)
               \/ AbortCall(c)
      PROVE  EditsInv'
  BY <1>1, BeginKeeps, PlanNextKeeps, LandKeeps, WriteFailsKeeps, ReadFileKeeps, DeliverKeeps,
     AbortCallKeeps
<1>2. CASE UNCHANGED editVars
  <2> USE <1>2 DEF editVars, callVars, ghostVars
  <2>1. EditsTypeOK' /\ CallTypes' /\ lateWriters' = {}
    BY DEF EditsInv, EditsTypeOK, CallTypes
  <2>2. \A d \in Calls : CallSame(d)
    BY DEF CallSame
  <2>3. \A d \in Calls : CallInv(d)' /\ LastWrite(d)'
    BY <2>2, SameCallKeeps
  <2>4. CacheInv' /\ StubsAreBacked'
    BY <2>2, SameCacheKeeps
  <2>5. latest' # NoOne /\ ~disturbed' => WholeInv(latest)'
    BY <2>2, SameWholeKeeps DEF EditsInv, EditsTypeOK
  <2> QED
    BY <2>1, <2>3, <2>4, <2>5 DEF EditsInv
<1> QED
  BY <1>1, <1>2, ElsewhereKeeps DEF EditsNext

LEMMA EditsInvHolds == EditsSpec => []EditsInv
<1>1. EditsInit => EditsInv
  BY EditsInitInv
<1>2. EditsInv /\ [EditsNext]_editVars => EditsInv'
  BY EditsNextInv
<1> QED
  BY <1>1, <1>2, PTL DEF EditsSpec

\* A repeated read is answered with a stub only while the model still has the
\* text before it, whatever the calls, their files and the changes by others.
THEOREM StubsBacked == EditsSpec => []StubsAreBacked
<1>1. EditsInv => StubsAreBacked
  BY DEF EditsInv
<1> QED
  BY <1>1, EditsInvHolds, PTL

\* Of the files a cut off patch leaves, each is as it was or as it was to be.
LEMMA CutOffIsEither ==
    ASSUME EditsInv, NEW c \in Calls, NEW f \in Files,
           files = Made(base, plan[c], landed[c])
    PROVE  files[f] \in {base[f], Made(base, plan[c], Len(plan[c]))[f]}
<1> DEFINE p == plan[c]
           n == landed[c]
<1>1. /\ p \in Seq(Planning) /\ OnePlace(p) /\ n \in 0..Len(p) /\ Len(p) \in 0..Len(p)
      /\ n \in Nat
  BY CallFacts DEF CallInv
<1>2. files = Made(base, p, n)
  OBVIOUS
<1> HIDE DEF p, n
<1>3. CASE \E i \in 1..n : p[i].file = f
  <2>1. PICK i \in 1..n : p[i].file = f
    BY <1>3
  <2>2. i \in 1..Len(p)
    BY <1>1
  <2>3. Made(base, p, n)[f] = p[i].after
    BY <1>1, <2>1, MadeAt
  <2>4. Made(base, p, Len(p))[f] = p[i].after
    BY <1>1, <2>1, <2>2, MadeAt
  <2> QED
    BY <1>2, <2>3, <2>4 DEF p
<1>4. CASE \A i \in 1..n : p[i].file # f
  BY <1>1, <1>2, <1>4, MadeElsewhere
<1> QED
  BY <1>3, <1>4

\* A patch nobody disturbs makes all of its changes as if its operations were
\* done one after the other, or none; and an aborted call begins no write.
THEOREM WholeChanges == EditsSpec => []ChangesAreWhole
<1>1. EditsInv => ChangesAreWhole
  <2> SUFFICES ASSUME EditsInv PROVE ChangesAreWhole
    OBVIOUS
  <2>1. AbandonedWritesStop
    BY DEF EditsInv, AbandonedWritesStop
  <2>2. PatchesAreAtomic
    <3> SUFFICES ASSUME latest # NoOne, ~disturbed
                 PROVE  LET end == Outcome(base, job[latest]) IN
                        /\ doing[latest] = "planning" => files = base
                        /\ doing[latest] = "done" => files = end
                        /\ doing[latest] = "failed" =>
                               \/ files = base
                               \/ /\ latest \in abandoned /\ end # Missing
                                  /\ \A f \in Files : files[f] \in {base[f], end[f]}
      BY DEF PatchesAreAtomic
    <3> DEFINE end == Outcome(base, job[latest])
               made == Made(base, plan[latest], Len(plan[latest]))
    <3>1. latest \in Calls /\ WholeInv(latest)
      BY DEF EditsInv, EditsTypeOK
    <3>2. made \in [Files -> Contents] /\ made # Missing
      <4>1. Len(plan[latest]) \in 0..Len(plan[latest])
        BY <3>1, CallFacts
      <4>2. plan[latest] \in Seq(Planning) /\ base \in [Files -> Contents]
        BY <3>1, CallFacts
      <4>3. made \in [Files -> Contents]
        BY <4>1, <4>2, MadeTypes
      <4> QED
        BY <4>3, FileAssumption
    <3>3. doing[latest] = "planning" => files = base
      BY <3>1 DEF WholeInv
    <3>4. doing[latest] = "done" => files = end
      <4> SUFFICES ASSUME doing[latest] = "done" PROVE files = end
        OBVIOUS
      <4>1. end = made /\ files = Made(base, plan[latest], landed[latest]) /\ ~IsRead(latest)
        BY <3>1 DEF WholeInv
      <4>2. landed[latest] = Len(plan[latest])
        BY <3>1, <4>1, CallFacts DEF CallInv
      <4> QED
        BY <4>1, <4>2
    <3>5. ASSUME doing[latest] = "failed", files # base
          PROVE  /\ latest \in abandoned /\ end # Missing
                 /\ \A f \in Files : files[f] \in {base[f], end[f]}
      <4>1. /\ latest \in abandoned /\ end = made
            /\ files = Made(base, plan[latest], landed[latest])
        BY <3>1, <3>5 DEF WholeInv
      <4> QED
        BY <3>1, <3>2, <4>1, CutOffIsEither
    <3> QED
      BY <3>3, <3>4, <3>5
  <2> QED
    BY <2>1, <2>2 DEF ChangesAreWhole
<1> QED
  BY <1>1, EditsInvHolds, PTL

===============================================================================
