--------------------------- MODULE McpServers_proofs ---------------------------
(***************************************************************************)
(* Proofs of the safety properties of McpServers.                          *)
(***************************************************************************)
EXTENDS McpServers, FiniteSetTheorems, WellFoundedInduction, TLAPS

-------------------------------------------------------------------------------
(***************************************************************************)
(* The inductive invariant                                                 *)
(***************************************************************************)
\* Ids are given out once per client: a request on its way and one a server
\* holds are the same if their ids are.
IdsAreFresh ==
    \A s \in Servers :
        /\ \A p \in pending[s] \union received[s] : p[1] <= nextId[s]
        /\ \A p \in pending[s], r \in pending[s] \union received[s] :
              p[1] = r[1] => p = r

\* The table of a client and the calls that wait for it agree.
Owned ==
    \A s \in Servers : \A p \in pending[s] :
        p[2] \in Calls => call[p[2]] = "waiting" /\ target[p[2]] = s

Held ==
    \A c \in Calls : call[c] = "waiting" =>
        target[c] \in Servers /\ \E p \in pending[target[c]] : p[2] = c

Single == \A s \in Servers : \A p, q \in pending[s] : p[2] = q[2] => p = q

TableInv == IdsAreFresh /\ Owned /\ Held /\ Single

\* Before the start is done there are no turns and no calls.
Quiet ==
    /\ stage # "done" =>
          active = FALSE /\ aborted = {} /\ \A c \in Calls : call[c] = "idle"
    /\ active => turn # 0

\* A server is being started, and only a server being started is asked for
\* its tools.
StartInv ==
    /\ stage = "off" => current = 1
    /\ stage \in Starting \ {"off"} => current \in Servers
    /\ \A s \in Servers : \A p \in pending[s] :
          p[2] = None => stage \in {"initializing", "listing"} /\ s = current

UnsetIsEmpty == \A s \in Servers : child[s] = "unset" => pending[s] = {}

Inv == TypeOK /\ TableInv /\ Quiet /\ StartInv /\ UnsetIsEmpty /\ OwnReply

-------------------------------------------------------------------------------
(***************************************************************************)
(* Lemmas about the helpers                                                *)
(***************************************************************************)
LEMMA RejectedTypes ==
    ASSUME TypeOK, NEW cs, NEW ab
    PROVE  /\ Rejected(cs, ab) \in
                [Calls -> {"idle", "waiting", "replied", "failed", "aborted"}]
           /\ \A c \in Calls : Rejected(cs, ab)[c] # call[c] =>
                 c \in cs /\ Rejected(cs, ab)[c] \in {"failed", "aborted"}
           /\ \A c \in Calls \intersect cs : Rejected(cs, ab)[c] \in {"failed", "aborted"}
  BY DEF Rejected, TypeOK

\* A client that closes rejects what waits for it and nothing else.
LEMMA RejectKeepsTable ==
    ASSUME TypeOK, TableInv, NEW servers \in SUBSET Servers, NEW ab,
           RejectPending(servers, ab), UNCHANGED <<target, nextId, received>>
    PROVE  /\ TableInv'
           /\ pending' \in [Servers -> SUBSET Requests]
           /\ call' \in [Calls -> {"idle", "waiting", "replied", "failed", "aborted"}]
           /\ \A s \in Servers : pending'[s] \subseteq pending[s]
           /\ \A s \in servers : pending'[s] = {}
           /\ \A c \in Calls : call'[c] # call[c] =>
                 call[c] = "waiting" /\ call'[c] \in {"failed", "aborted"}
           /\ \A c \in Calls : call'[c] = "waiting" => target[c] \notin servers
<1>1. /\ pending' \in [Servers -> SUBSET Requests]
      /\ \A s \in Servers : pending'[s] = IF s \in servers THEN {} ELSE pending[s]
  BY DEF RejectPending, TypeOK
<1>2. call' \in [Calls -> {"idle", "waiting", "replied", "failed", "aborted"}]
  BY RejectedTypes DEF RejectPending
<1>3. \A c \in Calls : c \in WaitersOf(servers) =>
          call[c] = "waiting" /\ target[c] \in servers /\ call'[c] \in {"failed", "aborted"}
  BY RejectedTypes DEF RejectPending, WaitersOf, TableInv, Owned
<1>4. \A c \in Calls : c \notin WaitersOf(servers) => call'[c] = call[c]
  BY DEF RejectPending, Rejected
<1>5. \A c \in Calls : call[c] = "waiting" /\ target[c] \in servers => c \in WaitersOf(servers)
  BY DEF WaitersOf, TableInv, Held
<1>6. IdsAreFresh'
  BY <1>1 DEF TableInv, IdsAreFresh
<1>7. Owned'
  <2> SUFFICES ASSUME NEW s \in Servers, NEW p \in pending'[s], p[2] \in Calls
               PROVE  call'[p[2]] = "waiting" /\ target'[p[2]] = s
    BY DEF Owned
  <2>1. s \notin servers /\ p \in pending[s]
    BY <1>1
  <2>2. call[p[2]] = "waiting" /\ target[p[2]] = s
    BY <2>1 DEF TableInv, Owned
  <2> QED
    BY <1>3, <1>4, <2>1, <2>2
<1>8. Held'
  <2> SUFFICES ASSUME NEW c \in Calls, call'[c] = "waiting"
               PROVE  target'[c] \in Servers /\ \E p \in pending'[target'[c]] : p[2] = c
    BY DEF Held
  <2>1. c \notin WaitersOf(servers) /\ call[c] = "waiting"
    BY <1>3, <1>4
  <2>2. target[c] \in Servers \ servers /\ \E p \in pending[target[c]] : p[2] = c
    BY <1>5, <2>1 DEF TableInv, Held
  <2> QED
    BY <1>1, <2>2
<1>9. Single'
  BY <1>1 DEF TableInv, Single
<1>10. \A c \in Calls : call'[c] # call[c] =>
           call[c] = "waiting" /\ call'[c] \in {"failed", "aborted"}
  BY <1>3, <1>4
<1>11. \A c \in Calls : call'[c] = "waiting" => target[c] \notin servers
  BY <1>3, <1>4, <1>5
<1> QED
  BY <1>1, <1>2, <1>6, <1>7, <1>8, <1>9, <1>10, <1>11 DEF TableInv

\* A reply or a timer settles one call.
LEMMA SettleKeepsTable ==
    ASSUME TypeOK, TableInv, NEW s \in Servers, NEW p \in pending[s], p[2] # None,
           pending' = [pending EXCEPT ![s] = @ \ {p}],
           NEW o \in {"replied", "failed", "aborted"},
           call' = [call EXCEPT ![p[2]] = o],
           UNCHANGED <<target, nextId, received>>
    PROVE  /\ TableInv'
           /\ pending' \in [Servers -> SUBSET Requests]
           /\ call' \in [Calls -> {"idle", "waiting", "replied", "failed", "aborted"}]
           /\ \A t \in Servers : pending'[t] \subseteq pending[t]
           /\ p[2] \in Calls /\ call[p[2]] = "waiting"
<1>1. p \in Requests /\ p[2] \in Calls
  BY DEF TypeOK, Requests
<1>2. /\ pending' \in [Servers -> SUBSET Requests]
      /\ call' \in [Calls -> {"idle", "waiting", "replied", "failed", "aborted"}]
      /\ \A t \in Servers : pending'[t] = IF t = s THEN pending[s] \ {p} ELSE pending[t]
      /\ \A c \in Calls : call'[c] = IF c = p[2] THEN o ELSE call[c]
  BY <1>1 DEF TypeOK
<1>3. call[p[2]] = "waiting" /\ target[p[2]] = s
  BY <1>1 DEF TableInv, Owned
<1>4. IdsAreFresh'
  BY <1>2 DEF TableInv, IdsAreFresh
<1>5. Owned'
  BY <1>1, <1>2, <1>3 DEF TableInv, Owned, Single
<1>6. Held'
  BY <1>1, <1>2, <1>3 DEF TableInv, Held, Owned
<1>7. Single'
  BY <1>2 DEF TableInv, Single
<1> QED
  BY <1>1, <1>2, <1>3, <1>4, <1>5, <1>6, <1>7 DEF TableInv

LEMMA RejectOne ==
    ASSUME TypeOK, NEW c \in Calls, NEW ab
    PROVE  \E o \in {"failed", "aborted"} : Rejected({c}, ab) = [call EXCEPT ![c] = o]
  BY DEF Rejected, TypeOK

\* While no call waits, a table of requests of the start is as good as any.
LEMMA StartTable ==
    ASSUME TypeOK, TableInv, \A c \in Calls : call[c] = "idle", call' = call,
           \A s \in Servers : \A p \in pending'[s] : p[2] = None,
           IdsAreFresh', Single'
    PROVE  TableInv'
  BY McpAssumption DEF TableInv, Owned, Held

-------------------------------------------------------------------------------
(***************************************************************************)
(* Every action keeps the invariant                                        *)
(***************************************************************************)
LEMMA InitInv == Init => Inv
<1> SUFFICES ASSUME Init PROVE Inv
  OBVIOUS
<1>1. TypeOK
  <2>1. current \in 1..NumServers + 1 /\ turn \in 0..NumTurns /\ failures \in 0..MaxFailures
    BY McpAssumption DEF Init
  <2>2. /\ child \in [Servers -> {"none", "set", "unset"}]
        /\ process \in [Servers -> {"none", "running", "killed", "gone"}]
        /\ nextId \in [Servers -> Nat]
        /\ pending \in [Servers -> SUBSET Requests]
        /\ received \in [Servers -> SUBSET Requests]
    BY DEF Init
  <2>3. /\ call \in [Calls -> {"idle", "waiting", "replied", "failed", "aborted"}]
        /\ target \in [Calls -> Servers \union {0}]
        /\ answer \in [Calls -> Calls \union {None}]
    BY DEF Init
  <2> QED
    BY <2>1, <2>2, <2>3 DEF Init, TypeOK, Starting
<1>2. \A s \in Servers : pending[s] = {} /\ received[s] = {}
  BY DEF Init
<1>3. \A c \in Calls : call[c] = "idle"
  BY DEF Init
<1>4. TableInv
  BY <1>2, <1>3 DEF TableInv, IdsAreFresh, Owned, Held, Single
<1>5. Quiet /\ StartInv /\ UnsetIsEmpty /\ OwnReply
  BY <1>2, <1>3 DEF Init, Quiet, StartInv, UnsetIsEmpty, OwnReply, Starting
<1> QED
  BY <1>1, <1>4, <1>5 DEF Inv

LEMMA StartSessionKeeps == ASSUME Inv, StartSession PROVE Inv'
<1> USE DEF StartSession, Inv, startVars, clientVars, callVars, turnVars, closeVars
<1>1. TypeOK'
  BY DEF TypeOK, Starting
<1>2. StartInv'
  <2>1. stage' # "off" /\ (stage' # "done" => current' = 1 /\ 1 \in Servers)
    BY McpAssumption DEF StartInv, Servers
  <2>2. \A s \in Servers : \A p \in pending'[s] : p[2] # None
    BY DEF StartInv
  <2> QED
    BY <2>1, <2>2 DEF StartInv, Starting
<1> QED
  BY <1>1, <1>2 DEF TableInv, IdsAreFresh, Owned, Held, Single, Quiet, UnsetIsEmpty, OwnReply

LEMMA ServerStartedKeeps == ASSUME Inv, ServerStarted PROVE Inv'
<1> USE DEF Inv
<1>1. current \in Servers /\ nextId[current] \in Nat
  BY DEF ServerStarted, StartInv, Starting, TypeOK
<1>2. \A c \in Calls : call[c] = "idle"
  BY DEF ServerStarted, Quiet
<1>a. CASE Break /\ UNCHANGED <<child, process, nextId, pending, received>>
  <2>1. TypeOK'
    BY <1>a, McpAssumption DEF ServerStarted, Break, Written, NotWritten, TypeOK, Starting, callVars, turnVars
  <2>2. StartInv'
    BY <1>a, <1>1 DEF Break, StartInv, ServerStarted, Starting
  <2> QED
    BY <1>a, <2>1, <2>2 DEF ServerStarted, Break, TableInv, IdsAreFresh, Owned, Held, Single,
       Quiet, UnsetIsEmpty, OwnReply, callVars, turnVars
<1>b. CASE /\ Written
           /\ stage' = "initializing"
           /\ child' = [child EXCEPT ![current] = "set"]
           /\ process' = [process EXCEPT ![current] = "running"]
           /\ nextId' = [nextId EXCEPT ![current] = FreshId(current)]
           /\ pending' = [pending EXCEPT ![current] = {<<FreshId(current), None>>}]
           /\ received' = [received EXCEPT ![current] = {<<FreshId(current), None>>}]
           /\ UNCHANGED <<current, clients>>
  <2> DEFINE new == <<FreshId(current), None>>
  <2>1. new \in Requests /\ new[1] = nextId[current] + 1 /\ new[2] = None
    BY <1>1 DEF FreshId, Requests
  <2> HIDE DEF new
  <2>0. /\ pending' = [pending EXCEPT ![current] = {new}]
        /\ received' = [received EXCEPT ![current] = {new}]
    BY <1>b DEF new
  <2>2. /\ pending'[current] = {new} /\ received'[current] = {new}
        /\ nextId'[current] = nextId[current] + 1
    BY <1>1, <1>b, <2>0 DEF TypeOK, FreshId
  <2>2a. \A s \in Servers \ {current} :
            pending'[s] = pending[s] /\ received'[s] = received[s] /\ nextId'[s] = nextId[s]
    BY <1>1, <1>b, <2>0 DEF TypeOK
  <2>3. TypeOK'
    BY <1>b, <1>1, <2>0, <2>1 DEF ServerStarted, Written, TypeOK, Starting, callVars, turnVars, FreshId
  <2>4. \A s \in Servers : \A p \in pending[s] : p[2] = None
    BY <1>2 DEF TableInv, Owned, TypeOK, Requests
  <2>5. \A s \in Servers : \A p \in pending'[s] : p[2] = None /\ s = current
    BY <2>1, <2>2, <2>2a, <2>4 DEF StartInv, ServerStarted
  <2>6. IdsAreFresh'
    <3> SUFFICES ASSUME NEW s \in Servers
                 PROVE  /\ \A p \in pending'[s] \union received'[s] : p[1] <= nextId'[s]
                        /\ \A p \in pending'[s], r \in pending'[s] \union received'[s] :
                              p[1] = r[1] => p = r
      BY DEF IdsAreFresh
    <3>1. CASE s = current
      BY <3>1, <1>1, <2>1, <2>2
    <3>2. CASE s # current
      BY <3>2, <2>2a DEF TableInv, IdsAreFresh
    <3> QED
      BY <3>1, <3>2
  <2>7. Single'
    BY <2>2, <2>2a DEF TableInv, Single
  <2>8. TableInv'
    BY <1>2, <2>5, <2>6, <2>7, StartTable DEF ServerStarted, callVars
  <2>9. StartInv'
    BY <1>b, <1>1, <2>5 DEF StartInv, Starting
  <2>10. UnsetIsEmpty'
    BY <1>1, <1>b, <2>2a DEF UnsetIsEmpty, TypeOK
  <2> QED
    BY <1>b, <2>3, <2>8, <2>9, <2>10 DEF ServerStarted, Quiet, OwnReply, callVars, turnVars
<1> QED
  BY <1>a, <1>b DEF ServerStarted

\* A server of which a request of the start is answered or rejected.
LEMMA StartRequest ==
    ASSUME Inv, NEW s \in Servers, NEW p \in pending[s], p[2] = None
    PROVE  /\ stage \in {"initializing", "listing"} /\ s = current
           /\ \A c \in Calls : call[c] = "idle"
           /\ \A t \in Servers : \A q \in pending[t] : q[2] = None
           /\ \A t \in Servers \ {s} : pending[t] = {}
<1>1. stage \in {"initializing", "listing"} /\ s = current
  BY DEF Inv, StartInv
<1>2. \A c \in Calls : call[c] = "idle"
  BY <1>1 DEF Inv, Quiet
<1>3. \A t \in Servers : \A q \in pending[t] : q[2] = None
  BY <1>2 DEF Inv, TypeOK, TableInv, Owned, Requests
<1>4. \A t \in Servers \ {s} : pending[t] = {}
  BY <1>1, <1>3 DEF Inv, StartInv
<1> QED
  BY <1>1, <1>2, <1>3, <1>4

LEMMA InitializedKeeps ==
    ASSUME Inv, NEW s \in Servers, NEW p \in pending[s], p[2] = None, Initialized(s),
           UNCHANGED <<answer, target, turnVars, closing, toClose, failures>>
    PROVE  Inv'
<1> DEFINE new == <<FreshId(s), None>>
<1>1. /\ stage = "initializing" /\ s = current
      /\ \A c \in Calls : call[c] = "idle"
      /\ \A t \in Servers : \A q \in pending[t] : q[2] = None
      /\ \A t \in Servers \ {s} : pending[t] = {}
  BY StartRequest DEF Initialized
<1>2. new \in Requests /\ new[1] = nextId[s] + 1 /\ new[2] = None /\ nextId[s] \in Nat
  BY DEF FreshId, Requests, Inv, TypeOK
<1>3. /\ nextId' = [nextId EXCEPT ![s] = FreshId(s)]
      /\ pending' = [pending EXCEPT ![s] = {new}]
      /\ received' \in {received, [received EXCEPT ![s] = @ \union {new}]}
      /\ stage' = "listing"
      /\ UNCHANGED <<current, connected, used, tools, report, child, process, call, clients>>
  BY DEF Initialized, Request
<1> HIDE DEF new
<1>4. /\ pending'[s] = {new} /\ nextId'[s] = nextId[s] + 1
      /\ received'[s] \subseteq received[s] \union {new}
  BY <1>3 DEF Inv, TypeOK, FreshId
<1>5. \A t \in Servers \ {s} :
          pending'[t] = pending[t] /\ received'[t] = received[t] /\ nextId'[t] = nextId[t]
  BY <1>3 DEF Inv, TypeOK
<1>6. TypeOK'
  <2>1. /\ nextId' \in [Servers -> Nat] /\ pending' \in [Servers -> SUBSET Requests]
        /\ received' \in [Servers -> SUBSET Requests]
    BY <1>2, <1>3 DEF Inv, TypeOK, FreshId
  <2> QED
    BY <1>3, <2>1 DEF Inv, TypeOK, Starting, turnVars
<1>7. IdsAreFresh'
  <2> SUFFICES ASSUME NEW t \in Servers
               PROVE  /\ \A q \in pending'[t] \union received'[t] : q[1] <= nextId'[t]
                      /\ \A q \in pending'[t], r \in pending'[t] \union received'[t] :
                            q[1] = r[1] => q = r
    BY DEF IdsAreFresh
  <2>1. CASE t = s
    <3>1. \A r \in received[s] : r \in Requests /\ r[1] \in Nat /\ r[1] <= nextId[s]
      BY DEF Inv, TypeOK, TableInv, IdsAreFresh, Requests
    <3> QED
      BY <2>1, <3>1, <1>2, <1>4
  <2>2. CASE t # s
    BY <2>2, <1>5 DEF Inv, TableInv, IdsAreFresh
  <2> QED
    BY <2>1, <2>2
<1>8. Single'
  BY <1>4, <1>5 DEF Inv, TableInv, Single
<1>9. \A t \in Servers : \A q \in pending'[t] : q[2] = None /\ t = s
  BY <1>1, <1>2, <1>4, <1>5
<1>10. TableInv'
  BY <1>1, <1>3, <1>7, <1>8, <1>9, StartTable DEF Inv
<1>11. StartInv'
  BY <1>1, <1>3, <1>9 DEF StartInv, Starting
<1>12. UnsetIsEmpty'
  BY <1>1, <1>3, <1>5, <1>9 DEF Inv, UnsetIsEmpty
<1> QED
  BY <1>1, <1>3, <1>6, <1>10, <1>11, <1>12 DEF Inv, Quiet, OwnReply, turnVars

LEMMA ListedKeeps ==
    ASSUME Inv, NEW s \in Servers, NEW p \in pending[s], p[2] = None, Listed(s),
           UNCHANGED <<answer, target, turnVars, closing, toClose, failures>>
    PROVE  Inv'
<1>1. /\ stage = "listing" /\ s = current
      /\ \A c \in Calls : call[c] = "idle"
      /\ \A t \in Servers : \A q \in pending[t] : q[2] = None
      /\ \A t \in Servers \ {s} : pending[t] = {}
  BY StartRequest DEF Listed
<1>2. /\ pending' = [pending EXCEPT ![s] = {}]
      /\ \E names \in SUBSET Names : FreshNames(s, names) \/ TakenName(s, names)
      /\ UNCHANGED <<nextId, received>>
  BY DEF Listed
<1>3. \A t \in Servers : pending'[t] = {}
  BY <1>1, <1>2 DEF Inv, TypeOK
<1>4. UNCHANGED <<current, call, clients>> /\ stage' \in {"readying", "failing"}
  BY <1>2 DEF FreshNames, TakenName
<1>5. TypeOK'
  <2>1. pending' \in [Servers -> SUBSET Requests]
    BY <1>2 DEF Inv, TypeOK
  <2>2. /\ used' \subseteq Names /\ connected' \subseteq Servers
        /\ tools' \subseteq Servers \X Names /\ report' \subseteq Servers \X {"ready", "failed"}
    BY <1>2 DEF FreshNames, TakenName, Inv, TypeOK
  <2>3. /\ child' \in [Servers -> {"none", "set", "unset"}]
        /\ process' \in [Servers -> {"none", "running", "killed", "gone"}]
    BY <1>2 DEF FreshNames, TakenName, Kill, Inv, TypeOK
  <2> QED
    BY <1>2, <1>4, <2>1, <2>2, <2>3 DEF Inv, TypeOK, Starting, turnVars
<1>6. TableInv'
  BY <1>1, <1>2, <1>3, <1>4 DEF Inv, TableInv, IdsAreFresh, Owned, Held, Single
<1>7. StartInv' /\ UnsetIsEmpty'
  BY <1>1, <1>3, <1>4 DEF StartInv, UnsetIsEmpty, Starting
<1> QED
  BY <1>1, <1>4, <1>5, <1>6, <1>7 DEF Inv, Quiet, OwnReply, turnVars

\* A server fails in its start: by a request or because it could not be written
\* that it is ready.
LEMMA StartFailsKeeps ==
    ASSUME Inv, NEW s \in Servers, stage \in {"initializing", "listing", "readying"}, s = current,
           ServerFails(s), CloseClients({s}, aborted), failures' \in 0..MaxFailures,
           UNCHANGED <<nextId, received, answer, target, turnVars, closing, toClose>>
    PROVE  Inv'
<1>1. RejectPending({s}, aborted) /\ Kill({s})
  BY DEF CloseClients
<1>2. \A c \in Calls : call[c] = "idle"
  BY DEF Inv, Quiet
<1>3. /\ TableInv'
      /\ pending' \in [Servers -> SUBSET Requests]
      /\ call' \in [Calls -> {"idle", "waiting", "replied", "failed", "aborted"}]
      /\ \A t \in Servers : pending'[t] \subseteq pending[t]
      /\ pending'[s] = {}
      /\ \A c \in Calls : call'[c] # call[c] => call[c] = "waiting"
  BY <1>1, RejectKeepsTable DEF Inv
<1>4. \A c \in Calls : call'[c] = "idle"
  BY <1>2, <1>3
<1>5. /\ child' \in [Servers -> {"none", "set", "unset"}]
      /\ process' \in [Servers -> {"none", "running", "killed", "gone"}]
      /\ \A t \in Servers \ {s} : child'[t] = child[t]
  BY <1>1 DEF Kill, Inv, TypeOK
<1>6. TypeOK'
  BY <1>3, <1>5 DEF Inv, TypeOK, ServerFails, Starting, turnVars
<1>7. StartInv'
  BY <1>3 DEF Inv, StartInv, ServerFails, Starting
<1>8. UnsetIsEmpty'
  BY <1>3, <1>5 DEF Inv, UnsetIsEmpty
<1> QED
  BY <1>3, <1>4, <1>6, <1>7, <1>8 DEF Inv, Quiet, OwnReply, ServerFails, turnVars

\* What NextServer and Break do to the invariant of the start.
LEMMA NextServerKeeps ==
    ASSUME Inv, stage \in {"readying", "failing"}, NextServer \/ Break,
           failures' \in 0..MaxFailures,
           UNCHANGED <<connected, used, tools, report, clientVars, callVars, turnVars,
                       closing, toClose>>
    PROVE  Inv'
<1>1. current \in Servers
  BY DEF Inv, StartInv, Starting
<1>2. \A s \in Servers : \A p \in pending[s] : p[2] # None
  BY DEF Inv, StartInv
<1>3. /\ stage' \in {"started", "done", "broken"}
      /\ stage' = "started" => current' \in Servers
      /\ current' \in 1..NumServers + 1 /\ clients' \subseteq Servers
  <2>1. current \in 1..NumServers /\ NumServers \in Nat /\ connected \subseteq Servers
        /\ clients \subseteq Servers
    BY <1>1, McpAssumption DEF Servers, Inv, TypeOK
  <2>2. CASE NextServer
    <3>1. current' = current + 1 /\ current' \in 1..NumServers + 1
      BY <2>1, <2>2 DEF NextServer
    <3>2. current # NumServers => current' \in Servers
      BY <2>1, <3>1 DEF Servers
    <3> QED
      BY <2>1, <2>2, <3>1, <3>2 DEF NextServer
  <2>3. CASE Break
    BY <2>1, <2>3 DEF Break
  <2> QED
    BY <2>2, <2>3
<1>4. TypeOK'
  BY <1>3 DEF Inv, TypeOK, Starting, clientVars, callVars, turnVars
<1>5. StartInv'
  BY <1>2, <1>3 DEF StartInv, Starting, clientVars
<1> QED
  BY <1>4, <1>5 DEF Inv, TableInv, IdsAreFresh, Owned, Held, Single, Quiet,
     UnsetIsEmpty, OwnReply, clientVars, callVars, turnVars

LEMMA WriteTypes ==
    ASSUME TypeOK, Written \/ NotWritten
    PROVE  failures' \in 0..MaxFailures
  BY McpAssumption DEF TypeOK, Written, NotWritten

LEMMA ConnectKeeps == ASSUME Inv, Connect PROVE Inv'
<1>a. CASE ServerStarted
  BY <1>a, ServerStartedKeeps
<1>b. CASE Ready
  <2>1. current \in Servers /\ stage = "readying"
    BY <1>b DEF Ready, Inv, StartInv, Starting
  <2>2. failures' \in 0..MaxFailures
    BY <1>b, WriteTypes DEF Ready, Inv
  <2>3. CASE NextServer /\ UNCHANGED <<connected, used, tools, report, child, process, pending, call>>
    BY <1>b, <2>1, <2>2, <2>3, NextServerKeeps DEF Ready, clientVars, callVars
  <2>4. CASE ServerFails(current) /\ CloseClients({current}, aborted)
    BY <1>b, <2>1, <2>2, <2>4, StartFailsKeeps DEF Ready
  <2> QED
    BY <1>b, <2>3, <2>4 DEF Ready
<1>c. CASE Failed
  <2>1. failures' \in 0..MaxFailures
    BY <1>c, WriteTypes DEF Failed, Inv
  <2> QED
    BY <1>c, <2>1, NextServerKeeps DEF Failed
<1> QED
  BY <1>a, <1>b, <1>c DEF Connect

\* One call is settled, by a reply or without one.
LEMMA SettleKeeps ==
    ASSUME Inv, NEW s \in Servers, NEW p \in pending[s], p[2] # None,
           pending' = [pending EXCEPT ![s] = @ \ {p}],
           \/ /\ call' = [call EXCEPT ![p[2]] = "replied"]
              /\ answer' = [answer EXCEPT ![p[2]] = p[2]]
           \/ call' = Rejected({p[2]}, aborted) /\ answer' = answer,
           UNCHANGED <<startVars, child, process, nextId, received, clients, target, turnVars,
                       closing, toClose, failures>>
    PROVE  Inv'
<1>1. p[2] \in Calls
  BY DEF Inv, TypeOK, Requests
<1>2. PICK o \in {"replied", "failed", "aborted"} :
          /\ call' = [call EXCEPT ![p[2]] = o]
          /\ \/ o = "replied" /\ answer' = [answer EXCEPT ![p[2]] = p[2]]
             \/ o # "replied" /\ answer' = answer
  <2>1. \E o \in {"failed", "aborted"} : Rejected({p[2]}, aborted) = [call EXCEPT ![p[2]] = o]
    BY <1>1, RejectOne DEF Inv
  <2> QED
    BY <2>1
<1>3. UNCHANGED <<target, nextId, received>>
  OBVIOUS
<1>4. /\ TableInv'
      /\ pending' \in [Servers -> SUBSET Requests]
      /\ call' \in [Calls -> {"idle", "waiting", "replied", "failed", "aborted"}]
      /\ \A t \in Servers : pending'[t] \subseteq pending[t]
      /\ call[p[2]] = "waiting"
  BY <1>2, <1>3, SettleKeepsTable DEF Inv
<1>5. TypeOK'
  BY <1>1, <1>2, <1>4 DEF Inv, TypeOK, startVars, turnVars
<1>6. stage = "done" /\ Quiet'
  BY <1>1, <1>4 DEF Inv, Quiet, startVars, turnVars
<1>7. StartInv' /\ UnsetIsEmpty'
  BY <1>4 DEF Inv, StartInv, UnsetIsEmpty, startVars
<1>8. OwnReply'
  BY <1>1, <1>2 DEF Inv, OwnReply, TypeOK
<1> QED
  BY <1>4, <1>5, <1>6, <1>7, <1>8 DEF Inv

LEMMA ReplyKeeps == ASSUME Inv, NEW s \in Servers, Reply(s) PROVE Inv'
<1>1. PICK r \in received[s] :
        /\ \/ /\ \A p \in pending[s] : p[1] # r[1]
              /\ UNCHANGED <<startVars, child, process, nextId, pending, received,
                             call, answer, clients>>
           \/ \E p \in pending[s] :
                 /\ p[1] = r[1] /\ p[2] # None
                 /\ pending' = [pending EXCEPT ![s] = @ \ {p}]
                 /\ \/ /\ call' = [call EXCEPT ![p[2]] = "replied"]
                       /\ answer' = [answer EXCEPT ![p[2]] = r[2]]
                    \/ call' = Rejected({p[2]}, aborted) /\ UNCHANGED answer
                 /\ UNCHANGED <<startVars, child, process, nextId, received, clients>>
           \/ \E p \in pending[s] :
                 /\ p[1] = r[1] /\ p[2] = None
                 /\ Initialized(s) \/ Listed(s) \/ StartFails(s)
                 /\ UNCHANGED answer
        /\ UNCHANGED <<target, turnVars, closing, toClose, failures>>
  BY DEF Reply
<1>a. CASE UNCHANGED <<startVars, child, process, nextId, pending, received, call, answer, clients>>
  BY <1>1, <1>a DEF Inv, TypeOK, TableInv, IdsAreFresh, Owned, Held, Single, Quiet, StartInv,
     UnsetIsEmpty, OwnReply, startVars, turnVars
<1>b. CASE \E p \in pending[s] :
             /\ p[1] = r[1] /\ p[2] # None
             /\ pending' = [pending EXCEPT ![s] = @ \ {p}]
             /\ \/ /\ call' = [call EXCEPT ![p[2]] = "replied"]
                   /\ answer' = [answer EXCEPT ![p[2]] = r[2]]
                \/ call' = Rejected({p[2]}, aborted) /\ UNCHANGED answer
             /\ UNCHANGED <<startVars, child, process, nextId, received, clients>>
  <2>1. PICK p \in pending[s] :
             /\ p[1] = r[1] /\ p[2] # None
             /\ pending' = [pending EXCEPT ![s] = @ \ {p}]
             /\ \/ /\ call' = [call EXCEPT ![p[2]] = "replied"]
                   /\ answer' = [answer EXCEPT ![p[2]] = r[2]]
                \/ call' = Rejected({p[2]}, aborted) /\ UNCHANGED answer
             /\ UNCHANGED <<startVars, child, process, nextId, received, clients>>
    BY <1>b
  <2>2. p = r
    BY <2>1 DEF Inv, TableInv, IdsAreFresh
  <2> QED
    BY <1>1, <2>1, <2>2, SettleKeeps
<1>c. CASE \E p \in pending[s] :
             /\ p[1] = r[1] /\ p[2] = None
             /\ Initialized(s) \/ Listed(s) \/ StartFails(s)
             /\ UNCHANGED answer
  <2>1. PICK p \in pending[s] : /\ p[2] = None
                                /\ Initialized(s) \/ Listed(s) \/ StartFails(s)
                                /\ UNCHANGED answer
    BY <1>c
  <2>2. CASE Initialized(s)
    BY <1>1, <2>1, <2>2, InitializedKeeps
  <2>3. CASE Listed(s)
    BY <1>1, <2>1, <2>3, ListedKeeps
  <2>4. CASE StartFails(s)
    <3>1. stage \in {"initializing", "listing"} /\ s = current
      BY <2>1, StartRequest
    <3>2. failures' \in 0..MaxFailures
      BY <1>1 DEF Inv, TypeOK
    <3> QED
      BY <1>1, <2>1, <2>4, <3>1, <3>2, StartFailsKeeps DEF StartFails
  <2> QED
    BY <2>1, <2>2, <2>3, <2>4
<1> QED
  BY <1>1, <1>a, <1>b, <1>c

LEMMA ExpireKeeps == ASSUME Inv, NEW s \in Servers, Expire(s) PROVE Inv'
<1>1. PICK p \in pending[s] :
        /\ \/ /\ p[2] # None
              /\ pending' = [pending EXCEPT ![s] = @ \ {p}]
              /\ call' = Rejected({p[2]}, aborted)
              /\ UNCHANGED <<startVars, child, process, nextId, received, clients>>
           \/ p[2] = None /\ StartFails(s)
        /\ UNCHANGED <<target, answer, turnVars, closing, toClose, failures>>
  BY DEF Expire
<1>2. CASE p[2] # None
  BY <1>1, <1>2, SettleKeeps
<1>3. CASE p[2] = None
  <2>1. stage \in {"initializing", "listing"} /\ s = current
    BY <1>3, StartRequest
  <2>2. failures' \in 0..MaxFailures
    BY <1>1 DEF Inv, TypeOK
  <2> QED
    BY <1>1, <1>3, <2>1, <2>2, StartFailsKeeps DEF StartFails
<1> QED
  BY <1>2, <1>3

LEMMA ExitKeeps == ASSUME Inv, NEW s \in Servers, Exit(s) PROVE Inv'
<1>1. /\ process' \in [Servers -> {"none", "running", "killed", "gone"}]
      /\ UNCHANGED <<nextId, received, target, answer, turnVars, closing, toClose, failures>>
  BY DEF Exit, Inv, TypeOK
<1>2. CASE <<nextId[s], None>> \in pending[s]
  <2>1. ServerFails(s) /\ pending' = [pending EXCEPT ![s] = {}]
        /\ child' = [child EXCEPT ![s] = "unset"] /\ UNCHANGED call
    BY <1>2 DEF Exit
  <2>2. /\ stage \in {"initializing", "listing"} /\ s = current
        /\ \A c \in Calls : call[c] = "idle"
        /\ \A t \in Servers \ {s} : pending[t] = {}
    BY <1>2, StartRequest
  <2>3. \A t \in Servers : pending'[t] = {}
    BY <2>1, <2>2 DEF Inv, TypeOK
  <2>4. TypeOK'
    <3>1. pending' \in [Servers -> SUBSET Requests] /\ child' \in [Servers -> {"none", "set", "unset"}]
      BY <2>1 DEF Inv, TypeOK
    <3> QED
      BY <1>1, <2>1, <3>1 DEF Inv, TypeOK, ServerFails, Starting, turnVars
  <2>5. TableInv'
    BY <1>1, <2>1, <2>2, <2>3 DEF TableInv, IdsAreFresh, Owned, Held, Single, Inv
  <2>6. StartInv' /\ UnsetIsEmpty'
    BY <2>1, <2>2, <2>3 DEF StartInv, UnsetIsEmpty, ServerFails, Starting
  <2> QED
    BY <1>1, <2>1, <2>2, <2>4, <2>5, <2>6 DEF Inv, Quiet, OwnReply, ServerFails, turnVars
<1>3. CASE <<nextId[s], None>> \notin pending[s]
  <2>1. RejectPending({s}, aborted) /\ UNCHANGED <<startVars, child, clients>>
    BY <1>3 DEF Exit
  <2>2. /\ TableInv'
        /\ pending' \in [Servers -> SUBSET Requests]
        /\ call' \in [Calls -> {"idle", "waiting", "replied", "failed", "aborted"}]
        /\ \A t \in Servers : pending'[t] \subseteq pending[t]
        /\ \A c \in Calls : call'[c] # call[c] =>
              call[c] = "waiting" /\ call'[c] \in {"failed", "aborted"}
    BY <1>1, <2>1, RejectKeepsTable DEF Inv
  <2>3. TypeOK'
    BY <1>1, <2>1, <2>2 DEF Inv, TypeOK, startVars, turnVars
  <2>4. Quiet' /\ StartInv' /\ UnsetIsEmpty' /\ OwnReply'
    BY <1>1, <2>1, <2>2 DEF Inv, Quiet, StartInv, UnsetIsEmpty, OwnReply, startVars, turnVars
  <2> QED
    BY <2>2, <2>3, <2>4 DEF Inv
<1> QED
  BY <1>2, <1>3

LEMMA TurnKeeps == ASSUME Inv, BeginTurn \/ EndTurn PROVE Inv'
<1>1. TypeOK'
  <2>0. turn \in 0..NumTurns /\ NumTurns \in Nat
    BY McpAssumption DEF Inv, TypeOK
  <2>1. turn' \in 0..NumTurns /\ active' \in BOOLEAN /\ aborted' = aborted
    <3>1. CASE BeginTurn
      BY <2>0, <3>1 DEF BeginTurn
    <3>2. CASE EndTurn
      BY <2>0, <3>2 DEF EndTurn
    <3> QED
      BY <3>1, <3>2
  <2>2. UNCHANGED <<startVars, clientVars, callVars, closeVars, failures>>
    BY DEF BeginTurn, EndTurn
  <2> QED
    BY <2>1, <2>2 DEF Inv, TypeOK, startVars, clientVars, callVars, closeVars
<1>2. Quiet'
  <2>1. turn \in Nat
    BY McpAssumption DEF Inv, TypeOK
  <2> QED
    BY <2>1 DEF BeginTurn, EndTurn, Inv, Quiet, startVars, callVars
<1> QED
  BY <1>1, <1>2 DEF BeginTurn, EndTurn, Inv, TableInv, IdsAreFresh, Owned, Held, Single,
     StartInv, UnsetIsEmpty, OwnReply, startVars, clientVars, callVars

LEMMA CallToolKeeps == ASSUME Inv, NEW c \in Calls, CallTool(c) PROVE Inv'
<1>1. PICK tool \in tools :
          LET s == tool[1] IN
          /\ target' = [target EXCEPT ![c] = s]
          /\ IF child[s] # "set" \/ IsAborted(c)
             THEN call' = Rejected({c}, aborted) /\ UNCHANGED <<nextId, pending, received>>
             ELSE call' = [call EXCEPT ![c] = "waiting"] /\ Request(s, c, pending[s])
  BY DEF CallTool
<1>2. PICK s \in Servers : s = tool[1]
  BY DEF Inv, TypeOK
<1>3. /\ call[c] = "idle" /\ stage = "done"
      /\ UNCHANGED <<startVars, child, process, answer, turnVars, closeVars, failures>>
  BY DEF CallTool, Inv, Quiet, IsAborted
<1>4. target' \in [Calls -> Servers \union {0}] /\ target'[c] = s
      /\ \A d \in Calls \ {c} : target'[d] = target[d]
  BY <1>1, <1>2 DEF Inv, TypeOK
<1>5. \A t \in Servers : \A p \in pending[t] : p[2] # c
  BY <1>3 DEF Inv, TableInv, Owned
<1>a. CASE child[s] # "set" \/ IsAborted(c)
  <2>1. call' = Rejected({c}, aborted) /\ UNCHANGED <<nextId, pending, received>>
    BY <1>1, <1>2, <1>a
  <2>2. PICK o \in {"failed", "aborted"} : call' = [call EXCEPT ![c] = o]
    BY <2>1, RejectOne DEF Inv
  <2>3. TypeOK'
    BY <1>3, <1>4, <2>1, <2>2 DEF Inv, TypeOK, startVars, turnVars, closeVars
  <2>a. call'[c] # "waiting" /\ \A d \in Calls \ {c} : call'[d] = call[d]
    BY <2>2 DEF Inv, TypeOK
  <2>b. Owned'
    BY <1>4, <1>5, <2>1, <2>a DEF Inv, TableInv, Owned
  <2>4. Owned' /\ Held'
    BY <1>4, <2>1, <2>a, <2>b DEF Inv, TableInv, Held
  <2>5. IdsAreFresh' /\ Single'
    BY <2>1 DEF Inv, TableInv, IdsAreFresh, Single
  <2>6. OwnReply'
    BY <1>3, <2>2 DEF Inv, TypeOK, OwnReply
  <2> QED
    BY <1>3, <2>1, <2>3, <2>4, <2>5, <2>6 DEF Inv, TableInv, Quiet, StartInv, UnsetIsEmpty, startVars,
       turnVars
<1>b. CASE ~(child[s] # "set" \/ IsAborted(c))
  <2> DEFINE new == <<FreshId(s), c>>
  <2>1. /\ call' = [call EXCEPT ![c] = "waiting"]
        /\ nextId' = [nextId EXCEPT ![s] = FreshId(s)]
        /\ pending' = [pending EXCEPT ![s] = pending[s] \union {new}]
        /\ received' \in {received, [received EXCEPT ![s] = @ \union {new}]}
    BY <1>1, <1>2, <1>b DEF Request
  <2>2. new \in Requests /\ new[1] = nextId[s] + 1 /\ new[2] = c /\ nextId[s] \in Nat
    BY DEF FreshId, Requests, Inv, TypeOK
  <2> HIDE DEF new
  <2>3. /\ pending'[s] = pending[s] \union {new} /\ nextId'[s] = nextId[s] + 1
        /\ received'[s] \subseteq received[s] \union {new}
    BY <2>1 DEF Inv, TypeOK, FreshId
  <2>4. \A t \in Servers \ {s} :
            pending'[t] = pending[t] /\ received'[t] = received[t] /\ nextId'[t] = nextId[t]
    BY <2>1 DEF Inv, TypeOK
  <2>5. call'[c] = "waiting" /\ \A d \in Calls \ {c} : call'[d] = call[d]
    BY <2>1 DEF Inv, TypeOK
  <2>6. TypeOK'
    <3>1. /\ nextId' \in [Servers -> Nat] /\ pending' \in [Servers -> SUBSET Requests]
          /\ received' \in [Servers -> SUBSET Requests]
          /\ call' \in [Calls -> {"idle", "waiting", "replied", "failed", "aborted"}]
      BY <2>1, <2>2 DEF Inv, TypeOK, FreshId
    <3> QED
      BY <1>3, <1>4, <3>1 DEF Inv, TypeOK, startVars, turnVars, closeVars
  <2>7. IdsAreFresh'
    <3> SUFFICES ASSUME NEW t \in Servers
                 PROVE  /\ \A q \in pending'[t] \union received'[t] : q[1] <= nextId'[t]
                        /\ \A q \in pending'[t], r \in pending'[t] \union received'[t] :
                              q[1] = r[1] => q = r
      BY DEF IdsAreFresh
    <3>1. CASE t = s
      <4>1. \A r \in pending[s] \union received[s] : r[1] \in Nat /\ r[1] <= nextId[s]
        BY DEF Inv, TypeOK, TableInv, IdsAreFresh, Requests
      <4>2. \A q \in pending[s], r \in pending[s] \union received[s] : q[1] = r[1] => q = r
        BY DEF Inv, TableInv, IdsAreFresh
      <4> QED
        BY <3>1, <4>1, <4>2, <2>2, <2>3
    <3>2. CASE t # s
      BY <3>2, <2>4 DEF Inv, TableInv, IdsAreFresh
    <3> QED
      BY <3>1, <3>2
  <2>8. Owned'
    <3> SUFFICES ASSUME NEW t \in Servers, NEW q \in pending'[t], q[2] \in Calls
                 PROVE  call'[q[2]] = "waiting" /\ target'[q[2]] = t
      BY DEF Owned
    <3>1. CASE q \in pending[t]
      BY <3>1, <1>4, <1>5, <2>5 DEF Inv, TableInv, Owned
    <3>2. CASE q \notin pending[t]
      BY <3>2, <1>4, <2>2, <2>3, <2>4, <2>5
    <3> QED
      BY <3>1, <3>2
  <2>9. Held'
    <3> SUFFICES ASSUME NEW d \in Calls, call'[d] = "waiting"
                 PROVE  target'[d] \in Servers /\ \E q \in pending'[target'[d]] : q[2] = d
      BY DEF Held
    <3>1. CASE d = c
      BY <3>1, <1>4, <2>2, <2>3
    <3>2. CASE d # c
      <4>1. target'[d] \in Servers /\ \E q \in pending[target'[d]] : q[2] = d
        BY <3>2, <1>4, <2>5 DEF Inv, TableInv, Held
      <4> QED
        BY <4>1, <2>3, <2>4
    <3> QED
      BY <3>1, <3>2
  <2>10. Single'
    BY <1>5, <2>2, <2>3, <2>4 DEF Inv, TableInv, Single
  <2>11. StartInv'
    <3>1. c # None
      BY McpAssumption
    <3>2. \A t \in Servers : \A q \in pending'[t] : q[2] # None
      BY <1>3, <2>2, <2>3, <2>4, <3>1 DEF Inv, StartInv
    <3> QED
      BY <1>3, <3>2 DEF StartInv, Starting, startVars
  <2>12. UnsetIsEmpty'
    BY <1>3, <1>b, <2>4 DEF Inv, UnsetIsEmpty
  <2>13. OwnReply'
    BY <1>3, <2>5 DEF Inv, OwnReply
  <2> QED
    BY <1>3, <2>6, <2>7, <2>8, <2>9, <2>10, <2>11, <2>12, <2>13 DEF Inv, TableInv, Quiet, startVars,
       turnVars
<1> QED
  BY <1>a, <1>b

\* Clients are closed by an abort or by the close of the session.
LEMMA CloseClientsKeeps ==
    ASSUME Inv, NEW servers \in SUBSET Servers,
           CloseClients(servers, aborted'), aborted' \subseteq 1..NumTurns,
           stage # "done" => aborted' = aborted,
           clients' \subseteq Servers, toClose' \subseteq Servers,
           closing' \in {"open", "closing", "stopped", "closed", "failed"},
           UNCHANGED <<startVars, nextId, received, target, answer, turn, active, failures>>
    PROVE  Inv'
<1>1. RejectPending(servers, aborted') /\ Kill(servers)
  BY DEF CloseClients
<1>2. /\ TableInv'
      /\ pending' \in [Servers -> SUBSET Requests]
      /\ call' \in [Calls -> {"idle", "waiting", "replied", "failed", "aborted"}]
      /\ \A t \in Servers : pending'[t] \subseteq pending[t]
      /\ \A t \in servers : pending'[t] = {}
      /\ \A c \in Calls : call'[c] # call[c] =>
            call[c] = "waiting" /\ call'[c] \in {"failed", "aborted"}
  BY <1>1, RejectKeepsTable DEF Inv
<1>3. /\ child' \in [Servers -> {"none", "set", "unset"}]
      /\ process' \in [Servers -> {"none", "running", "killed", "gone"}]
      /\ \A t \in Servers \ servers : child'[t] = child[t]
  BY <1>1 DEF Kill, Inv, TypeOK
<1>4. TypeOK'
  BY <1>2, <1>3 DEF Inv, TypeOK, startVars
<1>5. Quiet'
  BY <1>2 DEF Inv, Quiet, startVars
<1>6. StartInv' /\ UnsetIsEmpty' /\ OwnReply'
  BY <1>2, <1>3 DEF Inv, StartInv, UnsetIsEmpty, OwnReply, startVars
<1> QED
  BY <1>2, <1>4, <1>5, <1>6 DEF Inv

LEMMA AbortKeeps == ASSUME Inv, Abort PROVE Inv'
<1>1. aborted' \subseteq 1..NumTurns
  <2>1. turn \in Nat /\ turn \in 0..NumTurns /\ aborted \subseteq 1..NumTurns /\ NumTurns \in Nat
    BY McpAssumption DEF Inv, TypeOK
  <2>2. active => turn # 0
    BY DEF Inv, Quiet
  <2> QED
    BY <2>1, <2>2 DEF Abort
<1> DEFINE servers == clients \union
                        {s \in Servers : \E c \in WaitersOf({s}) : TurnOf[c] \in aborted'}
<1>2. servers \in SUBSET Servers
  BY DEF Inv, TypeOK
<1>3. CloseClients(servers, aborted')
  BY DEF Abort
<1> HIDE DEF servers
<1>4. /\ stage = "done" /\ clients' \subseteq Servers
      /\ UNCHANGED <<startVars, nextId, received, target, answer, turn, active, closing, toClose,
                     failures>>
  BY DEF Abort
<1>5. toClose' \subseteq Servers /\ closing' \in {"open", "closing", "stopped", "closed", "failed"}
  BY <1>4 DEF Inv, TypeOK
<1> QED
  BY <1>1, <1>2, <1>3, <1>4, <1>5, CloseClientsKeeps

LEMMA CloseKeeps ==
    ASSUME Inv, Close \/ CloseNext \/ Stopped \/ ClosedAll
    PROVE  Inv'
<1>1. CASE CloseNext
  <2>1. PICK s : /\ s = (CHOOSE t \in toClose : \A u \in toClose : t <= u)
                 /\ CloseClients({s}, aborted) /\ toClose' = toClose \ {s}
    BY <1>1 DEF CloseNext
  <2>2. s \in Servers /\ toClose \subseteq Servers
    <3>1. toClose \subseteq Servers /\ toClose \subseteq Nat /\ toClose # {}
      BY <1>1 DEF CloseNext, Inv, TypeOK, Servers
    <3>2. \E t \in toClose : \A u \in toClose : t <= u
      <4> DEFINE R == {ss \in Nat \X Nat : ss[1] < ss[2]}
      <4>1. IsWellFoundedOn(R, Nat)
        BY NatLessThanWellFounded DEF OpToRel
      <4>2. \A t, u \in Nat : <<u, t>> \notin R => t <= u
        OBVIOUS
      <4> HIDE DEF R
      <4>3. \E t \in toClose : \A u \in toClose : <<u, t>> \notin R
        BY <3>1, <4>1, WFMin
      <4> QED
        BY <3>1, <4>2, <4>3
    <3> QED
      BY <2>1, <3>1, <3>2
  <2>3. /\ closing' = "stopped" /\ clients' \subseteq Servers
        /\ aborted' = aborted /\ aborted' \subseteq 1..NumTurns
        /\ UNCHANGED <<startVars, nextId, received, target, answer, turn, active, failures>>
    BY <1>1 DEF CloseNext, turnVars, Inv, TypeOK
  <2> QED
    BY <2>1, <2>2, <2>3, CloseClientsKeeps
<1>2. CASE Close \/ Stopped \/ ClosedAll
  <2>1. /\ clients' \subseteq Servers /\ toClose' \subseteq Servers
        /\ closing' \in {"open", "closing", "stopped", "closed", "failed"}
        /\ UNCHANGED <<startVars, clientVars, callVars, turnVars>>
    BY <1>2 DEF Close, Stopped, ClosedAll, Inv, TypeOK
  <2>2. failures' \in 0..MaxFailures
    BY <1>2, WriteTypes DEF Close, Stopped, ClosedAll, Inv, TypeOK
  <2>3. TypeOK'
    BY <2>1, <2>2 DEF Inv, TypeOK, startVars, clientVars, callVars, turnVars
  <2> QED
    BY <2>1, <2>3 DEF Inv, TableInv, IdsAreFresh, Owned, Held, Single, Quiet, StartInv,
       UnsetIsEmpty, OwnReply, startVars, clientVars, callVars, turnVars
<1> QED
  BY <1>1, <1>2

LEMMA StutterKeeps == ASSUME Inv, UNCHANGED vars PROVE Inv'
  BY DEF vars, startVars, clientVars, callVars, turnVars, closeVars, Inv, TypeOK, TableInv,
     IdsAreFresh, Owned, Held, Single, Quiet, StartInv, UnsetIsEmpty, OwnReply

LEMMA NextKeeps == ASSUME Inv, [Next]_vars PROVE Inv'
  BY StartSessionKeeps, ConnectKeeps, ReplyKeeps, ExpireKeeps, ExitKeeps, TurnKeeps,
     CallToolKeeps, AbortKeeps, CloseKeeps, StutterKeeps DEF Next

-------------------------------------------------------------------------------
(***************************************************************************)
(* Replies find their calls                                                *)
(***************************************************************************)
LEMMA InvIsConsistent == ASSUME Inv PROVE RepliesFindTheirCalls
<1>1. ASSUME NEW c \in Calls, call[c] = "waiting"
      PROVE  Cardinality({p \in pending[target[c]] : p[2] = c}) = 1
  <2>1. target[c] \in Servers
    BY <1>1 DEF Inv, TableInv, Held
  <2>2. PICK p \in pending[target[c]] : p[2] = c
    BY <1>1 DEF Inv, TableInv, Held
  <2>3. {q \in pending[target[c]] : q[2] = c} = {p}
    BY <2>1, <2>2 DEF Inv, TableInv, Single
  <2> QED
    BY <2>3, FS_Singleton
<1>2. ASSUME NEW c \in Calls, call[c] # "waiting", NEW s \in Servers, NEW p \in pending[s]
      PROVE  p[2] # c
  BY <1>2 DEF Inv, TableInv, Owned
<1>3. \A s \in Servers : \A p, q \in pending[s] : p[1] = q[1] => p = q
  BY DEF Inv, TableInv, IdsAreFresh
<1> QED
  BY <1>1, <1>2, <1>3 DEF RepliesFindTheirCalls, Consistent, Inv, UnsetIsEmpty

\* Every variable of the clients stays of its type, for any servers, calls and
\* turns (extensions/mcp.ts).
THEOREM TypeCorrect == Spec => []TypeOK
<1>1. Inv => TypeOK
  BY DEF Inv
<1> QED
  BY InitInv, NextKeeps, <1>1, PTL DEF Spec

\* However late, often or out of order servers reply, time out, exit or are
\* closed: a call waits exactly as long as its request is in the table, and gets
\* the reply to its own request (mcp.ts:204-284).
THEOREM OwnReplies == Spec => []RepliesFindTheirCalls
  BY InitInv, NextKeeps, InvIsConsistent, PTL DEF Spec

-------------------------------------------------------------------------------
(***************************************************************************)
(* Processes and tools                                                     *)
(***************************************************************************)
\* A process that runs is being started, is that of a connected client while the
\* others are started, or of a client of the session.
RunningInv ==
    /\ stage = "readying" => current \in connected
    /\ \A s \in Servers : process[s] = "running" =>
          \/ stage \in {"initializing", "listing"} /\ s = current
          \/ stage # "done" /\ s \in connected
          \/ stage = "done" /\ s \in clients

\* What close has still to do, once it has begun, covers all that runs.
ClosingInv ==
    /\ closing # "open" => stage \in {"done", "broken"}
    /\ stage = "done" => \A s \in Servers : process[s] = "running" =>
          /\ closing \in {"closing", "stopped"} => s \in toClose
          /\ closing # "closed"

\* An abort leaves no process and no waiting call of its turn.
AbortedInv ==
    /\ aborted # {} => \A s \in Servers : process[s] # "running"
    /\ \A c \in Calls : IsAborted(c) => call[c] # "waiting"

\* The servers come one after the other, and the tools of each have names of
\* their own.
ToolsInv ==
    /\ \A t \in tools :
          /\ t[2] \in used
          /\ t[1] < current \/ (t[1] = current /\ (stage = "readying" \/ failures > 0))
    /\ \A s \in Servers : <<s, "failed">> \in report =>
          s < current \/ (s = current /\ stage \in {"failing", "broken"})
    /\ ToolsAreOwned

AccountInv == RunningInv /\ ClosingInv /\ AbortedInv /\ ToolsInv

LEMMA KillStops ==
    ASSUME TypeOK, NEW servers, Kill(servers)
    PROVE  \A s \in Servers : process'[s] = "running" =>
              process[s] = "running" /\ s \notin servers
  BY DEF Kill, TypeOK

LEMMA InitAccount == Init => AccountInv
  BY DEF Init, AccountInv, RunningInv, ClosingInv, AbortedInv, ToolsInv, ToolsAreOwned

\* The tools and reports of a step that is not one of the start.
LEMMA ToolsRest ==
    ASSUME ToolsInv, UNCHANGED startVars, failures' = failures \/ failures' > 0
    PROVE  ToolsInv'
  BY DEF ToolsInv, ToolsAreOwned, startVars

\* A server fails.
LEMMA FailTools ==
    ASSUME Inv, ToolsInv, current \in Servers, stage' = "failing",
           report' = report \union {<<current, "failed">>},
           UNCHANGED <<current, tools>>, used \subseteq used',
           \/ stage \in {"initializing", "listing"} /\ failures' = failures
           \/ failures' > 0
    PROVE  ToolsInv'
<1>1. /\ stage' = "failing" /\ report' = report \union {<<current, "failed">>}
      /\ UNCHANGED <<current, tools>> /\ used \subseteq used'
  OBVIOUS
<1>2. \A t \in tools : t[1] \in Servers /\ t[1] \in Nat
  BY DEF Inv, TypeOK, Servers
<1>3. \A t \in tools : /\ t[2] \in used
                       /\ t[1] < current \/ (t[1] = current /\ failures' > 0)
  BY DEF ToolsInv
<1>4. failures' = 0 => \A t \in tools : <<t[1], "failed">> \notin report'
  <2> SUFFICES ASSUME failures' = 0, NEW t \in tools PROVE <<t[1], "failed">> \notin report'
    OBVIOUS
  <2>1. failures = 0 /\ t[1] < current /\ t[1] # current
    BY <1>1, <1>2, <1>3 DEF Servers
  <2>2. <<t[1], "failed">> # <<current, "failed">>
    BY <2>1
  <2> QED
    BY <1>1, <2>1, <2>2 DEF ToolsInv, ToolsAreOwned
<1>5. \A s \in Servers : <<s, "failed">> \in report' => s < current \/ s = current
  BY <1>1 DEF ToolsInv
<1> QED
  BY <1>1, <1>3, <1>4, <1>5 DEF ToolsInv, ToolsAreOwned

LEMMA NextTools ==
    ASSUME Inv, ToolsInv, NextServer \/ Break, stage \in {"readying", "failing", "started"},
           failures' = failures \/ failures' > 0,
           stage = "readying" => NextServer,
           UNCHANGED <<connected, used, tools, report>>
    PROVE  ToolsInv'
<1>1. current \in Nat /\ \A s \in Servers : s \in Nat
  BY DEF Inv, TypeOK, Servers
<1>2. \A t \in tools : t[1] \in Nat
  BY <1>1 DEF Inv, TypeOK
<1>3. CASE NextServer
  <2>1. current' = current + 1
    BY <1>3 DEF NextServer
  <2>2. \A t \in tools : t[2] \in used /\ t[1] < current'
    BY <1>1, <1>2, <2>1 DEF ToolsInv
  <2>3. \A s \in Servers : <<s, "failed">> \in report => s < current'
    BY <1>1, <2>1 DEF ToolsInv
  <2>4. ToolsAreOwned'
    BY DEF ToolsInv, ToolsAreOwned
  <2> QED
    BY <2>2, <2>3, <2>4 DEF ToolsInv
<1>4. CASE Break
  <2>1. current' = current /\ stage' = "broken" /\ stage # "readying"
    BY <1>4 DEF NextServer, Break
  <2>2. \A t \in tools : t[2] \in used /\ (t[1] < current \/ (t[1] = current /\ failures' > 0))
    BY <2>1 DEF ToolsInv
  <2>3. ToolsAreOwned'
    BY DEF ToolsInv, ToolsAreOwned
  <2>4. \A s \in Servers : <<s, "failed">> \in report => s < current \/ s = current
    BY DEF ToolsInv
  <2> QED
    BY <2>1, <2>2, <2>3, <2>4 DEF ToolsInv
<1> QED
  BY <1>3, <1>4

LEMMA FreshTools ==
    ASSUME Inv, ToolsInv, stage = "listing", current \in Servers,
           NEW names \in SUBSET Names, FreshNames(current, names), failures' = failures
    PROVE  ToolsInv'
<1>1. /\ names \intersect used = {} /\ used' = used \union names
      /\ tools' = tools \union ({current} \X names)
      /\ report' = report \union {<<current, "ready">>}
      /\ stage' = "readying" /\ current' = current
  BY DEF FreshNames
<1>2. \A t \in tools : /\ t[2] \in used
                       /\ t[1] < current \/ (t[1] = current /\ failures > 0)
  BY DEF ToolsInv
<1>3. \A t \in {current} \X names : t[1] = current /\ t[2] \in names /\ t = <<t[1], t[2]>>
  OBVIOUS
<1>4. \A t, u \in tools' : t[2] = u[2] => t = u
  <2>1. \A t, u \in tools : t[2] = u[2] => t = u
    BY DEF ToolsInv, ToolsAreOwned
  <2>2. \A t, u \in {current} \X names : t[2] = u[2] => t = u
    BY <1>3
  <2>3. \A t \in tools, u \in {current} \X names : t[2] # u[2]
    BY <1>1, <1>2, <1>3
  <2> QED
    BY <1>1, <2>1, <2>2, <2>3
<1>5. <<current, "failed">> \notin report
  <2>1. current \in Nat
    BY DEF Servers
  <2> QED
    BY <2>1 DEF ToolsInv
<1>6. \A s \in Servers : <<s, "failed">> \in report' => <<s, "failed">> \in report
  BY <1>1
<1>7. tools \subseteq Servers \X Names
  BY DEF Inv, TypeOK
<1>8. failures' = 0 => \A t \in tools' : <<t[1], "failed">> \notin report'
  <2> SUFFICES ASSUME failures' = 0, NEW t \in tools' PROVE <<t[1], "failed">> \notin report'
    OBVIOUS
  <2>1. CASE t \in tools
    BY <2>1, <1>6, <1>7 DEF ToolsInv, ToolsAreOwned
  <2>2. CASE t \notin tools
    BY <2>2, <1>1, <1>3, <1>5, <1>6
  <2> QED
    BY <2>1, <2>2
<1>9. \A t \in tools' : /\ t[2] \in used'
                        /\ t[1] < current \/ t[1] = current
  BY <1>1, <1>2, <1>3
<1>10. \A s \in Servers : <<s, "failed">> \in report' => s < current
  BY <1>6 DEF ToolsInv
<1> QED
  BY <1>1, <1>4, <1>8, <1>9, <1>10 DEF ToolsInv, ToolsAreOwned

\* The stage moves on, and no tool or report with it.
LEMMA StageTools ==
    ASSUME ToolsInv, stage \notin {"readying", "failing", "broken"},
           UNCHANGED <<current, used, tools, report, failures>>
    PROVE  ToolsInv'
<1>1. /\ \A t \in tools : t[2] \in used /\ (t[1] < current \/ (t[1] = current /\ failures > 0))
      /\ \A s \in Servers : <<s, "failed">> \in report => s < current
      /\ ToolsAreOwned
  BY DEF ToolsInv
<1>2. ToolsAreOwned'
  BY <1>1 DEF ToolsAreOwned
<1> QED
  BY <1>1, <1>2 DEF ToolsInv

\* Processes end and calls are settled.
LEMMA ShrinkAccounts ==
    ASSUME AccountInv, UNCHANGED <<startVars, clients, closing, toClose, aborted, failures>>,
           \A s \in Servers : process'[s] = "running" => process[s] = "running",
           \A c \in Calls : call'[c] = "waiting" => call[c] = "waiting"
    PROVE  AccountInv'
<1>1. ToolsInv'
  BY ToolsRest DEF AccountInv
<1>2. RunningInv' /\ ClosingInv'
  BY DEF AccountInv, RunningInv, ClosingInv, startVars
<1>3. AbortedInv'
  BY DEF AccountInv, AbortedInv, IsAborted
<1> QED
  BY <1>1, <1>2, <1>3 DEF AccountInv

\* Steps of the start: no turn, no call, no close.
LEMMA StartAccounts ==
    ASSUME Inv, AccountInv, stage \notin {"done", "broken"}, ToolsInv', RunningInv',
           UNCHANGED <<aborted, closing>>
    PROVE  AccountInv'
<1>1. closing = "open" /\ aborted = {}
  BY DEF Inv, Quiet, AccountInv, ClosingInv
<1> QED
  BY <1>1 DEF AccountInv, ClosingInv, AbortedInv, IsAborted

LEMMA StartSessionAccounts == ASSUME Inv, AccountInv, StartSession PROVE AccountInv'
<1>1. /\ stage = "off" /\ UNCHANGED <<current, connected, used, tools, report, failures, aborted, closing,
                                     process, clients>>
      /\ IF NumServers = 0 THEN stage' = "done" ELSE stage' = "started"
  BY DEF StartSession, clientVars, turnVars, closeVars
<1>2. NumServers = 0 => Servers = {}
  BY DEF Servers
<1>3. RunningInv'
  BY <1>1, <1>2 DEF AccountInv, RunningInv
<1> QED
  BY <1>1, <1>3, StageTools, StartAccounts DEF AccountInv

LEMMA FailAccounts ==
    ASSUME Inv, AccountInv, current \in Servers, stage \in {"initializing", "listing", "readying"},
           stage' = "failing", report' = report \union {<<current, "failed">>},
           UNCHANGED <<current, connected, tools, aborted, closing>>, used \subseteq used',
           \/ stage \in {"initializing", "listing"} /\ failures' = failures
           \/ failures' > 0,
           \A s \in Servers : process'[s] = "running" => process[s] = "running" /\ s # current
    PROVE  AccountInv'
<1>1. ToolsInv'
  BY FailTools DEF AccountInv
<1>2. RunningInv'
  BY DEF AccountInv, RunningInv
<1> QED
  BY <1>1, <1>2, StartAccounts

LEMMA NextServerAccounts ==
    ASSUME Inv, AccountInv, stage \in {"readying", "failing", "started"}, NextServer \/ Break,
           stage = "readying" => NextServer, failures' = failures \/ failures' > 0,
           UNCHANGED <<connected, used, tools, report, process, aborted, closing>>
    PROVE  AccountInv'
<1>1. ToolsInv'
  BY NextTools DEF AccountInv
<1>2. RunningInv'
  BY DEF AccountInv, RunningInv, NextServer, Break
<1> QED
  BY <1>1, <1>2, StartAccounts

LEMMA ConnectAccounts == ASSUME Inv, AccountInv, Connect PROVE AccountInv'
<1>0. Written \/ NotWritten => failures' = failures \/ failures' > 0
  BY DEF Written, NotWritten, Inv, TypeOK
<1>1. stage \in Starting \ {"off"} => current \in Servers
  BY DEF Inv, StartInv
<1>a. CASE ServerStarted
  <2>1. CASE Break /\ UNCHANGED <<child, process, nextId, pending, received>>
    BY <1>a, <1>0, <2>1, NextServerAccounts DEF ServerStarted, turnVars
  <2>2. CASE Written /\ stage' = "initializing" /\ UNCHANGED <<current, clients>>
             /\ process' = [process EXCEPT ![current] = "running"]
    <3>1. ToolsInv'
      BY <1>a, <2>2, StageTools DEF ServerStarted, Written, AccountInv
    <3>2. \A s \in Servers \ {current} : process'[s] = process[s]
      BY <2>2 DEF Inv, TypeOK
    <3>3. RunningInv'
      BY <1>a, <2>2, <3>2 DEF ServerStarted, AccountInv, RunningInv
    <3> QED
      BY <1>a, <3>1, <3>3, StartAccounts DEF ServerStarted, turnVars
  <2> QED
    BY <1>a, <2>1, <2>2 DEF ServerStarted
<1>b. CASE Ready
  <2>1. current \in Servers /\ stage = "readying"
    BY <1>b, <1>1 DEF Ready, Starting
  <2>2. CASE Written /\ NextServer
             /\ UNCHANGED <<connected, used, tools, report, child, process, pending, call>>
    BY <1>b, <1>0, <2>1, <2>2, NextServerAccounts DEF Ready, turnVars
  <2>3. CASE NotWritten /\ ServerFails(current) /\ CloseClients({current}, aborted)
    <3>1. \A s \in Servers : process'[s] = "running" => process[s] = "running" /\ s # current
      BY <2>3, KillStops DEF CloseClients, Inv
    <3>2. failures' > 0
      BY <2>3 DEF NotWritten, Inv, TypeOK
    <3> QED
      BY <1>b, <2>1, <2>3, <3>1, <3>2, FailAccounts DEF Ready, ServerFails, turnVars
  <2> QED
    BY <1>b, <2>2, <2>3 DEF Ready
<1>c. CASE Failed
  BY <1>c, <1>0, NextServerAccounts DEF Failed, clientVars, turnVars
<1> QED
  BY <1>a, <1>b, <1>c DEF Connect

LEMMA StartFailsAccounts ==
    ASSUME Inv, AccountInv, current \in Servers, stage \in {"initializing", "listing"},
           StartFails(current), UNCHANGED <<turnVars, closing, failures>>
    PROVE  AccountInv'
<1>1. \A s \in Servers : process'[s] = "running" => process[s] = "running" /\ s # current
  BY KillStops DEF StartFails, CloseClients, Inv
<1> QED
  BY <1>1, FailAccounts DEF StartFails, ServerFails, turnVars

LEMMA ListedAccounts ==
    ASSUME Inv, AccountInv, current \in Servers, Listed(current),
           UNCHANGED <<turnVars, closing, failures>>
    PROVE  AccountInv'
<1>1. PICK names \in SUBSET Names : FreshNames(current, names) \/ TakenName(current, names)
  BY DEF Listed
<1>2. stage = "listing"
  BY DEF Listed
<1>3. CASE FreshNames(current, names)
  <2>1. ToolsInv'
    BY <1>2, <1>3, FreshTools DEF AccountInv
  <2>2. RunningInv'
    BY <1>2, <1>3 DEF FreshNames, AccountInv, RunningInv
  <2> QED
    BY <1>2, <2>1, <2>2, StartAccounts DEF turnVars
<1>4. CASE TakenName(current, names)
  <2>1. \A s \in Servers : process'[s] = "running" => process[s] = "running" /\ s # current
    BY <1>4, KillStops DEF TakenName, Inv
  <2>2. used \subseteq used'
    BY <1>4 DEF TakenName
  <2>3. /\ stage' = "failing" /\ report' = report \union {<<current, "failed">>}
        /\ UNCHANGED <<current, connected, tools>>
    BY <1>4 DEF TakenName
  <2> QED
    BY <1>2, <2>1, <2>2, <2>3, FailAccounts DEF turnVars
<1> QED
  BY <1>1, <1>3, <1>4

LEMMA InitializedAccounts ==
    ASSUME Inv, AccountInv, current \in Servers, Initialized(current),
           UNCHANGED <<turnVars, closing, failures>>
    PROVE  AccountInv'
<1>1. /\ stage = "initializing" /\ stage' = "listing"
      /\ UNCHANGED <<current, connected, used, tools, report, process>>
  BY DEF Initialized
<1>2. ToolsInv'
  BY <1>1, StageTools DEF AccountInv
<1>3. RunningInv'
  BY <1>1 DEF AccountInv, RunningInv
<1> QED
  BY <1>1, <1>2, <1>3, StartAccounts DEF turnVars

LEMMA ServerAccounts ==
    ASSUME Inv, AccountInv, NEW s \in Servers, Reply(s) \/ Expire(s) \/ Exit(s)
    PROVE  AccountInv'
<1>1. ASSUME NEW p \in pending[s], p[2] = None
      PROVE  stage \in {"initializing", "listing"} /\ s = current
  BY <1>1, StartRequest
<1>2. ASSUME NEW p \in pending[s], p[2] # None,
             \/ call' = [call EXCEPT ![p[2]] = "replied"]
             \/ call' = Rejected({p[2]}, aborted)
      PROVE  \A c \in Calls : call'[c] = "waiting" => call[c] = "waiting"
  <2>1. p[2] \in Calls
    BY <1>2 DEF Inv, TypeOK, Requests
  <2> QED
    BY <1>2, <2>1 DEF Rejected, Inv, TypeOK
<1>a. CASE Reply(s)
  <2>1. PICK r \in received[s] :
        /\ \/ UNCHANGED <<startVars, child, process, nextId, pending, received, call, answer, clients>>
           \/ \E p \in pending[s] :
                 /\ p[2] # None
                 /\ call' = [call EXCEPT ![p[2]] = "replied"] \/ call' = Rejected({p[2]}, aborted)
                 /\ UNCHANGED <<startVars, child, process, nextId, received, clients>>
           \/ \E p \in pending[s] :
                 p[2] = None /\ (Initialized(s) \/ Listed(s) \/ StartFails(s))
        /\ UNCHANGED <<target, turnVars, closing, toClose, failures>>
    BY <1>a DEF Reply
  <2>2. CASE UNCHANGED <<startVars, child, process, nextId, pending, received, call, answer, clients>>
    BY <2>1, <2>2, ShrinkAccounts DEF turnVars
  <2>3. CASE \E p \in pending[s] :
               /\ p[2] # None
               /\ call' = [call EXCEPT ![p[2]] = "replied"] \/ call' = Rejected({p[2]}, aborted)
               /\ UNCHANGED <<startVars, child, process, nextId, received, clients>>
    <3>1. \A c \in Calls : call'[c] = "waiting" => call[c] = "waiting"
      BY <1>2, <2>3
    <3> QED
      BY <2>1, <2>3, <3>1, ShrinkAccounts DEF turnVars
  <2>4. CASE \E p \in pending[s] :
               p[2] = None /\ (Initialized(s) \/ Listed(s) \/ StartFails(s))
    <3>1. stage \in {"initializing", "listing"} /\ s = current
      BY <1>1, <2>4
    <3> QED
      BY <2>1, <2>4, <3>1, InitializedAccounts, ListedAccounts, StartFailsAccounts
  <2> QED
    BY <2>1, <2>2, <2>3, <2>4
<1>b. CASE Expire(s)
  <2>1. PICK p \in pending[s] :
        /\ \/ /\ p[2] # None /\ call' = Rejected({p[2]}, aborted)
              /\ UNCHANGED <<startVars, child, process, nextId, received, clients>>
           \/ p[2] = None /\ StartFails(s)
        /\ UNCHANGED <<target, answer, turnVars, closing, toClose, failures>>
    BY <1>b DEF Expire
  <2>2. CASE p[2] # None
    <3>1. \A c \in Calls : call'[c] = "waiting" => call[c] = "waiting"
      BY <1>2, <2>1, <2>2
    <3> QED
      BY <2>1, <2>2, <3>1, ShrinkAccounts DEF turnVars
  <2>3. CASE p[2] = None
    BY <1>1, <2>1, <2>3, StartFailsAccounts
  <2> QED
    BY <2>2, <2>3
<1>c. CASE Exit(s)
  <2>1. /\ \A t \in Servers : process'[t] = "running" => process[t] = "running" /\ t # s
        /\ UNCHANGED <<turnVars, closing, toClose, failures>>
    BY <1>c DEF Exit, Inv, TypeOK
  <2>2. CASE <<nextId[s], None>> \in pending[s]
    <3>1. stage \in {"initializing", "listing"} /\ s = current
      BY <1>1, <2>2
    <3>2. ServerFails(s)
      BY <1>c, <2>2 DEF Exit
    <3> QED
      BY <2>1, <3>1, <3>2, FailAccounts DEF ServerFails, turnVars
  <2>3. CASE <<nextId[s], None>> \notin pending[s]
    <3>1. RejectPending({s}, aborted) /\ UNCHANGED <<startVars, clients>>
      BY <1>c, <2>3 DEF Exit
    <3>2. \A c \in Calls : call'[c] = "waiting" => call[c] = "waiting"
      BY <3>1, RejectedTypes DEF RejectPending, Inv
    <3> QED
      BY <2>1, <3>1, <3>2, ShrinkAccounts DEF turnVars
  <2> QED
    BY <2>2, <2>3
<1> QED
  BY <1>a, <1>b, <1>c

LEMMA TurnAccounts == ASSUME Inv, AccountInv, BeginTurn \/ EndTurn PROVE AccountInv'
<1>1. UNCHANGED <<startVars, clientVars, callVars, closeVars, aborted, failures>>
  BY DEF BeginTurn, EndTurn
<1> QED
  BY <1>1, ShrinkAccounts DEF clientVars, callVars, closeVars

LEMMA CallToolAccounts == ASSUME Inv, AccountInv, NEW c \in Calls, CallTool(c) PROVE AccountInv'
<1>1. UNCHANGED <<startVars, process, turnVars, closeVars, failures>>
  BY DEF CallTool
<1>2. \/ call' = Rejected({c}, aborted)
      \/ ~IsAborted(c) /\ call' = [call EXCEPT ![c] = "waiting"]
  BY DEF CallTool
<1>3. \A d \in Calls : call'[d] = "waiting" => call[d] = "waiting" \/ (d = c /\ ~IsAborted(c))
  <2>1. CASE call' = Rejected({c}, aborted)
    BY <2>1, RejectedTypes DEF Inv
  <2>2. CASE ~IsAborted(c) /\ call' = [call EXCEPT ![c] = "waiting"]
    BY <2>2 DEF Inv, TypeOK
  <2> QED
    BY <1>2, <2>1, <2>2
<1>4. AbortedInv'
  BY <1>1, <1>3 DEF AccountInv, AbortedInv, IsAborted, turnVars
<1>5. RunningInv' /\ ClosingInv'
  BY <1>1 DEF AccountInv, RunningInv, ClosingInv, startVars, closeVars
<1>6. ToolsInv'
  BY <1>1, ToolsRest DEF AccountInv
<1> QED
  BY <1>4, <1>5, <1>6 DEF AccountInv

\* Every process that runs is that of a client, and an abort closes them all.
LEMMA AbortAccounts == ASSUME Inv, AccountInv, Abort PROVE AccountInv'
<1> DEFINE servers == clients \union
                        {s \in Servers : \E c \in WaitersOf({s}) : TurnOf[c] \in aborted'}
<1>1. servers \in SUBSET Servers
  BY DEF Inv, TypeOK
<1>2. RejectPending(servers, aborted') /\ Kill(servers)
  BY DEF Abort, CloseClients
<1>3. stage = "done" /\ UNCHANGED <<startVars, nextId, received, target, closing, toClose, failures>>
  BY DEF Abort
<1>4. \A s \in Servers : process'[s] # "running"
  <2>1. \A s \in Servers : process'[s] = "running" => process[s] = "running" /\ s \notin clients
    BY <1>2, KillStops DEF Inv
  <2> QED
    BY <1>3, <2>1 DEF AccountInv, RunningInv
<1>5. \A c \in Calls : IsAborted(c)' => call'[c] # "waiting"
  <2> SUFFICES ASSUME NEW c \in Calls, TurnOf[c] \in aborted', call'[c] = "waiting"
               PROVE  FALSE
    BY DEF IsAborted
  <2> HIDE DEF servers
  <2>1. /\ \A d \in Calls : call'[d] # call[d] => call'[d] \in {"failed", "aborted"}
        /\ \A d \in Calls : call'[d] = "waiting" => target[d] \notin servers
    BY <1>1, <1>2, <1>3, RejectKeepsTable DEF Inv
  <2>2. call[c] = "waiting" /\ target[c] \notin servers
    BY <2>1
  <2>3. target[c] \in Servers /\ c \in WaitersOf({target[c]})
    BY <2>2 DEF Inv, TableInv, Held, WaitersOf
  <2> QED
    BY <2>2, <2>3 DEF servers
<1>6. AbortedInv'
  BY <1>4, <1>5 DEF AbortedInv, IsAborted
<1>7. RunningInv' /\ ClosingInv'
  BY <1>3, <1>4 DEF AccountInv, RunningInv, ClosingInv, startVars
<1>8. ToolsInv'
  BY <1>3, ToolsRest DEF AccountInv
<1> QED
  BY <1>6, <1>7, <1>8 DEF AccountInv

LEMMA CloseAccounts ==
    ASSUME Inv, AccountInv, Close \/ CloseNext \/ Stopped \/ ClosedAll
    PROVE  AccountInv'
<1>a. CASE CloseNext
  <2>1. PICK s : CloseClients({s}, aborted) /\ toClose' = toClose \ {s}
    BY <1>a DEF CloseNext
  <2>2. closing = "closing" /\ closing' = "stopped"
        /\ UNCHANGED <<startVars, aborted, clients, failures>>
    BY <1>a DEF CloseNext, turnVars
  <2>3. \A t \in Servers : process'[t] = "running" => process[t] = "running" /\ t # s
    BY <2>1, KillStops DEF CloseClients, Inv
  <2>4. \A c \in Calls : call'[c] = "waiting" => call[c] = "waiting"
    BY <2>1, RejectedTypes DEF CloseClients, RejectPending, Inv
  <2>5. RunningInv' /\ ClosingInv'
    BY <2>1, <2>2, <2>3 DEF AccountInv, RunningInv, ClosingInv, startVars
  <2>6. AbortedInv'
    BY <2>2, <2>3, <2>4 DEF AccountInv, AbortedInv, IsAborted
  <2>7. ToolsInv'
    BY <2>2, ToolsRest DEF AccountInv
  <2> QED
    BY <2>5, <2>6, <2>7 DEF AccountInv
<1>b. CASE Close \/ Stopped \/ ClosedAll
  <2>1. UNCHANGED <<startVars, clientVars, callVars, turnVars>>
    BY <1>b DEF Close, Stopped, ClosedAll
  <2>2. failures' = failures \/ failures' > 0
    BY <1>b DEF Close, Stopped, ClosedAll, Written, NotWritten, Inv, TypeOK
  <2>3. ToolsInv'
    BY <2>1, <2>2, ToolsRest DEF AccountInv
  <2>4. AbortedInv'
    BY <2>1 DEF AccountInv, AbortedInv, IsAborted, clientVars, callVars, turnVars
  <2>5. RunningInv' /\ ClosingInv'
    <3>1. CASE Close
      BY <2>1, <3>1 DEF Close, AccountInv, RunningInv, ClosingInv, startVars, clientVars
    <3>2. CASE Stopped
      BY <2>1, <3>2 DEF Stopped, AccountInv, RunningInv, ClosingInv, startVars, clientVars
    <3>3. CASE ClosedAll
      <4>1. stage = "done" => \A s \in Servers : process[s] # "running"
        BY <3>3 DEF ClosedAll, AccountInv, ClosingInv
      <4> QED
        BY <2>1, <3>3, <4>1 DEF ClosedAll, AccountInv, RunningInv, ClosingInv, startVars, clientVars
    <3> QED
      BY <1>b, <3>1, <3>2, <3>3
  <2> QED
    BY <2>3, <2>4, <2>5 DEF AccountInv
<1> QED
  BY <1>a, <1>b

LEMMA StutterAccounts == ASSUME Inv, AccountInv, UNCHANGED vars PROVE AccountInv'
  BY ShrinkAccounts DEF vars, clientVars, callVars, turnVars, closeVars

LEMMA NextAccounts == ASSUME Inv, AccountInv, [Next]_vars PROVE AccountInv'
  BY StartSessionAccounts, ConnectAccounts, ServerAccounts, TurnAccounts, CallToolAccounts,
     AbortAccounts, CloseAccounts, StutterAccounts DEF Next

LEMMA AccountsAreKept == ASSUME Inv, AccountInv PROVE ServersAreAccounted
<1>1. stage = "done" /\ closing = "closed" => \A s \in Servers : process[s] # "running"
  BY DEF AccountInv, ClosingInv
<1>2. ASSUME NEW c \in Calls, IsAborted(c), target[c] # 0
      PROVE  call[c] # "waiting" /\ process[target[c]] # "running"
  <2>1. target[c] \in Servers
    BY <1>2 DEF Inv, TypeOK
  <2>2. aborted # {}
    BY <1>2 DEF IsAborted
  <2> QED
    BY <1>2, <2>1, <2>2 DEF AccountInv, AbortedInv
<1>3. ServersStop
  BY <1>1, <1>2 DEF ServersStop
<1>4. ToolsAreOwned
  BY DEF AccountInv, ToolsInv
<1> QED
  BY <1>3, <1>4 DEF ServersAreAccounted

\* Whichever writes fail, replies come or processes exit: a session that started
\* leaves no server running when it has closed, nor one that an aborted call was
\* at, and no tool has the name of another (mcp.ts:79-110,
\* AgentSession.ts:319-338).
THEOREM NothingIsLeft == Spec => []ServersAreAccounted
<1>1. Init => Inv /\ AccountInv
  BY InitInv, InitAccount
<1>2. Inv /\ AccountInv /\ [Next]_vars => (Inv /\ AccountInv)'
  BY NextKeeps, NextAccounts
<1>3. Inv /\ AccountInv => ServersAreAccounted
  BY AccountsAreKept
<1> QED
  BY <1>1, <1>2, <1>3, PTL DEF Spec
===============================================================================
