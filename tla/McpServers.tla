------------------------------ MODULE McpServers ------------------------------
(***************************************************************************)
(* extensions/mcp.ts and the part of core/AgentSession.ts that owns its    *)
(* clients: the servers are started one after the other when the session   *)
(* starts, their tools are registered, tool calls are requests that a      *)
(* reply, a timer, an abort, the exit of the server or the closing of the  *)
(* client settles.                                                         *)
(*                                                                         *)
(* A request is <<id, who>>: who (a call, or None for the requests of the  *)
(* start) is what the server answers, and the client knows the id only.    *)
(***************************************************************************)
EXTENDS Naturals, FiniteSets

CONSTANTS
    NumServers,  \* bound: configured servers, in order
    Calls,       \* tool calls
    TurnOf,      \* the turn of each call
    NumTurns,    \* bound: turns
    Names,       \* sanitized tool names
    None,        \* no call: the start
    MaxFailures  \* bound: event writes that fail

Servers == 1..NumServers

ASSUME McpAssumption ==
    /\ NumServers \in Nat /\ NumTurns \in Nat /\ MaxFailures \in Nat
    /\ None \notin Calls
    /\ TurnOf \in [Calls -> 1..NumTurns]

VARIABLES
    stage,       \* where initializeExtensions is
    current,     \* the server it is at
    connected,   \* clients it has connected so far
    used,        \* usedToolNames
    tools,       \* tools of the connected servers: <<server, name>>
    report,      \* the servers of the context snapshot: <<server, status>>
    child,       \* the child field of a client
    process,     \* the process itself
    nextId,      \* the nextId field of a client
    pending,     \* requests in its pending table, each with a timer
    received,    \* requests the server has got and may answer
    call,        \* where a tool call is
    target,      \* the server it goes to
    answer,      \* whose request its reply is an answer to
    turn,        \* the latest turn
    active,      \* whether it is the active turn
    aborted,     \* turns whose signal is aborted
    clients,     \* mcpClients of the session
    closing,     \* where close of the session is
    toClose,     \* clients its loop has not come to
    failures     \* writes that have failed so far

startVars == <<stage, current, connected, used, tools, report>>
clientVars == <<child, process, nextId, pending, received>>
callVars == <<call, target, answer>>
turnVars == <<turn, active, aborted>>
closeVars == <<clients, closing, toClose>>
vars == <<startVars, clientVars, callVars, turnVars, closeVars, failures>>

Starting == {"off", "started", "initializing", "listing", "readying", "failing"}
Requests == Nat \X (Calls \union {None})

TypeOK ==
    /\ stage \in Starting \union {"done", "broken"}
    /\ current \in 1..NumServers + 1
    /\ connected \subseteq Servers
    /\ used \subseteq Names
    /\ tools \subseteq Servers \X Names
    /\ report \subseteq Servers \X {"ready", "failed"}
    /\ child \in [Servers -> {"none", "set", "unset"}]
    /\ process \in [Servers -> {"none", "running", "killed", "gone"}]
    /\ nextId \in [Servers -> Nat]
    /\ pending \in [Servers -> SUBSET Requests]
    /\ received \in [Servers -> SUBSET Requests]
    /\ call \in [Calls -> {"idle", "waiting", "replied", "failed", "aborted"}]
    /\ target \in [Calls -> Servers \union {0}]
    /\ answer \in [Calls -> Calls \union {None}]
    /\ turn \in 0..NumTurns /\ active \in BOOLEAN /\ aborted \subseteq 1..NumTurns
    /\ clients \subseteq Servers
    /\ closing \in {"open", "closing", "stopped", "closed", "failed"}
    /\ toClose \subseteq Servers
    /\ failures \in 0..MaxFailures

Init ==
    /\ stage = "off" /\ current = 1
    /\ connected = {} /\ used = {} /\ tools = {} /\ report = {}
    /\ child = [s \in Servers |-> "none"]
    /\ process = [s \in Servers |-> "none"]
    /\ nextId = [s \in Servers |-> 0]
    /\ pending = [s \in Servers |-> {}]
    /\ received = [s \in Servers |-> {}]
    /\ call = [c \in Calls |-> "idle"]
    /\ target = [c \in Calls |-> 0]
    /\ answer = [c \in Calls |-> None]
    /\ turn = 0 /\ active = FALSE /\ aborted = {}
    /\ clients = {} /\ closing = "open" /\ toClose = {}
    /\ failures = 0

-------------------------------------------------------------------------------
Written == UNCHANGED failures
NotWritten == failures < MaxFailures /\ failures' = failures + 1

IsAborted(c) == TurnOf[c] \in aborted

\* Tool calls waiting for one of the servers.
WaitersOf(servers) ==
    {c \in Calls : \E s \in servers : \E p \in pending[s] : p[2] = c}

\* What callTool makes of a rejected request.
Rejected(cs, ab) ==
    [c \in Calls |-> IF c \notin cs THEN call[c]
                     ELSE IF TurnOf[c] \in ab THEN "aborted" ELSE "failed"]

\* Wrong: the table and its timers are cleared and nobody is told.
ForgetPending(servers, ab) ==
    /\ pending' = [s \in Servers |-> IF s \in servers THEN {} ELSE pending[s]]
    /\ UNCHANGED call

\* rejectPending of some clients; ab are the aborted turns.
RejectPending(servers, ab) ==
    /\ pending' = [s \in Servers |-> IF s \in servers THEN {} ELSE pending[s]]
    /\ call' = Rejected(WaitersOf(servers), ab)

Kill(servers) ==
    /\ child' = [s \in Servers |-> IF s \in servers THEN "unset" ELSE child[s]]
    /\ process' = [s \in Servers |->
                     IF s \in servers /\ process[s] = "running" THEN "killed"
                     ELSE process[s]]

CloseClients(servers, ab) ==
    /\ RejectPending(servers, ab)
    /\ Kill(servers)

\* Wrong: the id is the number of requests on their way.
NumberOfPending(s) == Cardinality(pending[s]) + 1

FreshId(s) == nextId[s] + 1

\* request, its message written to a server that may be gone; rest is what the
\* table holds besides.
Request(s, who, rest) ==
    LET r == <<FreshId(s), who>>
    IN  /\ nextId' = [nextId EXCEPT ![s] = FreshId(s)]
        /\ pending' = [pending EXCEPT ![s] = rest \union {r}]
        /\ received' = IF process[s] \in {"running", "killed"}
                       THEN [received EXCEPT ![s] = @ \union {r}] ELSE received

-------------------------------------------------------------------------------
(***************************************************************************)
(* start of the session: connectMcpServers                                 *)
(***************************************************************************)
\* The next server, or the end: the tools are registered and the clients are
\* the session's.
NextServer ==
    /\ current' = current + 1
    /\ IF current = NumServers
       THEN stage' = "done" /\ clients' = connected
       ELSE stage' = "started" /\ UNCHANGED clients

\* A write failed that is not caught: the session has no clients, and start,
\* called again, does not connect again.
Break == stage' = "broken" /\ UNCHANGED <<current, clients>>

\* The catch block of a server, up to its write.
ServerFails(s) ==
    /\ stage' = "failing"
    /\ report' = report \union {<<s, "failed">>}
    /\ UNCHANGED <<current, connected, used, tools, clients>>

StartSession ==
    /\ stage = "off"
    /\ IF NumServers = 0 THEN stage' = "done" ELSE stage' = "started"
    /\ UNCHANGED <<current, connected, used, tools, report, clientVars, callVars,
                   turnVars, closeVars, failures>>

\* mcp.server.started is written; the server is spawned and asked to
\* initialize.  A command that cannot be run is a server that is gone.  A name
\* that cannot be sanitized throws like a failed write.
ServerStarted ==
    LET s == current IN
    /\ stage = "started"
    /\ \/ /\ Written
          /\ stage' = "initializing"
          /\ child' = [child EXCEPT ![s] = "set"]
          /\ process' = [process EXCEPT ![s] = "running"]
          /\ nextId' = [nextId EXCEPT ![s] = FreshId(s)]
          /\ pending' = [pending EXCEPT ![s] = {<<FreshId(s), None>>}]
          /\ received' = [received EXCEPT ![s] = {<<FreshId(s), None>>}]
          /\ UNCHANGED <<current, clients>>
       \/ /\ Written \/ NotWritten
          /\ Break
          /\ UNCHANGED <<child, process, nextId, pending, received>>
    /\ UNCHANGED <<connected, used, tools, report, callVars, turnVars,
                   closing, toClose>>

\* The reply to initialize has come: tools/list is asked for.
Initialized(s) ==
    /\ stage = "initializing"
    /\ stage' = "listing"
    /\ Request(s, None, {})
    /\ UNCHANGED <<current, connected, used, tools, report, child, process, call,
                   clients>>

\* Wrong: the names are not compared with those of the servers before.
AnyNames(s, names) ==
    /\ used' = used \union names
    /\ connected' = connected \union {s}
    /\ tools' = tools \union ({s} \X names)
    /\ report' = report \union {<<s, "ready">>}
    /\ stage' = "readying"
    /\ UNCHANGED <<current, child, process, call, clients>>

\* adaptMcpTool and the comparison of the names, and the server is ready.
FreshNames(s, names) ==
    /\ names \intersect used = {}
    /\ used' = used \union names
    /\ connected' = connected \union {s}
    /\ tools' = tools \union ({s} \X names)
    /\ report' = report \union {<<s, "ready">>}
    /\ stage' = "readying"
    /\ UNCHANGED <<current, child, process, call, clients>>

\* A name is taken; the names in front of it stay used.
TakenName(s, names) ==
    /\ names \intersect used # {}
    /\ \E before \in SUBSET (names \ used) : used' = used \union before
    /\ Kill({s})
    /\ stage' = "failing"
    /\ report' = report \union {<<s, "failed">>}
    /\ UNCHANGED <<current, connected, tools, call, clients>>

Listed(s) ==
    /\ stage = "listing"
    /\ pending' = [pending EXCEPT ![s] = {}]
    /\ \E names \in SUBSET Names : FreshNames(s, names) \/ TakenName(s, names)
    /\ UNCHANGED <<nextId, received>>

\* Wrong: the failed server is left running.
StartFailsOnly(s) ==
    /\ ServerFails(s)
    /\ RejectPending({s}, aborted)
    /\ UNCHANGED <<child, process, nextId, received>>

\* A request of the start is rejected: an error reply, the timer, the exit; or
\* its result makes no sense.
StartFails(s) ==
    /\ ServerFails(s)
    /\ CloseClients({s}, aborted)
    /\ UNCHANGED <<nextId, received>>

\* mcp.server.ready; if it cannot be written the server fails after all, and
\* stays among the clients and its tools among the tools.
Ready ==
    LET s == current IN
    /\ stage = "readying"
    /\ \/ /\ Written /\ NextServer
          /\ UNCHANGED <<connected, used, tools, report, child, process, pending, call>>
       \/ NotWritten /\ ServerFails(s) /\ CloseClients({s}, aborted)
    /\ UNCHANGED <<nextId, received, target, answer, turnVars, closing,
                   toClose>>

\* mcp.server.failed.
Failed ==
    /\ stage = "failing"
    /\ \/ Written /\ NextServer
       \/ NotWritten /\ Break
    /\ UNCHANGED <<connected, used, tools, report, clientVars, callVars, turnVars,
                   closing, toClose>>

-------------------------------------------------------------------------------
(***************************************************************************)
(* Servers, their replies and their exits                                  *)
(***************************************************************************)
\* A server answers what it has got, in any order, never, once or again, and
\* what it has written is read even after it has gone.  handleStdout for one
\* line: the request with this id is settled, by a result or an error; a reply
\* that comes too late finds none.
Reply(s) ==
    \E r \in received[s] :
        /\ \/ /\ \A p \in pending[s] : p[1] # r[1]
              /\ UNCHANGED <<startVars, child, process, nextId, pending, received,
                             call, answer, clients>>
           \/ \E p \in pending[s] :
                 /\ p[1] = r[1] /\ p[2] # None
                 /\ pending' = [pending EXCEPT ![s] = @ \ {p}]
                 /\ \/ /\ call' = [call EXCEPT ![p[2]] = "replied"]
                       /\ answer' = [answer EXCEPT ![p[2]] = r[2]]
                    \/ call' = Rejected({p[2]}, aborted) /\ UNCHANGED answer
                 /\ UNCHANGED <<startVars, child, process, nextId, received, clients>>
           \/ \E p \in pending[s] :
                 /\ p[1] = r[1] /\ p[2] = None
                 /\ Initialized(s) \/ Listed(s) \/ StartFails(s)
                 /\ UNCHANGED answer
        /\ UNCHANGED <<target, turnVars, closing, toClose, failures>>

\* Wrong: only tool calls have a timer.
ExpireCalls(s) ==
    \E p \in pending[s] :
        /\ p[2] # None
        /\ pending' = [pending EXCEPT ![s] = @ \ {p}]
        /\ call' = Rejected({p[2]}, aborted)
        /\ UNCHANGED <<startVars, child, process, nextId, received, clients>>
        /\ UNCHANGED <<target, answer, turnVars, closing, toClose, failures>>

\* The timer of a request.
Expire(s) ==
    \E p \in pending[s] :
        /\ \/ /\ p[2] # None
              /\ pending' = [pending EXCEPT ![s] = @ \ {p}]
              /\ call' = Rejected({p[2]}, aborted)
              /\ UNCHANGED <<startVars, child, process, nextId, received, clients>>
           \/ p[2] = None /\ StartFails(s)
        /\ UNCHANGED <<target, answer, turnVars, closing, toClose, failures>>

\* The process ends, by itself or after the kill, or never ran: every request
\* is rejected, and one made later waits for its timer.
Exit(s) ==
    /\ process[s] \in {"running", "killed"}
    /\ IF <<nextId[s], None>> \in pending[s]
       THEN /\ ServerFails(s)
            /\ pending' = [pending EXCEPT ![s] = {}]
            /\ child' = [child EXCEPT ![s] = "unset"]
            /\ UNCHANGED call
       ELSE RejectPending({s}, aborted) /\ UNCHANGED <<startVars, child, clients>>
    /\ process' = [process EXCEPT ![s] = "gone"]
    /\ UNCHANGED <<nextId, received, target, answer, turnVars, closing,
                   toClose, failures>>

-------------------------------------------------------------------------------
(***************************************************************************)
(* Turns, tool calls, abort and close                                      *)
(***************************************************************************)
BeginTurn ==
    /\ stage = "done" /\ ~active /\ turn < NumTurns
    /\ turn' = turn + 1 /\ active' = TRUE
    /\ UNCHANGED <<startVars, clientVars, callVars, aborted, closeVars, failures>>

\* A turn ends when its calls have, or at once when it is aborted.
EndTurn ==
    /\ active
    /\ turn \in aborted \/ \A c \in Calls : TurnOf[c] = turn => call[c] # "waiting"
    /\ active' = FALSE
    /\ UNCHANGED <<startVars, clientVars, callVars, turn, aborted, closeVars, failures>>

\* callTool of a registered tool; a call of an aborted batch may come late.
CallTool(c) ==
    /\ call[c] = "idle"
    /\ (TurnOf[c] = turn /\ active) \/ IsAborted(c)
    /\ \E tool \in tools :
          LET s == tool[1] IN
          /\ target' = [target EXCEPT ![c] = s]
          /\ IF child[s] # "set" \/ IsAborted(c)
             THEN call' = Rejected({c}, aborted) /\ UNCHANGED <<nextId, pending, received>>
             ELSE call' = [call EXCEPT ![c] = "waiting"] /\ Request(s, c, pending[s])
    /\ UNCHANGED <<startVars, child, process, answer, turnVars, closeVars,
                   failures>>

\* The listener of each request of the turn closes its client, which rejects
\* the others it has; then every client of the session is closed.
Abort ==
    /\ stage = "done"
    /\ aborted' = IF active THEN aborted \union {turn} ELSE aborted
    /\ CloseClients(clients \union
                    {s \in Servers : \E c \in WaitersOf({s}) : TurnOf[c] \in aborted'},
                    aborted')
    /\ clients' = {}
    /\ UNCHANGED <<startVars, nextId, received, target, answer, turn,
                   active, closing, toClose, failures>>

\* close of the session, when its start has settled; its loop closes a client
\* and writes mcp.server.stopped before it comes to the next.
Close ==
    /\ stage \in {"done", "broken"} /\ closing = "open"
    /\ closing' = "closing" /\ toClose' = clients
    /\ UNCHANGED <<startVars, clientVars, callVars, turnVars, clients, failures>>

CloseNext ==
    /\ closing = "closing" /\ toClose # {}
    /\ LET s == CHOOSE t \in toClose : \A u \in toClose : t <= u
       IN  CloseClients({s}, aborted) /\ toClose' = toClose \ {s}
    /\ closing' = "stopped"
    /\ UNCHANGED <<startVars, nextId, received, target, answer, turnVars,
                   clients, failures>>

Stopped ==
    /\ closing = "stopped"
    /\ \/ Written /\ closing' = "closing"
       \/ NotWritten /\ closing' = "failed"
    /\ UNCHANGED <<startVars, clientVars, callVars, turnVars, clients, toClose>>

ClosedAll ==
    /\ closing = "closing" /\ toClose = {}
    /\ closing' = "closed" /\ clients' = {}
    /\ UNCHANGED <<startVars, clientVars, callVars, turnVars, toClose, failures>>

-------------------------------------------------------------------------------
Connect == ServerStarted \/ Ready \/ Failed

Next ==
    \/ StartSession \/ Connect
    \/ \E s \in Servers : Reply(s) \/ Expire(s) \/ Exit(s)
    \/ BeginTurn \/ EndTurn \/ Abort
    \/ \E c \in Calls : CallTool(c)
    \/ Close \/ CloseNext \/ Stopped \/ ClosedAll

Spec == Init /\ [][Next]_vars

\* Writes end and timers go off; a server need never answer or exit.
FairSpec ==
    /\ Spec
    /\ WF_vars(Connect)
    /\ \A s \in Servers : WF_vars(Expire(s))

-------------------------------------------------------------------------------
\* Whatever comes late, twice or out of order: a call gets the reply to its own
\* request.
OwnReply == \A c \in Calls : call[c] = "replied" => answer[c] = c

\* A call waits exactly as long as one request of it is in the table of its
\* client, where a reply, the timer, the exit or a close finds it; a closed
\* client has none (mcp.ts:204-284).
Consistent ==
    /\ TypeOK
    /\ \A c \in Calls :
          IF call[c] = "waiting"
          THEN Cardinality({p \in pending[target[c]] : p[2] = c}) = 1
          ELSE \A s \in Servers : \A p \in pending[s] : p[2] # c
    /\ \A s \in Servers : child[s] = "unset" => pending[s] = {}
    /\ \A s \in Servers : \A p, q \in pending[s] : p[1] = q[1] => p = q

\* Sessions that got through their start leave no server behind when they are
\* closed, whichever writes failed, and "Aborting an in-flight MCP call
\* terminates the stdio child."
ServersStop ==
    /\ stage = "done" /\ closing = "closed" => \A s \in Servers : process[s] # "running"
    /\ \A c \in Calls : IsAborted(c) /\ target[c] # 0 /\ call[c] # "replied"
        => call[c] # "waiting" /\ process[target[c]] # "running"

\* Two servers never offer a tool of one name, and while no write fails a
\* server that failed offers none (mcp.ts:79-110).
ToolsAreOwned ==
    /\ \A t, u \in tools : t[2] = u[2] => t = u
    /\ failures = 0 => \A t \in tools : <<t[1], "failed">> \notin report

\* A call waits as long as its request is in the table of its client, and gets the
\* reply to no other one (mcp.ts:204-284).
RepliesFindTheirCalls == Consistent /\ OwnReply

\* A server is stopped when it is done with, and its tools are those of no other
\* (mcp.ts:79-110, AgentSession.ts:319-338).
ServersAreAccounted == ServersStop /\ ToolsAreOwned

\* Servers that say nothing, fail or exit do not keep the session from
\* starting, nor a call from ending (mcp.ts:217-220).
RequestsEnd ==
    /\ stage = "started" ~> stage \in {"done", "broken"}
    /\ \A c \in Calls : call[c] = "waiting" ~> call[c] # "waiting"
===============================================================================
