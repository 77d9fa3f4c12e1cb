---------------------------- MODULE HttpSessions ----------------------------
(***************************************************************************)
(* A connector calls the tools of a computer over HTTPS: HTTPBackend       *)
(* (http_client.py) against HTTPMCP (http_mcp.py) and the MCP sessions it  *)
(* keeps (mcp_server.py, authorized_http.py).  Sessions expire, tokens are *)
(* renewed and grants replaced, the server is closed or killed, and the    *)
(* network loses requests and replies, or a gateway answers instead.       *)
(***************************************************************************)
EXTENDS Integers, FiniteSets

CONSTANTS Connector,       \* connectors, with one call each at a time
          Sid,          \* MCP-Session-Id: numbers, one more than are kept or held
          MaxSessions,  \* max_sessions, 128 in the code
          MaxDispatch,  \* dispatch tasks, 32 in the code
          MaxFaults,    \* how often the environment does anything at all
          None

VARIABLES
    server,    \* "up", "closing" or "closed"
    sessions,  \* HTTPMCP.sessions: whose, for which grant, and its `ready`
    conn,      \* connections of the server: the request of a client
    task,      \* dispatch_tasks: what the call of a client has come to
    client,    \* HTTPBackend
    grant,     \* the grant of a client
    token,     \* and its access token: "good", "stale" or "revoked"
    executed,  \* history: how often the client's operation was dispatched to the engine
    faults

serverVars == <<server, sessions, conn, task>>
environment == <<grant, token, faults>>
httpVars == <<serverVars, client, environment, executed>>

\* The request and the session ID it has; what _post and _rpc have repeated already.
Resting == [pc |-> "idle", kind |-> None, holds |-> None, renewed |-> FALSE, expired |-> FALSE,
            notified |-> FALSE, answer |-> None]
NoRequest == [kind |-> None, sid |-> None, grant |-> 0, good |-> FALSE]
NoTask == [pc |-> "none", sid |-> None, grant |-> 0]
NoSession == [of |-> None, grant |-> 0, ready |-> FALSE]

HttpInit ==
    /\ server = "up" /\ sessions = [s \in Sid |-> NoSession]
    /\ conn = [c \in Connector |-> NoRequest] /\ task = [c \in Connector |-> NoTask]
    /\ client = [c \in Connector |-> Resting]
    /\ grant = [c \in Connector |-> 1] /\ token = [c \in Connector |-> "good"] /\ faults = 0
    /\ executed = [c \in Connector |-> 0]

Fault == faults < MaxFaults /\ faults' = faults + 1
Open == {s \in Sid : sessions[s] # NoSession}
Tasks == {c \in Connector : task[c] # NoTask}
Connected(c) == conn[c] # NoRequest

-----------------------------------------------------------------------------
(* The client: execute, _ensure_session, _rpc and _post, all under its lock *)

At(c, pc) == client[c].pc = pc
Send(c, kind) == [client[c] EXCEPT !.pc = "send", !.kind = kind, !.renewed = FALSE]
Ends(c, answer, holds) == [Resting EXCEPT !.answer = answer, !.holds = holds]

\* Also the caller who repeats what it is told was not dispatched, and who goes on to
\* another operation when it has heard of the last one.
Execute(c) ==
    /\ At(c, "idle")
    /\ IF client[c].answer \in {None, "failed"} THEN UNCHANGED executed
       ELSE /\ ~Connected(c) /\ c \notin Tasks
            /\ executed' = [executed EXCEPT ![c] = 0]
    /\ client' = [client EXCEPT ![c] =
          [Send(c, IF @.holds = None THEN "initialize" ELSE "call") EXCEPT !.answer = None]]
    /\ UNCHANGED <<serverVars, environment>>

\* What is not confirmed: a handshake of execute's own precedes the dispatch, but the one
\* that _rpc makes for an expired session is part of the call.
Unconfirmed(c) ==
    IF client[c].kind = "call" \/ client[c].expired
    THEN Ends(c, "unknown", IF client[c].kind = "call" THEN client[c].holds ELSE None)
    ELSE Ends(c, "failed", None)
Rejected(c) == Ends(c, "failed", None)

\* _session_expired: a handshake is repeated once for its notification, a call once.
Expired(c) ==
    IF client[c].kind = "call"
    THEN IF client[c].expired THEN Rejected(c)
         ELSE [Send(c, "initialize") EXCEPT !.holds = None, !.expired = TRUE, !.notified = FALSE]
    ELSE IF client[c].notified THEN Unconfirmed(c)
         ELSE [Send(c, "initialize") EXCEPT !.holds = None, !.notified = TRUE]

\* access_token(rejected_token) renews the token, or finds that it takes a new login.
Unauthorized(c) ==
    \/ /\ ~client[c].renewed /\ token[c] # "revoked"
       /\ token' = [token EXCEPT ![c] = "good"]
       /\ client' = [client EXCEPT ![c] = [@ EXCEPT !.pc = "send", !.renewed = TRUE]]
    \/ /\ client[c].renewed \/ token[c] = "revoked"
       /\ client' = [client EXCEPT ![c] = Rejected(c)] /\ UNCHANGED token

\* _ensure_session and execute go on when a request has its result.
Continues(c, sid) ==
    CASE client[c].kind = "initialize" -> [Send(c, "initialized") EXCEPT !.holds = sid]
      [] client[c].kind = "initialized" -> Send(c, "call")
      [] OTHER -> Ends(c, "completed", client[c].holds)

\* _result: 401 and 404 with the server's markers, 400 and the RPC errors that reject, any
\* other status (408, 500, 503) and RPC error, the receipt, or the result.
Hears(c, status, sid) ==
    \/ status = "unauthorized" /\ Unauthorized(c)
    \/ /\ status # "unauthorized" /\ UNCHANGED token
       /\ client' = [client EXCEPT ![c] =
             CASE status = "expired" -> Expired(c)
               [] status = "rejected" -> Rejected(c)
               [] status = "error" -> Unconfirmed(c)
               [] status = "running" -> Ends(c, "running", client[c].holds)
               [] OTHER -> Continues(c, sid)]

-----------------------------------------------------------------------------
(* The network: _post *)

Deliver(c) ==
    /\ At(c, "send") /\ server = "up" /\ ~Connected(c)
    /\ conn' = [conn EXCEPT ![c] = [kind |-> client[c].kind, sid |-> client[c].holds,
                                    grant |-> grant[c], good |-> token[c] = "good"]]
    /\ client' = [client EXCEPT ![c].pc = "wait"]
    /\ UNCHANGED <<server, sessions, task, environment, executed>>

\* The request or its reply is lost; or a gateway answers 502, or 401 or 404 of its own,
\* whether the server got the request or not.
Lost(c) ==
    /\ At(c, "send") \/ At(c, "wait")
    /\ IF Connected(c) \/ (At(c, "send") /\ server = "up") THEN Fault ELSE UNCHANGED faults
    /\ client' = [client EXCEPT ![c] = Unconfirmed(c)]
    /\ UNCHANGED <<serverVars, grant, token, executed>>

\* A gateway rejects what it does not pass on (400, 403, 405, 413, 415, 429).
GatewayRejects(c) ==
    /\ At(c, "send") /\ Fault
    /\ client' = [client EXCEPT ![c] = Rejected(c)]
    /\ UNCHANGED <<serverVars, grant, token, executed>>

-----------------------------------------------------------------------------
(* The server *)

\* _handle: the reply is written, if the client still waits for one.
Reply(c, status, sid) ==
    /\ conn' = [conn EXCEPT ![c] = NoRequest]
    /\ IF At(c, "wait") THEN Hears(c, status, sid) ELSE UNCHANGED <<client, token>>

\* authenticate and _matches
Authentic(c) == conn[c].good /\ conn[c].grant = grant[c] /\ token[c] # "revoked"
Usable(sid, c, g) == sid # None /\ sid \in Open /\ sessions[sid].of = c /\ sessions[sid].grant = g

Unauthenticated(c) ==
    /\ Connected(c) /\ task[c] = NoTask
    /\ IF Authentic(c) THEN Fault /\ Reply(c, "error", None)
       ELSE Reply(c, "unauthorized", None) /\ UNCHANGED faults
    /\ UNCHANGED <<server, sessions, task, grant, executed>>

\* _dispatch_authenticated, and MCPSession.handle of a handshake
Initialize(c) ==
    /\ conn[c].kind = "initialize" /\ Authentic(c)
    /\ IF Cardinality(Open) >= MaxSessions THEN Reply(c, "error", None) /\ UNCHANGED sessions
       ELSE LET fresh == Sid \ (Open \cup {client[d].holds : d \in Connector})
                s == CHOOSE s \in fresh : \A t \in fresh : s <= t
            IN /\ sessions' = [sessions EXCEPT ![s] = [of |-> c, grant |-> grant[c], ready |-> FALSE]]
               /\ Reply(c, "ok", s)
    /\ UNCHANGED <<server, task, grant, faults, executed>>

Initialized(c) ==
    /\ conn[c].kind = "initialized" /\ Authentic(c)
    /\ IF Usable(conn[c].sid, c, grant[c])
       THEN sessions' = [sessions EXCEPT ![conn[c].sid].ready = TRUE] /\ Reply(c, "ok", None)
       ELSE Reply(c, "expired", None) /\ UNCHANGED sessions
    /\ UNCHANGED <<server, task, grant, faults, executed>>

\* A call gets a task of its own, which its connection does not take down.
Admit(c) ==
    /\ conn[c].kind = "call" /\ task[c] = NoTask /\ Authentic(c)
    /\ IF Cardinality(Tasks) >= MaxDispatch THEN Reply(c, "error", None) /\ UNCHANGED task
       ELSE /\ task' = [task EXCEPT ![c] = [pc |-> "begin", sid |-> conn[c].sid, grant |-> grant[c]]]
            /\ UNCHANGED <<conn, client, token>>
    /\ UNCHANGED <<server, sessions, grant, faults, executed>>

\* The end of the task, whoever waits for it.
Done(c, status) ==
    /\ task' = [task EXCEPT ![c] = NoTask]
    /\ IF Connected(c) THEN Reply(c, status, None) ELSE UNCHANGED <<conn, client, token>>

Begin(c) ==
    /\ task[c].pc = "begin"
    /\ IF ~Usable(task[c].sid, c, task[c].grant) THEN Done(c, "expired")
       ELSE IF ~sessions[task[c].sid].ready THEN Done(c, "rejected")
       ELSE task' = [task EXCEPT ![c].pc = "catalog"] /\ UNCHANGED <<conn, client, token>>
    /\ UNCHANGED <<server, sessions, grant, faults, executed>>

\* local_catalog may fail, or the grant may be gone since, or not have the tool.
Unlisted(c) ==
    /\ task[c].pc = "catalog" /\ Fault
    /\ Done(c, "error") \/ Done(c, "rejected")
    /\ UNCHANGED <<server, sessions, grant, executed>>

\* local_execute looks at the grant again.
Dispatches(c) ==
    /\ task[c].pc = "catalog"
    /\ IF grant[c] = task[c].grant /\ token[c] # "revoked"
       THEN /\ executed' = [executed EXCEPT ![c] = @ + 1]
            /\ task' = [task EXCEPT ![c].pc = "execute"] /\ UNCHANGED <<conn, client, token>>
       ELSE Done(c, "error") /\ UNCHANGED executed
    /\ UNCHANGED <<server, sessions, grant, faults>>

\* The reply of the engine, or a lost connection to it.
Executed(c) ==
    /\ task[c].pc = "execute"
    /\ (Done(c, "ok") /\ UNCHANGED faults) \/ (Fault /\ Done(c, "error"))
    /\ UNCHANGED <<server, sessions, grant, executed>>

\* DISPATCH_RECEIPT_WAIT: the connection ends with a receipt.
Receipt(c) ==
    /\ c \in Tasks /\ Connected(c) /\ task[c].pc # "begin"
    /\ Reply(c, "running", None)
    /\ UNCHANGED <<server, sessions, task, grant, faults, executed>>

\* close(): no new connections, then the end of those there are, then of the tasks.
Close ==
    /\ server = "up" /\ Fault /\ server' = "closing"
    /\ UNCHANGED <<sessions, conn, task, client, grant, token, executed>>
Closed ==
    /\ server = "closing" /\ \A c \in Connector : ~Connected(c) /\ c \notin Tasks
    /\ server' = "closed" /\ sessions' = [s \in Sid |-> NoSession]
    /\ UNCHANGED <<conn, task, client, environment, executed>>
Killed ==
    /\ Fault /\ server' = "closed" /\ sessions' = [s \in Sid |-> NoSession]
    /\ conn' = [c \in Connector |-> NoRequest] /\ task' = [c \in Connector |-> NoTask]
    /\ UNCHANGED <<client, grant, token, executed>>
Start ==
    /\ server = "closed" /\ server' = "up"
    /\ UNCHANGED <<sessions, conn, task, client, environment, executed>>

\* session_ttl
SessionLapses(s) ==
    /\ s \in Open /\ sessions' = [sessions EXCEPT ![s] = NoSession]
    /\ UNCHANGED <<server, conn, task, client, environment, executed>>

-----------------------------------------------------------------------------
(* Tokens and grants *)

TokenLapses(c) ==
    /\ token[c] = "good" /\ Fault /\ token' = [token EXCEPT ![c] = "stale"]
    /\ UNCHANGED <<serverVars, client, grant, executed>>
Revoked(c) ==
    /\ token[c] # "revoked" /\ Fault /\ token' = [token EXCEPT ![c] = "revoked"]
    /\ UNCHANGED <<serverVars, client, grant, executed>>
LogsIn(c) ==
    /\ token[c] = "revoked"
    /\ token' = [token EXCEPT ![c] = "good"] /\ grant' = [grant EXCEPT ![c] = 3 - @]
    /\ UNCHANGED <<serverVars, client, faults, executed>>

HttpNext ==
    \/ \E c \in Connector :
          \/ Execute(c) \/ Deliver(c) \/ Lost(c) \/ GatewayRejects(c)
          \/ Unauthenticated(c) \/ Initialize(c) \/ Initialized(c) \/ Admit(c) \/ Begin(c)
          \/ Unlisted(c) \/ Dispatches(c) \/ Executed(c) \/ Receipt(c)
          \/ TokenLapses(c) \/ Revoked(c) \/ LogsIn(c)
    \/ Close \/ Closed \/ Killed \/ Start
    \/ \E s \in Sid : SessionLapses(s)

HttpSpec == HttpInit /\ [][HttpNext]_httpVars

-----------------------------------------------------------------------------
(* Properties *)

\* A call that is answered as failed never runs, now or later, whichever of its requests
\* was repeated, lost, rejected or timed out; and whatever is repeated, it runs once.
RejectedUnrun ==
    \A c \in Connector : /\ client[c].answer = "failed" => executed[c] = 0
                      /\ client[c].answer = "completed" => executed[c] = 1
                      /\ executed[c] <= 1

\* When close() is over nothing is dispatched any more, and no more sessions and tasks are
\* kept than there may be.
HttpBounded ==
    /\ server = "closed" => Tasks = {}
    /\ Cardinality(Open) <= MaxSessions /\ Cardinality(Tasks) <= MaxDispatch
=============================================================================
