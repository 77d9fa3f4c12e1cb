---------------------------- MODULE RemotePeers -----------------------------
(***************************************************************************)
(* Enrolled peers that call the tools of an agent over mutually            *)
(* authenticated TLS: the listener and its connections, the one attempt of *)
(* a client (remote_transport.py), and the grants and namespaces of        *)
(* RemoteAgent (remote_bridge.py), which the HTTP gateway uses too.  A     *)
(* fingerprint stands for its identity.  Grants are given, expire and are  *)
(* revoked at any time, either end of a connection gives up, and a client  *)
(* calls again under the same operation ID, which other peers use as well. *)
(***************************************************************************)
EXTENDS Naturals, FiniteSets

CONSTANTS Cert,        \* fingerprints of peers
          OpId,        \* operation IDs, chosen by the peers
          Tool,        \* tools that can be granted, "operations_get" apart
          Grants,      \* the sets of tools that are granted
          Given,       \* the grants RemoteAgent starts with
          MaxLinks,    \* max_connections of the listener
          MaxCalls,    \* bound on the calls of all peers
          MaxChanges,  \* bound on what the owner changes
          Nothing

VARIABLES
    enrolled,  \* RemoteListener.peers
    grants,    \* RemoteAgent.grants: the tools of a peer
    expires,   \* RemoteAgent._expires: the deadline of a peer, which lies ahead or is over
    listens,   \* the listener is open
    changes,   \* how often the owner changed something
    exchange,  \* every call, and the connection that serves it
    records,   \* rows of the engine's ledger, by internal operation ID
    runs,      \* what ran: for which peer and operation, which tool, and whether it might
    denied,    \* operations whose clients were only told that nothing ran
    confirms   \* what clients were told runs or is complete

peerVars == <<enrolled, grants, expires, listens, changes, exchange, records, runs, denied, confirms>>

Lookup == "operations_get"
Calls == 1..MaxCalls
NoCall == [cert |-> Nothing, op |-> Nothing, tool |-> Nothing, server |-> "none"]
Over == [NoCall EXCEPT !.server = "closed"]

\* internal_id: a digest of the identity and the ID it chose.
InternalId(p, op) == <<p, op>>
Operations == Cert \X OpId

PeersInit ==
    /\ enrolled = Cert
    /\ grants = Given /\ expires = [p \in Cert |-> Nothing]
    /\ listens = TRUE /\ changes = 0
    /\ exchange = [k \in Calls |-> NoCall]
    /\ records = [i \in {InternalId(c[1], c[2]) : c \in Operations} |-> Nothing]
    /\ runs = {} /\ denied = Operations /\ confirms = {}

-----------------------------------------------------------------------------
(* The owner and the clock. *)

OwnerChanges ==
    /\ changes < MaxChanges /\ changes' = changes + 1
    /\ UNCHANGED <<exchange, records, runs, denied, confirms>>

\* RemoteAgent.grant: with or without a deadline, which lies ahead.
Grant(p) ==
    /\ \E tools \in Grants : grants' = [grants EXCEPT ![p] = tools]
    /\ \E deadline \in {Nothing, "ahead"} : expires' = [expires EXCEPT ![p] = deadline]
    /\ OwnerChanges /\ UNCHANGED <<enrolled, listens>>

Withdrawn(p) ==
    /\ grants' = [grants EXCEPT ![p] = Nothing]
    /\ expires' = [expires EXCEPT ![p] = Nothing]
Revoke(p) ==
    /\ grants[p] # Nothing /\ Withdrawn(p)
    /\ OwnerChanges /\ UNCHANGED <<enrolled, listens>>

\* Time passes the deadline; nobody notices.
Expire(p) ==
    /\ expires[p] = "ahead" /\ expires' = [expires EXCEPT ![p] = "over"]
    /\ UNCHANGED <<enrolled, grants, listens, changes, exchange, records, runs, denied, confirms>>

\* RemoteListener.revoke
Disenroll(p) ==
    /\ enrolled' = enrolled \ {p} /\ p \in enrolled
    /\ OwnerChanges /\ UNCHANGED <<grants, expires, listens>>

\* RemoteListener.close: no connection is taken any more; those that stand go on to
\* their end, which wait_closed waits for.
CloseListener ==
    /\ listens /\ listens' = FALSE
    /\ OwnerChanges /\ UNCHANGED <<enrolled, grants, expires>>

-----------------------------------------------------------------------------
(* Connections. *)

Serving == {k \in Calls : exchange[k].server \in {"reading", "running"}}

Settings == UNCHANGED <<enrolled, grants, expires, listens, changes>>
Ledger == UNCHANGED <<records, runs>>

Becomes(k, call) == exchange' = [exchange EXCEPT ![k] = call]

\* What the client of a call learns: that nothing ran, that something did, or nothing.
Tells(call, answer) ==
    /\ denied' = IF answer = "denied" THEN denied ELSE denied \ {<<call.cert, call.op>>}
    /\ confirms' = confirms \cup {[cert |-> call.cert, op |-> call.op, tool |-> call.tool] :
                                      a \in {answer} \cap {"running", "completed"}}

\* remote_exchange: another certificate than the enrolled one is refused before anything
\* is written; the listener takes a connection while it has room, and reads from it when
\* it knows the fingerprint.
Dial(k) ==
    \E p \in Cert, o \in OpId, t \in Tool \cup {Lookup} :
        LET call == [cert |-> p, op |-> o, tool |-> t, server |-> "reading"]
        IN  /\ exchange[k] = NoCall /\ \A j \in 1..(k - 1) : exchange[j] # NoCall
            /\ \/ Becomes(k, Over) /\ Tells(call, "denied")
               \/ /\ listens /\ Cardinality(Serving) < MaxLinks /\ p \in enrolled
                  /\ Becomes(k, call) /\ UNCHANGED <<denied, confirms>>
               \/ /\ ~(listens /\ Cardinality(Serving) < MaxLinks /\ p \in enrolled)
                  /\ Becomes(k, Over) /\ Tells(call, "unknown")
            /\ Settings /\ Ledger

\* The connection ends, with an answer or without one; the client reads it unless its
\* time is over, or something happens to it on the way: then it knows nothing.  It makes
\* no second attempt by itself.
Replies(k, answer) ==
    /\ Becomes(k, Over)
    /\ Tells(exchange[k], answer) \/ Tells(exchange[k], "unknown")

\* A peer whose enrollment ended while its frame was awaited is not served.
Known(p) == p \in enrolled

\* _allowed: a grant past its deadline is revoked when it is looked at.
Expired(p) == expires[p] = "over"
Looked(p) == IF Expired(p) THEN Withdrawn(p) ELSE UNCHANGED <<grants, expires>>
Allowed(p) == IF Expired(p) \/ grants[p] = Nothing THEN {} ELSE grants[p]

\* _execute, a lookup: of the peer's own operation, while the tool that ran is granted.
AnswerLookup(k) ==
    LET record == records[InternalId(exchange[k].cert, exchange[k].op)]
    IN  /\ Replies(k, IF record # Nothing /\ record.tool \in Allowed(exchange[k].cert)
                      THEN record.state ELSE "unknown")
        /\ Ledger

Run(call) ==
    runs \cup {[cert |-> call.cert, op |-> call.op, tool |-> call.tool,
                permitted |-> /\ call.cert \in enrolled /\ expires[call.cert] # "over"
                              /\ grants[call.cert] # Nothing
                              /\ call.tool \in grants[call.cert]]}

\* _execute, any other tool: Engine.execute under the internal ID.  An ID that was used
\* for something else is refused.
Start(k) ==
    LET call == exchange[k]
        id == InternalId(call.cert, call.op)
    IN  \/ /\ records[id] = Nothing
           /\ records' = [records EXCEPT ![id] = [tool |-> call.tool, state |-> "running"]]
           /\ runs' = Run(call)
           /\ Becomes(k, [call EXCEPT !.server = "running"]) /\ UNCHANGED <<denied, confirms>>
        \/ /\ records[id] # Nothing /\ records[id].tool = call.tool
           /\ Becomes(k, [call EXCEPT !.server = "running"])
           /\ UNCHANGED <<denied, confirms>> /\ Ledger
        \/ /\ records[id] # Nothing /\ records[id].tool # call.tool
           /\ Replies(k, "denied") /\ Ledger

\* _handle and dispatch, without a pause once the frame is there.
Dispatch(k) ==
    LET p == exchange[k].cert
        tool == exchange[k].tool
    IN  /\ exchange[k].server = "reading"
        /\ IF ~Known(p)
           THEN Replies(k, "unknown") /\ Ledger /\ UNCHANGED <<grants, expires>>
           ELSE /\ Looked(p)
                /\ \/ tool \notin Allowed(p) /\ Replies(k, "denied") /\ Ledger
                   \/ tool \in Allowed(p) /\ tool = Lookup /\ AnswerLookup(k)
                   \/ tool \in Allowed(p) /\ tool # Lookup /\ Start(k)
        /\ UNCHANGED <<enrolled, listens, changes>>

\* The engine answers, when the operation is over or has run for a while.
Answer(k) ==
    /\ exchange[k].server = "running"
    /\ Replies(k, records[InternalId(exchange[k].cert, exchange[k].op)].state)
    /\ Settings /\ Ledger

\* request_timeout, an error of the socket, or no frame: the connection ends without an
\* answer; what runs goes on.
Drop(k) == k \in Serving /\ Replies(k, "unknown") /\ Settings /\ Ledger

Finish(id) ==
    /\ records[id] # Nothing /\ records[id].state = "running"
    /\ records' = [records EXCEPT ![id].state = "completed"]
    /\ UNCHANGED <<exchange, runs, denied, confirms>> /\ Settings

PeersNext ==
    \/ CloseListener
    \/ \E p \in Cert : Grant(p) \/ Revoke(p) \/ Expire(p) \/ Disenroll(p)
    \/ \E k \in Calls : Dial(k) \/ Dispatch(k) \/ Answer(k) \/ Drop(k)
    \/ \E id \in DOMAIN records : Finish(id)

PeersSpec == PeersInit /\ [][PeersNext]_peerVars

-----------------------------------------------------------------------------
(* Properties. *)

RanFor(p, o) == {e \in runs : e.cert = p /\ e.op = o}

\* An operation did not run while its clients were told nothing but that it was refused
\* or not sent, also when its ID was used by another peer; and an operation that is
\* answered as running or completed is the peer's own, with the tool it asked for.  (An
\* attempt still under way has told nobody anything, and may have run.)
PeersToldTrue ==
    /\ \A c \in denied :
           (~\E k \in Calls : exchange[k].cert = c[1] /\ exchange[k].op = c[2])
               => RanFor(c[1], c[2]) = {}
    /\ \A a \in confirms : \E e \in RanFor(a.cert, a.op) : a.tool \in {e.tool, Lookup}

\* A peer's operation runs once, however often it is called and on however many
\* connections at a time.
PeersOnce == \A c \in Operations : Cardinality(RanFor(c[1], c[2])) <= 1

\* Nothing starts for a peer after its enrollment or its grant was taken away, or after
\* its grant expired, even when the connection stood before.
PeersStopped == \A e \in runs : e.permitted

\* The listener never serves more connections than it may.
LinksBounded == Cardinality(Serving) <= MaxLinks
=============================================================================
