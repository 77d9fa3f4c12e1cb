---------------------------- MODULE RelayChannels ----------------------------
(***************************************************************************)
(* The relay between an AI connection and the owner's PCs: the channels    *)
(* PCs open to the relay (relay_channels.py), their registry bindings      *)
(* (relay_registry.py), the execution grants relay and PC both verify      *)
(* (relay_grants.py, relay_mcp.py) and the connection loop of a PC         *)
(* (relay_client.py).                                                      *)
(*                                                                         *)
(* A connection has two ends that learn of its loss separately: "up" is    *)
(* the relay's end, a PC's client knows only its own.  Frames in transit   *)
(* survive a close that is still under way.  The relay's methods run on    *)
(* one event loop; a call is split where it awaits.                        *)
(*                                                                         *)
(* Left out: TLS and tokens beyond their verdict, the size of frames, the  *)
(* two subprotocols, accounts other than the owner, the length of backoff. *)
(***************************************************************************)
EXTENDS Naturals, FiniteSets

CONSTANTS
    Devices,      \* registered devices of the account
    Prints,       \* fingerprints of PC certificates
    Calls,        \* exchanges asked of the relay, each one operation
    MaxConns,     \* connections PCs ever open
    MaxChannels,  \* max_connections of the relay
    None

Conns == 1 .. MaxConns

VARIABLES
    bound,    \* fingerprint -> the device it is bound to, or None
    revoked,  \* devices whose registration was revoked
    granted,  \* devices the caller's execution grant is current for
    current,  \* device -> its channel's connection, or 0
    conn,     \* connection -> [stage, print, device, up] at the relay
    request,  \* connection -> the call whose frame is on its way to the PC
    reply,    \* connection -> the reply on its way back
    client,   \* fingerprint -> [state, conn] of the PC's client
    call,     \* call -> [stage, device, conn] at the relay
    ran       \* calls a PC has executed

vars == <<bound, revoked, granted, current, conn, request, reply, client, call, ran>>

Init ==
    /\ bound = [f \in Prints |-> None]
    /\ revoked = {}
    /\ granted = Devices
    /\ current = [d \in Devices |-> 0]
    /\ conn = [c \in Conns |-> [stage |-> "unused", print |-> None, device |-> None,
                                up |-> "closed"]]
    /\ request = [c \in Conns |-> None]
    /\ reply = [c \in Conns |-> None]
    /\ client = [f \in Prints |-> [state |-> "stopped", conn |-> 0]]
    /\ call = [k \in Calls |-> [stage |-> "new", device |-> None, conn |-> 0]]
    /\ ran = {}

-----------------------------------------------------------------------------
(* The registry and the grants.                                            *)

BindChannel(f, d) ==
    /\ d \notin revoked /\ bound[f] = None
    /\ \A g \in Prints : bound[g] # d
    /\ bound' = [bound EXCEPT ![f] = d]
    /\ UNCHANGED <<revoked, granted, current, conn, request, reply, client, call, ran>>

RotateChannel(f, g, d) ==
    /\ d \notin revoked /\ bound[f] = d /\ bound[g] = None
    /\ bound' = [bound EXCEPT ![f] = None, ![g] = d]
    /\ UNCHANGED <<revoked, granted, current, conn, request, reply, client, call, ran>>

Revoke(d) ==
    /\ d \notin revoked
    /\ revoked' = revoked \cup {d}
    /\ UNCHANGED <<bound, granted, current, conn, request, reply, client, call, ran>>

RevokeGrant(d) ==
    /\ d \in granted
    /\ granted' = granted \ {d}
    /\ UNCHANGED <<bound, revoked, current, conn, request, reply, client, call, ran>>

\* channel_device(): the device a fingerprint is registered for.
ChannelDevice(f) == IF bound[f] \in revoked THEN None ELSE bound[f]

-----------------------------------------------------------------------------
(* Connections at the relay.                                               *)

Channels == {d \in Devices : current[d] # 0}

SetUp(c, v) == [conn EXCEPT ![c].up = v]

\* A registered PC is accepted and takes over its device's channel; the one it
\* replaces is told to close.
Accept(f, c) ==
    LET d == ChannelDevice(f)
        previous == current[d]
    IN  /\ client[f].state = "connecting"
        /\ conn[c].stage = "unused" /\ \A e \in Conns : e < c => conn[e].stage # "unused"
        /\ d # None
        /\ previous # 0 \/ Cardinality(Channels) < MaxChannels
        /\ conn' = [(IF previous # 0 /\ conn[previous].up = "open"
                     THEN SetUp(previous, "closing") ELSE conn) EXCEPT
                       ![c] = [stage |-> "accepted", print |-> f, device |-> d,
                               up |-> "open"]]
        /\ current' = [current EXCEPT ![d] = c]
        /\ client' = [client EXCEPT ![f] = [state |-> "connected", conn |-> c]]
        /\ UNCHANGED <<bound, revoked, granted, request, reply, call, ran>>

\* 1008 ends the client, 1013 (capacity) lets it try again.
Refuse(f) ==
    /\ client[f].state = "connecting"
    /\ \/ /\ ChannelDevice(f) = None
          /\ client' = [client EXCEPT ![f].state = "failed"]
       \/ /\ ChannelDevice(f) # None
          /\ current[ChannelDevice(f)] = 0 /\ Cardinality(Channels) >= MaxChannels
          /\ client' = [client EXCEPT ![f].state = "reconnecting"]
    /\ UNCHANGED <<bound, revoked, granted, current, conn, request, reply, call, ran>>

\* The relay's end is closed: a close completes, or the network is lost.
SocketCloses(c) ==
    /\ conn[c].stage = "accepted" /\ conn[c].up # "closed"
    /\ conn' = SetUp(c, "closed")
    /\ reply' = [reply EXCEPT ![c] = None]
    /\ UNCHANGED <<bound, revoked, granted, current, request, client, call, ran>>

\* Mutant: the end of a connection drops whatever channel its device has.
DroppedAny(c) == [current EXCEPT ![conn[c].device] = 0]

\* _accept's finally: the channel is dropped unless another one took it over.
Dropped(c) ==
    [current EXCEPT ![conn[c].device] = IF @ = c THEN 0 ELSE @]

AcceptEnds(c) ==
    /\ conn[c].stage = "accepted" /\ conn[c].up = "closed"
    /\ conn' = [conn EXCEPT ![c].stage = "ended"]
    /\ current' = Dropped(c)
    /\ UNCHANGED <<bound, revoked, granted, request, reply, client, call, ran>>

-----------------------------------------------------------------------------
(* Exchanges.                                                              *)

\* _owned_channel(): the channel of d, if its fingerprint is still d's.
OwnedChannel(d) ==
    IF current[d] # 0 /\ ChannelDevice(conn[current[d]].print) = d
    THEN current[d] ELSE 0

Busy(c) == \E k \in Calls : call[k].conn = c /\ call[k].stage \in {"sent", "failing"}

Ends(k, stage) ==
    call' = [call EXCEPT ![k] = [stage |-> stage, device |-> None, conn |-> 0]]

\* Refused before anything is sent: grant, no channel, or a channel in use.
NotDispatched(k, d) ==
    /\ call[k].stage = "new"
    /\ \/ d \notin granted /\ Ends(k, "rejected")
       \/ /\ d \in granted
          /\ OwnedChannel(d) = 0 \/ Busy(OwnedChannel(d))
          /\ Ends(k, "unavailable")
    /\ UNCHANGED <<bound, revoked, granted, current, conn, request, reply, client, ran>>

\* The frame is sent, unless the socket is already closing.
Dispatch(k, d) ==
    LET c == OwnedChannel(d)
    IN  /\ call[k].stage = "new" /\ d \in granted
        /\ c # 0 /\ ~ Busy(c)
        /\ \/ /\ conn[c].up = "open"
              /\ request' = [request EXCEPT ![c] = k]
              /\ call' = [call EXCEPT ![k] = [stage |-> "sent", device |-> d, conn |-> c]]
           \/ /\ conn[c].up # "open"
              /\ call' = [call EXCEPT ![k] = [stage |-> "failing", device |-> d, conn |-> c]]
              /\ UNCHANGED request
        /\ UNCHANGED <<bound, revoked, granted, current, conn, reply, client, ran>>

\* The checks on a received reply: its operation, the channel, the grant.
Answered(k) ==
    LET c == call[k].conn
    IN  reply[c].call = k /\ OwnedChannel(call[k].device) = c

Receive(k) ==
    LET c == call[k].conn
    IN  /\ call[k].stage = "sent" /\ conn[c].up # "closed" /\ reply[c] # None
        /\ Answered(k)
        /\ Ends(k, IF call[k].device \notin granted THEN "unknown" ELSE reply[c].verdict)
        /\ reply' = [reply EXCEPT ![c] = None]
        /\ UNCHANGED <<bound, revoked, granted, current, conn, request, client, ran>>

\* Timeout, cancellation, a lost socket or a reply that fails its checks.
Fail(k) ==
    /\ call[k].stage = "sent"
    /\ call' = [call EXCEPT ![k].stage = "failing"]
    /\ conn' = IF conn[call[k].conn].up = "open" THEN SetUp(call[k].conn, "closing") ELSE conn
    /\ UNCHANGED <<bound, revoked, granted, current, request, reply, client, ran>>

\* Mutant: a channel that is gone after the request was sent is answered like
\* one that was missing before.
FailEndsMissing(k) ==
    /\ call[k].stage = "failing" /\ conn[call[k].conn].up = "closed"
    /\ Ends(k, IF OwnedChannel(call[k].device) = 0 THEN "unavailable" ELSE "unknown")
    /\ UNCHANGED <<bound, revoked, granted, current, conn, request, reply, client, ran>>

FailEnds(k) ==
    /\ call[k].stage = "failing" /\ conn[call[k].conn].up = "closed"
    /\ Ends(k, "unknown")
    /\ UNCHANGED <<bound, revoked, granted, current, conn, request, reply, client, ran>>

-----------------------------------------------------------------------------
(* PCs.                                                                    *)

Run(f) ==
    /\ client[f].state \in {"stopped", "failed"}
    /\ client' = [client EXCEPT ![f] = [state |-> "connecting", conn |-> 0]]
    /\ UNCHANGED <<bound, revoked, granted, current, conn, request, reply, call, ran>>

Reconnect(f) ==
    /\ client[f].state = "reconnecting"
    /\ client' = [client EXCEPT ![f].state = "connecting"]
    /\ UNCHANGED <<bound, revoked, granted, current, conn, request, reply, call, ran>>

\* stop(), or a close of the relay with 1001: the client does not come back.
ClientStops(f) ==
    /\ client[f].state \in {"connecting", "connected", "reconnecting"}
    /\ client' = [client EXCEPT ![f] = [state |-> "stopped", conn |-> 0]]
    /\ UNCHANGED <<bound, revoked, granted, current, conn, request, reply, call, ran>>

\* The PC's end of its connection is lost, which the relay may not know yet.
ClientLost(f) ==
    /\ client[f].state \in {"connecting", "connected"}
    /\ client' = [client EXCEPT ![f] = [state |-> "reconnecting", conn |-> 0]]
    /\ UNCHANGED <<bound, revoked, granted, current, conn, request, reply, call, ran>>

\* dispatch_frame(): the PC verifies the grant itself and executes, or answers
\* that nothing was executed; or it fails and the client with it.
Execute(f) ==
    LET c == client[f].conn
        k == request[c]
        run == conn[c].device \in granted
    IN  /\ client[f].state = "connected" /\ request[c] # None
        /\ request' = [request EXCEPT ![c] = None]
        /\ ran' = IF run THEN ran \cup {k} ELSE ran
        /\ \/ /\ reply' = [reply EXCEPT ![c] =
                              IF conn[c].up = "closed" THEN None
                              ELSE [call |-> k, verdict |-> IF run THEN "done" ELSE "failed"]]
              /\ UNCHANGED client
           \/ /\ client' = [client EXCEPT ![f] = [state |-> "failed", conn |-> 0]]
              /\ UNCHANGED reply
        /\ UNCHANGED <<bound, revoked, granted, current, conn, call>>

Next ==
    \/ \E f \in Prints, d \in Devices : BindChannel(f, d)
    \/ \E f, g \in Prints, d \in Devices : RotateChannel(f, g, d)
    \/ \E d \in Devices : Revoke(d) \/ RevokeGrant(d)
    \/ \E f \in Prints, c \in Conns : Accept(f, c)
    \/ \E f \in Prints : \/ Refuse(f) \/ Run(f) \/ Reconnect(f) \/ ClientStops(f)
                         \/ ClientLost(f) \/ Execute(f)
    \/ \E c \in Conns : SocketCloses(c) \/ AcceptEnds(c)
    \/ \E k \in Calls, d \in Devices : NotDispatched(k, d) \/ Dispatch(k, d)
    \/ \E k \in Calls : Receive(k) \/ Fail(k) \/ FailEnds(k)

Spec == Init /\ [][Next]_vars

-----------------------------------------------------------------------------
(* Properties.                                                             *)

Ended == {"rejected", "unavailable", "unknown", "done", "failed"}

\* Every variable has its type, and only the two ends of a connection disagree.
TypeOK ==
    /\ bound \in [Prints -> Devices \cup {None}]
    /\ revoked \subseteq Devices
    /\ granted \subseteq Devices
    /\ current \in [Devices -> 0 .. MaxConns]
    /\ conn \in [Conns -> [stage : {"unused", "accepted", "ended"},
                           print : Prints \cup {None}, device : Devices \cup {None},
                           up : {"open", "closing", "closed"}]]
    /\ request \in [Conns -> Calls \cup {None}]
    /\ reply \in [Conns -> [call : Calls, verdict : {"done", "failed"}] \cup {None}]
    /\ client \in [Prints -> [state : {"stopped", "connecting", "connected",
                                       "reconnecting", "failed"}, conn : 0 .. MaxConns]]
    /\ call \in [Calls -> [stage : {"new", "sent", "failing"} \cup Ended,
                           device : Devices \cup {None}, conn : 0 .. MaxConns]]
    /\ ran \subseteq Calls

\* An answer tells the truth of the PC for good: "done" was executed, and a call
\* answered as unavailable, rejected or failed before dispatch neither was nor
\* ever will be executed (relay_channels.py: "No request was dispatched by this
\* call"), whatever frames of it are still under way.
OutcomeHonest ==
    \A k \in Calls :
        /\ call[k].stage = "done" => k \in ran
        /\ call[k].stage \in {"rejected", "unavailable", "failed"} =>
              k \notin ran /\ \A c \in Conns : request[c] # k

\* A connection the relay holds open is its device's channel: the end of an
\* older one never takes a reconnected PC off the relay, and a replaced one is
\* always told to close (relay_channels.py _accept).
OpenIsCurrent ==
    \A c \in Conns :
        conn[c].stage = "accepted" /\ conn[c].up = "open" => current[conn[c].device] = c

=============================================================================
