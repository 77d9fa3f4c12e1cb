------------------------------- MODULE OwnerPipe -------------------------------
(***************************************************************************)
(* The named pipe of the local agent on Windows (owner_json_pipe.py): a    *)
(* thread that accepts, one thread per client, the calls they dispatch to  *)
(* the event loop, and aclose, which connection.py runs when it stops.     *)
(* A client sends one request on a connection of its own.                  *)
(***************************************************************************)
EXTENDS Naturals, FiniteSets

CONSTANTS Client, MaxConnections, None

VARIABLES
    stop, closing, stopped, \* serve's event; the server's _closing and _stopped
    capacity,               \* the semaphore of connections
    accept,                 \* the accepting thread
    pipes, peer,            \* the open instances and who is connected to them
    worker, serving,        \* the threads of the connections and their instances
    task,                   \* the calls dispatched to the event loop
    client,                 \* what the clients are at
    closer,                 \* aclose
    fault                   \* something timed out or failed

serverVars == <<stop, closing, stopped, capacity, accept, pipes, peer, worker, serving, task>>
pipeVars == <<serverVars, client, closer, fault>>

Handle == 1..(MaxConnections + 2)
Free == {h \in Handle \ pipes : \A g \in Handle \ pipes : h <= g}
Ended == [pc |-> "ended", handle |-> None, next |-> None]
Gone(c) == client[c] \in {"told", "lost", "left"}
Linked(c) == \E h \in pipes : peer[h] = c

OwnerPipeInit ==
    /\ stop = FALSE /\ closing = FALSE /\ stopped = FALSE /\ fault = FALSE
    /\ capacity = MaxConnections
    /\ accept = [pc |-> "top", handle |-> 1, next |-> None]
    /\ pipes = {1} /\ peer = [h \in Handle |-> None]
    /\ worker = [c \in Client |-> "none"] /\ serving = [c \in Client |-> None]
    /\ task = [c \in Client |-> "none"] /\ client = [c \in Client |-> "new"]
    /\ closer = "serving"

\* DisconnectNamedPipe and CloseHandle: what the client has not read is lost.
Released(h) ==
    /\ pipes' = pipes \ {h}
    /\ peer' = [peer EXCEPT ![h] = None]

\* The accepting thread dies and with it the whole transport.
Fatal == closing' = TRUE /\ stopped' = TRUE /\ fault' = TRUE

------------------------------------------------------------------------------
At(p) == accept.pc = p
Goto(p) == accept' = [accept EXCEPT !.pc = p]

\* The loop waits for capacity while the server is open.
Acquire ==
    /\ At("top")
    /\ IF closing THEN Released(accept.handle) /\ accept' = Ended /\ UNCHANGED capacity
       ELSE /\ capacity > 0 /\ capacity' = capacity - 1 /\ Goto("ready")
            /\ UNCHANGED <<pipes, peer>>
    /\ UNCHANGED <<stop, closing, stopped, worker, serving, task, client, closer, fault>>

Listen ==
    /\ At("ready") /\ Goto("connect")
    /\ UNCHANGED <<stop, closing, stopped, capacity, pipes, peer, worker, serving, task,
                   client, closer, fault>>

\* ConnectNamedPipe returns with a client, or fails (as when that client left already).
Connected ==
    /\ At("connect")
    /\ \/ peer[accept.handle] # None /\ Goto("connected") /\ UNCHANGED fault
       \/ Goto("failed") /\ fault' = TRUE
    /\ UNCHANGED <<stop, closing, stopped, capacity, pipes, peer, worker, serving, task,
                   client, closer>>

\* The next instance is listening before the client of this one is served.
CreateNext ==
    /\ At("connected")
    /\ \/ /\ closing /\ Released(accept.handle) /\ accept' = Ended /\ UNCHANGED fault
       \/ /\ ~closing
          /\ \E h \in Free :
                /\ pipes' = pipes \cup {h}
                /\ accept' = [pc |-> "start", handle |-> accept.handle, next |-> h]
          /\ UNCHANGED <<peer, fault>>
       \/ Goto("failed") /\ fault' = TRUE /\ UNCHANGED <<pipes, peer>>
    /\ UNCHANGED <<stop, closing, stopped, capacity, worker, serving, task, client, closer>>

\* The connection is registered before its thread starts; one whose thread cannot start
\* stays registered, and the next instance is never released.
StartWorker ==
    /\ At("start")
    /\ LET c == peer[accept.handle] IN
       \/ /\ worker' = [worker EXCEPT ![c] = "starting"]
          /\ serving' = [serving EXCEPT ![c] = accept.handle]
          /\ accept' = [pc |-> "top", handle |-> accept.next, next |-> None]
          /\ UNCHANGED <<closing, stopped, capacity, pipes, peer, fault>>
       \/ /\ worker' = [worker EXCEPT ![c] = "stillborn"]
          /\ Fatal /\ Released(accept.handle) /\ accept' = Ended
          /\ capacity' = capacity + 1
          /\ UNCHANGED serving
    /\ UNCHANGED <<stop, task, client, closer>>

\* A failed instance is replaced before it is released, unless the server is closing.
Replace ==
    /\ At("failed")
    /\ capacity' = capacity + 1
    /\ \/ /\ closing /\ Released(accept.handle) /\ accept' = Ended
          /\ UNCHANGED <<closing, stopped, fault>>
       \/ /\ ~closing
          /\ \E h \in Free :
                /\ pipes' = (pipes \ {accept.handle}) \cup {h}
                /\ accept' = [pc |-> "top", handle |-> h, next |-> None]
          /\ peer' = [peer EXCEPT ![accept.handle] = None]
          /\ UNCHANGED <<closing, stopped, fault>>
       \/ ~closing /\ Fatal /\ Released(accept.handle) /\ accept' = Ended
    /\ UNCHANGED <<stop, worker, serving, task, client, closer>>

Accepting == Acquire \/ Listen \/ Connected \/ CreateNext \/ StartWorker \/ Replace

------------------------------------------------------------------------------
Worker(c, from, to) == worker[c] = from /\ worker' = [worker EXCEPT ![c] = to]

\* Reading or writing fails: the client left, or the deadline passed, or _stopped is set.
Broken(c) == Gone(c) /\ UNCHANGED fault
TimesOut == fault' = TRUE
Interrupted(c) == Broken(c) \/ TimesOut \/ (stopped /\ UNCHANGED fault)

Hello(c) ==
    /\ \/ Worker(c, "starting", "read") /\ client[c] = "hello"
          /\ client' = [client EXCEPT ![c] = "ready"] /\ UNCHANGED fault
       \/ Worker(c, "starting", "release") /\ (Broken(c) \/ TimesOut) /\ UNCHANGED client
    /\ UNCHANGED <<stop, closing, stopped, capacity, accept, pipes, peer, serving, task, closer>>

\* A whole request is dispatched to the event loop.
Read(c) ==
    /\ \/ Worker(c, "read", "dispatch") /\ client[c] = "asked"
          /\ task' = [task EXCEPT ![c] = "queued"] /\ UNCHANGED fault
       \/ Worker(c, "read", "release") /\ Interrupted(c) /\ UNCHANGED task
    /\ UNCHANGED <<stop, closing, stopped, capacity, accept, pipes, peer, serving, client, closer>>

\* The call runs, or is refused while the agent stops; nothing cancels it.
Begin(c) ==
    /\ task[c] = "queued"
    /\ task' = [task EXCEPT ![c] = IF stop THEN "refused" ELSE "running"]
    /\ UNCHANGED <<stop, closing, stopped, capacity, accept, pipes, peer, worker, serving,
                   client, closer, fault>>
Finish(c) ==
    /\ task[c] = "running"
    /\ \/ task' = [task EXCEPT ![c] = "done"] /\ UNCHANGED fault
       \/ task' = [task EXCEPT ![c] = "error"] /\ fault' = TRUE
    /\ UNCHANGED <<stop, closing, stopped, capacity, accept, pipes, peer, worker, serving,
                   client, closer>>

\* The thread waits for the call; a timeout leaves the call running.
Collect(c) ==
    /\ \/ Worker(c, "dispatch", "linger") /\ task[c] \in {"done", "refused"} /\ ~Gone(c)
          /\ UNCHANGED fault
       \/ Worker(c, "dispatch", "release")
          /\ \/ task[c] = "error" /\ UNCHANGED fault
             \/ task[c] \in {"done", "refused"} /\ Broken(c)
             \/ TimesOut
             \/ stopped /\ UNCHANGED fault
    /\ UNCHANGED <<stop, closing, stopped, capacity, accept, pipes, peer, serving, task,
                   client, closer>>

\* The instance is kept until the client has read its reply and left.
Linger(c) ==
    /\ Worker(c, "linger", "release") /\ (Broken(c) \/ TimesOut)
    /\ UNCHANGED <<stop, closing, stopped, capacity, accept, pipes, peer, serving, task,
                   client, closer>>

Release(c) ==
    /\ Worker(c, "release", "capacity") /\ Released(serving[c])
    /\ serving' = [serving EXCEPT ![c] = None]
    /\ UNCHANGED <<stop, closing, stopped, capacity, accept, task, client, closer, fault>>
ReleaseCapacity(c) ==
    /\ Worker(c, "capacity", "discard") /\ capacity' = capacity + 1
    /\ UNCHANGED <<stop, closing, stopped, accept, pipes, peer, serving, task, client, closer, fault>>
Discard(c) ==
    /\ Worker(c, "discard", "gone")
    /\ UNCHANGED <<stop, closing, stopped, capacity, accept, pipes, peer, serving, task,
                   client, closer, fault>>

Serving(c) ==
    \/ Hello(c) \/ Read(c) \/ Collect(c) \/ Linger(c)
    \/ Release(c) \/ ReleaseCapacity(c) \/ Discard(c)

------------------------------------------------------------------------------
Moves(c, from, to) == client[c] = from /\ client' = [client EXCEPT ![c] = to]

\* An instance accepts a client before ConnectNamedPipe is called on it.
Connect(c) ==
    /\ Moves(c, "new", "hello")
    /\ \E h \in pipes : peer[h] = None /\ peer' = [peer EXCEPT ![h] = c]
    /\ UNCHANGED <<stop, closing, stopped, capacity, accept, pipes, worker, serving, task,
                   closer, fault>>
Ask(c) == Moves(c, "ready", "asked") /\ Linked(c) /\ UNCHANGED <<serverVars, closer, fault>>
Receive(c) ==
    /\ Moves(c, "asked", "told") /\ worker[c] = "linger" /\ Linked(c)
    /\ UNCHANGED <<serverVars, closer, fault>>
\* Without a reply the caller knows the request was sent, and nothing else.
Leave(c) ==
    /\ \/ Moves(c, "asked", "lost") \/ Moves(c, "ready", "left") \/ Moves(c, "hello", "left")
    /\ IF Linked(c) THEN fault' = TRUE ELSE UNCHANGED fault
    /\ UNCHANGED <<serverVars, closer>>

Asking(c) == Connect(c) \/ Ask(c) \/ Receive(c) \/ Leave(c)

------------------------------------------------------------------------------
Closer(from, to) == closer = from /\ closer' = to
Unfinished(c) == worker[c] \notin {"none", "gone"}

\* connection.py refuses what is dispatched from now on, then closes the pipe.
Stop ==
    /\ Closer("serving", "stopping") /\ stop' = TRUE
    /\ UNCHANGED <<closing, stopped, capacity, accept, pipes, peer, worker, serving, task,
                   client, fault>>

\* CancelSynchronousIo reaches the accepting thread only if it waits at this moment.
StopAccepting ==
    /\ Closer("stopping", "joining") /\ closing' = TRUE
    /\ accept' = IF At("connect") THEN [accept EXCEPT !.pc = "failed"] ELSE accept
    /\ UNCHANGED <<stop, stopped, capacity, pipes, peer, worker, serving, task, client, fault>>

Joined ==
    /\ \/ Closer("joining", "draining") /\ At("ended") /\ UNCHANGED fault
       \/ Closer("joining", "failed") /\ ~At("ended") /\ fault' = TRUE
    /\ UNCHANGED <<serverVars, client>>

\* Clients already admitted are served to the end, or for the time of the drain.
StopTransport ==
    /\ Closer("draining", "waiting") /\ stopped' = TRUE
    /\ IF \E c \in Client : Unfinished(c) THEN fault' = TRUE ELSE UNCHANGED fault
    /\ UNCHANGED <<stop, closing, capacity, accept, pipes, peer, worker, serving, task, client>>

Waited ==
    /\ \/ Closer("waiting", "dispatches") /\ (\A c \in Client : ~Unfinished(c)) /\ UNCHANGED fault
       \/ Closer("waiting", "failed") /\ (\E c \in Client : Unfinished(c)) /\ fault' = TRUE
    /\ UNCHANGED <<serverVars, client>>

Pending(c) == task[c] \in {"queued", "running"}
Drained ==
    /\ \/ Closer("dispatches", "closed") /\ (\A c \in Client : ~Pending(c)) /\ UNCHANGED fault
       \/ Closer("dispatches", "failed") /\ (\E c \in Client : Pending(c)) /\ fault' = TRUE
    /\ UNCHANGED <<serverVars, client>>

Closing == Stop \/ StopAccepting \/ Joined \/ StopTransport \/ Waited \/ Drained

OwnerPipeNext ==
    \/ Accepting \/ Closing
    \/ \E c \in Client : Serving(c) \/ Begin(c) \/ Finish(c) \/ Asking(c)

OwnerPipeSpec == OwnerPipeInit /\ [][OwnerPipeNext]_pipeVars

------------------------------------------------------------------------------
\* Whoever creates an instance finds one left of the max_connections + 1 the system allows.
InstancesLeft == At("connected") \/ At("failed") => Cardinality(pipes) <= MaxConnections

\* A client that was admitted hears the outcome of its request, also while the agent
\* stops, unless something timed out or failed.
AdmittedAnswered == \A c \in Client : client[c] = "lost" => fault

\* Once aclose has waited for all it waits for, the engine may be closed: no call runs,
\* no thread is left and every instance has been released.
ClosedIsQuiet ==
    closer = "closed" =>
        /\ pipes = {} /\ At("ended")
        /\ \A c \in Client : ~Unfinished(c) /\ ~Pending(c)
=============================================================================
