---------------------------- MODULE RemoteService ----------------------------
(***************************************************************************)
(* The processes that keep a computer reachable: a supervisor              *)
(* (remote-watch, with or without --persistent, or http-watch), the        *)
(* service it starts and restarts, the runner of the outbound connector,   *)
(* and the connector itself (cloudflared).  They share lock files, the     *)
(* pipes on which a child sees that its parent is gone, and the tunnel     *)
(* token in the native store.  Any of them may be killed at any time.      *)
(***************************************************************************)
EXTENDS Naturals, FiniteSets

CONSTANTS
    Watch,      \* processes that run remote-watch or http-watch
    Serve,      \* processes that run remote-serve or http-serve
    Runner,     \* processes that run tunnel-run
    Token,      \* tunnel tokens
    Limit,      \* restart_limit
    Reads,      \* how often the supervisor tries to read the credentials
    None

VARIABLES
    lock,       \* of each lock file: the process that holds it, or None
    watch,      \* of each supervisor: its kind, where it is, its child, its counters
    serve,      \* of each service: its kind, where it is, its parent and child, signals
    runner,     \* of each runner: where it is, its parent, the token it handed over
    cloud,      \* the runners whose connector is running
    loose,      \* those of them whose connector is in no service's hand: it was started
                \* after the service had looked, or what would have ended it was killed
    saved       \* the token in the native store, or None

remoteVars == <<lock, watch, serve, runner, cloud, loose, saved>>

Startup == {"httpWatch", "tunnel", "server"}
Locks == Startup \cup {"persistent", "remote"}

NoWatch == [kind |-> "none", at |-> "off", failures |-> 0, reads |-> 0, child |-> None]
NoServe == [kind |-> "none", at |-> "off", parent |-> None, child |-> None,
            sig |-> FALSE, seen |-> FALSE, code |-> "none"]
NoRunner == [at |-> "off", parent |-> None, failures |-> 0, token |-> None,
             sig |-> FALSE, code |-> "none"]

RemoteInit ==
        /\ lock = [l \in Locks |-> None]
        /\ watch = [w \in Watch |-> NoWatch]
        /\ serve = [s \in Serve |-> NoServe]
        /\ runner = [r \in Runner |-> NoRunner]
        /\ cloud = {} /\ loose = {}
        /\ saved = None

Open(ls) == \A l \in ls : lock[l] = None
Take(ls, p) == [l \in Locks |-> IF l \in ls THEN p ELSE lock[l]]
Drop(ls, p) == [l \in Locks |-> IF l \in ls /\ lock[l] = p THEN None ELSE lock[l]]

LiveWatch(w) == watch[w].at # "off"
LiveServe(s) == serve[s].at \notin {"off", "exited"}
LiveRunner(r) == runner[r].at \notin {"off", "exited"}

-----------------------------------------------------------------------------
(***************************************************************************)
(* Supervisors.  One that sleeps before it tries again is where it will    *)
(* go on: at "launch", at "begin", or at "reading" the credentials.        *)
(***************************************************************************)
OnlyWatch(w, rec) ==
    /\ watch' = [watch EXCEPT ![w] = rec]
    /\ UNCHANGED <<serve, runner, cloud, loose, saved>>

StartWatch(w) ==
    /\ ~LiveWatch(w)
    /\ \/ /\ Open({"persistent"})
          /\ lock' = Take({"persistent"}, w)
          /\ OnlyWatch(w, [NoWatch EXCEPT !.kind = "persistent", !.at = "begin"])
       \/ /\ UNCHANGED lock
          /\ OnlyWatch(w, [NoWatch EXCEPT !.kind = "remote", !.at = "begin"])
       \/ /\ Open({"httpWatch", "server"})
          /\ lock' = Take({"httpWatch"}, w)
          /\ OnlyWatch(w, [NoWatch EXCEPT !.kind = "http", !.at = "launch"])

\* _watch_remote_once is left: a persistent watcher goes on at `at`, another ends.
Leave(w, at) ==
    IF watch[w].kind = "persistent"
    THEN /\ lock' = Drop(Locks \ {"persistent"}, w)
         /\ OnlyWatch(w, [NoWatch EXCEPT !.kind = "persistent", !.at = at])
    ELSE /\ lock' = Drop(Locks, w)
         /\ OnlyWatch(w, NoWatch)

Begin(w) ==
    /\ watch[w].at = "begin"
    /\ \/ /\ Open(Startup \cup {"remote"})
          /\ lock' = Take(Startup \cup {"remote"}, w)
          /\ OnlyWatch(w, [watch[w] EXCEPT !.at = "reading", !.reads = 1])
       \/ Leave(w, "blocked")      \* a lock is busy, or the configuration is wrong

ReadCredentials(w) ==
    /\ watch[w].at = "reading"
    /\ \/ /\ saved # None
          /\ lock' = Drop(Startup, w)
          /\ OnlyWatch(w, [watch[w] EXCEPT !.at = "launch", !.reads = 0])
       \/ /\ watch[w].reads < Reads
          /\ OnlyWatch(w, [watch[w] EXCEPT !.reads = @ + 1])
          /\ UNCHANGED lock
       \/ watch[w].reads = Reads /\ Leave(w, "begin")
       \/ Leave(w, "blocked")      \* missing or rejected

Launch(w) ==
    /\ watch[w].at = "launch"
    /\ \/ \E s \in Serve :
            /\ serve[s].at = "off"
            /\ serve' = [serve EXCEPT ![s] = [NoServe EXCEPT
                   !.kind = IF watch[w].kind = "http" THEN "http" ELSE "remote",
                   !.at = "start", !.parent = w]]
            /\ watch' = [watch EXCEPT ![w].at = "wait", ![w].child = s]
            /\ UNCHANGED <<lock, runner, cloud, loose, saved>>
       \/ Leave(w, "blocked")

\* The child ended by itself; a long life clears the count of failures.
Reap(w) ==
    LET s == watch[w].child
        returns == \E n \in {0, watch[w].failures} : serve[s].code = "ok" \/ n >= Limit
    IN /\ watch[w].at = "wait"
       /\ serve[s].at = "exited"
       /\ serve' = [serve EXCEPT ![s] = NoServe]
       /\ \/ /\ returns
             /\ IF watch[w].kind = "persistent"
                THEN /\ lock' = Drop(Locks \ {"persistent"}, w)
                     /\ watch' = [watch EXCEPT ![w] =
                            [NoWatch EXCEPT !.kind = "persistent", !.at = "begin"]]
                ELSE /\ lock' = Drop(Locks, w)
                     /\ watch' = [watch EXCEPT ![w] = NoWatch]
          \/ /\ serve[s].code = "bad"
             /\ \E n \in {0, watch[w].failures} :
                  /\ n < Limit
                  /\ watch' = [watch EXCEPT ![w].at = "launch", ![w].failures = n + 1,
                                            ![w].child = None]
             /\ UNCHANGED lock
       /\ UNCHANGED <<runner, cloud, loose, saved>>

\* The owner's signal.  A child is told, on its pipe and by a signal, and waited for.
Interrupt(w) ==
    /\ watch[w].at \notin {"off", "stop"}
    /\ IF watch[w].at = "wait"
       THEN /\ watch' = [watch EXCEPT ![w].at = "stop"]
            /\ serve' = [serve EXCEPT ![watch[w].child].sig = TRUE]
            /\ UNCHANGED <<lock, runner, cloud, loose, saved>>
       ELSE lock' = Drop(Locks, w) /\ OnlyWatch(w, NoWatch)

Stopped(w) ==
    /\ watch[w].at = "stop" /\ serve[watch[w].child].at = "exited"
    /\ watch' = [watch EXCEPT ![w] = NoWatch]
    /\ serve' = [serve EXCEPT ![watch[w].child] = NoServe]
    /\ lock' = Drop(Locks, w)
    /\ UNCHANGED <<runner, cloud, loose, saved>>

KillWatch(w) ==
    /\ LiveWatch(w)
    /\ watch' = [watch EXCEPT ![w] = NoWatch]
    /\ serve' = [s \in Serve |->
           IF serve[s].parent # w THEN serve[s]
           ELSE IF serve[s].at = "exited" THEN NoServe ELSE [serve[s] EXCEPT !.parent = "lost"]]
    /\ lock' = Drop(Locks, w)
    /\ UNCHANGED <<runner, cloud, loose, saved>>

-----------------------------------------------------------------------------
(***************************************************************************)
(* Services.  serve[s].parent is the supervisor, "lost" once that is gone, *)
(* or "hand" for one started by hand.                                      *)
(***************************************************************************)
OnlyServe(s, rec) ==
    /\ serve' = [serve EXCEPT ![s] = rec]
    /\ UNCHANGED <<watch, runner, cloud, loose, saved>>

EndedServe(s, code) ==
    IF serve[s].parent \in Watch
    THEN [NoServe EXCEPT !.at = "exited", !.code = code, !.parent = serve[s].parent]
    ELSE NoServe

ServeExits(s, code) == lock' = Drop(Locks, s) /\ OnlyServe(s, EndedServe(s, code))

ServeByHand(s) ==
    /\ serve[s].at = "off"
    /\ \E k \in {"remote", "http"} :
         OnlyServe(s, [NoServe EXCEPT !.kind = k, !.at = "start", !.parent = "hand"])
    /\ UNCHANGED lock

\* A runner that ended waits for its service to notice.
EndedRunner(r, code) ==
    IF runner[r].parent \in Serve
    THEN [NoRunner EXCEPT !.at = "exited", !.code = code, !.parent = runner[r].parent]
    ELSE NoRunner

\* Only remote-serve watches the pipe of its parent; the owner may stop by hand what was
\* started by hand.
ToldToStop(s) ==
    \/ serve[s].sig \/ serve[s].parent = "hand"
    \/ serve[s].kind = "remote" /\ serve[s].parent = "lost"

\* The combined owner excludes http-watch for its life and another runner for a look.
EnterServe(s) ==
    /\ serve[s].at = "start"
    /\ \/ /\ serve[s].kind = "remote" /\ Open({"httpWatch"})
          /\ lock' = Take({"httpWatch"}, s)
          /\ OnlyServe(s, [serve[s] EXCEPT !.at = "preflight"])
       \/ ServeExits(s, "bad")
       \/ /\ serve[s].kind = "http"
          /\ OnlyServe(s, [serve[s] EXCEPT !.at = "bind"])
          /\ UNCHANGED lock

Preflight(s) ==
    /\ serve[s].at = "preflight"
    /\ \/ /\ Open({"tunnel"}) /\ saved # None
          /\ OnlyServe(s, [serve[s] EXCEPT !.at = "bind"])
          /\ UNCHANGED lock
       \/ ServeExits(s, "bad")

Bind(s) ==
    /\ serve[s].at = "bind"
    /\ \/ /\ Open({"server"})
          /\ lock' = Take({"server"}, s)
          /\ OnlyServe(s, [serve[s] EXCEPT !.at = "up"])
       \/ ServeExits(s, "bad")

SpawnRunner(s) ==
    /\ serve[s].at = "up" /\ serve[s].kind = "remote" /\ serve[s].child = None
    /\ \/ \E r \in Runner :
            /\ runner[r].at = "off" /\ r \notin cloud
            /\ runner' = [runner EXCEPT ![r] = [NoRunner EXCEPT !.at = "start", !.parent = s]]
            /\ serve' = [serve EXCEPT ![s].child = r]
            /\ UNCHANGED <<lock, watch, cloud, loose, saved>>
       \/ /\ OnlyServe(s, [serve[s] EXCEPT !.at = "closing", !.code = "bad"])
          /\ UNCHANGED lock

\* The runner ended: the service ends with its code.
RunnerEnded(s) ==
    LET r == serve[s].child IN
    /\ serve[s].at = "up" /\ r # None /\ runner[r].at = "exited"
    /\ serve' = [serve EXCEPT ![s].at = "closing", ![s].code = runner[r].code, ![s].child = None]
    /\ runner' = [runner EXCEPT ![r] = NoRunner]
    /\ UNCHANGED <<lock, watch, cloud, loose, saved>>

\* stop_remote_connector: the descendants of a runner that still lives are looked up,
LookUp(s) ==
    LET r == serve[s].child IN
    /\ serve[s].at = "up" /\ r # None /\ ToldToStop(s)
    /\ serve' = [serve EXCEPT ![s].at = "looked", ![s].seen = LiveRunner(r) /\ r \in cloud,
                              ![s].code = "ok"]
    /\ UNCHANGED <<lock, watch, runner, cloud, loose, saved>>

\* then it is told to end, on its pipe and by a signal,
StopConnector(s) ==
    LET r == serve[s].child IN
    /\ serve[s].at = "looked"
    /\ serve' = [serve EXCEPT ![s].at = "stopping"]
    /\ runner' = [runner EXCEPT ![r].sig = @ \/ LiveRunner(r)]
    /\ UNCHANGED <<lock, watch, cloud, loose, saved>>

\* and killed if it does not in time: its connector runs on.
KillStuck(s) ==
    LET r == serve[s].child IN
    /\ serve[s].at = "stopping" /\ LiveRunner(r)
    /\ runner' = [runner EXCEPT ![r] = EndedRunner(r, "bad")]
    /\ lock' = Drop(Locks, r)
    /\ UNCHANGED <<watch, serve, cloud, loose, saved>>

\* What the service saw before it told the runner, and nothing that was started since.
NoDescendants(s) == {}

Descendants(s) == IF serve[s].seen THEN {serve[s].child} \ loose ELSE {}

\* The runner is gone: then its descendants are ended.
EndDescendants(s) ==
    LET r == serve[s].child IN
    /\ serve[s].at = "stopping" /\ runner[r].at = "exited"
    /\ runner' = [runner EXCEPT ![r] = NoRunner]
    /\ cloud' = cloud \ Descendants(s)
    /\ serve' = [serve EXCEPT ![s].at = "closing", ![s].child = None, ![s].seen = FALSE]
    /\ UNCHANGED <<lock, watch, loose, saved>>

\* Told to stop with no runner to stop: before the service is up, or as http-serve.
Unwind(s) ==
    /\ ToldToStop(s)
    /\ \/ /\ serve[s].at \in {"start", "preflight", "bind"}
          /\ serve[s].sig \/ serve[s].parent = "hand"
       \/ serve[s].at = "up" /\ serve[s].kind = "http"
    /\ ServeExits(s, "ok")

CloseService(s) == serve[s].at = "closing" /\ ServeExits(s, serve[s].code)

\* Killed: its runner finds its pipe closed; what it was about to end is left.
DeadServe(s) ==
    /\ runner' = [r \in Runner |->
           IF runner[r].parent # s THEN runner[r]
           ELSE IF runner[r].at = "exited" THEN NoRunner
           ELSE [runner[r] EXCEPT !.parent = "lost"]]
    /\ loose' = loose \cup {r \in cloud : runner[r].parent = s /\ runner[r].at = "exited"}
    /\ UNCHANGED <<cloud, saved>>

KillServe(s) ==
    /\ LiveServe(s)
    /\ serve' = [serve EXCEPT ![s] = EndedServe(s, "bad")]
    /\ lock' = Drop(Locks, s)
    /\ DeadServe(s)
    /\ UNCHANGED watch

\* The supervisor waited ten seconds for its child.
KillChild(w) ==
    LET s == watch[w].child IN
    /\ watch[w].at = "stop" /\ LiveServe(s)
    /\ watch' = [watch EXCEPT ![w] = NoWatch]
    /\ serve' = [serve EXCEPT ![s] = NoServe]
    /\ lock' = [l \in Locks |-> IF lock[l] \in {w, s} THEN None ELSE lock[l]]
    /\ DeadServe(s)

-----------------------------------------------------------------------------
(***************************************************************************)
(* Runners of the connector.                                               *)
(***************************************************************************)
OnlyRunner(r, rec) ==
    /\ runner' = [runner EXCEPT ![r] = rec]
    /\ UNCHANGED <<watch, serve, saved>>

RunnerExits(r, code) ==
    /\ lock' = Drop(Locks, r)
    /\ OnlyRunner(r, EndedRunner(r, code))
    /\ cloud' = cloud \ {r} /\ loose' = loose \ {r}

RunByHand(r) ==
    /\ runner[r].at = "off" /\ r \notin cloud
    /\ OnlyRunner(r, [NoRunner EXCEPT !.at = "start", !.parent = "hand"])
    /\ UNCHANGED <<lock, cloud, loose>>

ToldToEnd(r) == runner[r].sig \/ runner[r].parent = "lost"
Interrupted(r) == runner[r].sig \/ runner[r].parent = "hand"
MayEnd(r) == ToldToEnd(r) \/ runner[r].parent = "hand"

EnterRunner(r) ==
    /\ runner[r].at = "start"
    /\ \/ /\ Open({"tunnel"}) /\ saved # None
          /\ lock' = Take({"tunnel"}, r)
          /\ OnlyRunner(r, [runner[r] EXCEPT !.at = "loop"])
          /\ UNCHANGED <<cloud, loose>>
       \/ RunnerExits(r, "bad")

StopRequested(r) == /\ runner[r].at = "loop" /\ MayEnd(r)
                    /\ RunnerExits(r, "ok")

\* An attempt failed; a long life clears the count of failures.
Failure(r) ==
    \E n \in {0, runner[r].failures} :
        IF n >= Limit THEN RunnerExits(r, "bad")
        ELSE /\ OnlyRunner(r, [runner[r] EXCEPT !.at = "loop", !.failures = n + 1,
                                                !.token = None])
             /\ cloud' = cloud \ {r} /\ loose' = loose \ {r}
             /\ UNCHANGED lock

\* Each start looks for a request to stop, then reads the token again,
StartConnector(r) ==
    /\ runner[r].at = "loop" /\ ~ToldToEnd(r)
    /\ \/ /\ saved # None
          /\ OnlyRunner(r, [runner[r] EXCEPT !.at = "starting", !.token = saved])
          /\ UNCHANGED <<lock, cloud, loose>>
       \/ RunnerExits(r, "bad")

\* makes a pipe of its own for it, and starts the connector, whatever it was told since.
\* An interrupt that comes before the code that would end the connector leaves it.
Looked(r) == \E s \in Serve : serve[s].child = r /\ serve[s].at \in {"looked", "stopping"}

Spawn(r) ==
    /\ runner[r].at = "starting"
    /\ \/ /\ OnlyRunner(r, [runner[r] EXCEPT !.at = "handing"])
          /\ cloud' = cloud \cup {r}
          /\ loose' = IF Looked(r) THEN loose \cup {r} ELSE loose
          /\ UNCHANGED lock
       \/ Failure(r)
       \/ RunnerExits(r, "bad")
       \/ /\ Interrupted(r)
          /\ \/ RunnerExits(r, "ok")
             \/ /\ OnlyRunner(r, EndedRunner(r, "ok"))
                /\ lock' = Drop(Locks, r)
                /\ cloud' = cloud \cup {r} /\ loose' = loose \cup {r}

\* SecretPipe: the connector reads the token, or it is stopped and tried again; a
\* writer that does not stop ends the runner.
HandOver(r) ==
    /\ runner[r].at = "handing"
    /\ \/ OnlyRunner(r, [runner[r] EXCEPT !.at = "run"]) /\ UNCHANGED <<lock, cloud, loose>>
       \/ Failure(r)
       \/ RunnerExits(r, "bad")

ConnectorExited(r) ==
    /\ runner[r].at = "run" /\ r \notin cloud
    /\ RunnerExits(r, "ok") \/ Failure(r)

\* Told to stop while a connector runs: it is signalled, waited for, killed.
EndConnector(r) ==
    /\ runner[r].at \in {"run", "handing"} /\ MayEnd(r)
    /\ runner[r].at = "run" \/ Interrupted(r)
    /\ RunnerExits(r, "ok")

\* Killed by hand: its connector runs on, and only a service that has looked knows of it.
KillRunner(r) ==
    /\ LiveRunner(r)
    /\ OnlyRunner(r, EndedRunner(r, "bad"))
    /\ lock' = Drop(Locks, r)
    /\ loose' = IF \E s \in Serve : r \in Descendants(s) THEN loose ELSE loose \cup ({r} \cap cloud)
    /\ UNCHANGED cloud

CloudExits(r) == /\ r \in cloud
                 /\ cloud' = cloud \ {r} /\ loose' = loose \ {r}
                 /\ UNCHANGED <<lock, watch, serve, runner, saved>>

-----------------------------------------------------------------------------
(***************************************************************************)
(* The saved token.  A write or a removal may fail, before or after it.    *)
(***************************************************************************)
Install(t) ==
    /\ Open({"tunnel"})
    /\ saved' = t
    /\ UNCHANGED <<lock, watch, serve, runner, cloud, loose>>

Forget ==
    /\ Open({"tunnel"})
    /\ saved' = None
    /\ UNCHANGED <<lock, watch, serve, runner, cloud, loose>>

-----------------------------------------------------------------------------
WatchStep(w) ==
    \/ StartWatch(w) \/ Begin(w) \/ ReadCredentials(w)
    \/ Launch(w) \/ Reap(w) \/ Interrupt(w) \/ Stopped(w) \/ KillChild(w)
    \/ KillWatch(w)

ServeStep(s) ==
    \/ ServeByHand(s) \/ EnterServe(s) \/ Preflight(s) \/ Bind(s) \/ SpawnRunner(s)
    \/ RunnerEnded(s) \/ LookUp(s) \/ StopConnector(s) \/ KillStuck(s) \/ EndDescendants(s)
    \/ Unwind(s) \/ CloseService(s) \/ KillServe(s)

RunnerStep(r) ==
    \/ RunByHand(r) \/ EnterRunner(r) \/ StopRequested(r) \/ StartConnector(r) \/ Spawn(r)
    \/ HandOver(r) \/ ConnectorExited(r) \/ EndConnector(r) \/ KillRunner(r) \/ CloudExits(r)

RemoteNext ==
    \/ \E w \in Watch : WatchStep(w)
    \/ \E s \in Serve : ServeStep(s)
    \/ \E r \in Runner : RunnerStep(r)
    \/ \E t \in Token : Install(t)
    \/ Forget

RemoteSpec == RemoteInit /\ [][RemoteNext]_remoteVars

-----------------------------------------------------------------------------
\* A process is left without its parent only if the parent was killed: a supervisor or a
\* service that ends has ended its child, and a service also the connector it saw, even if
\* the runner had to be killed.  The connectors that are left are `loose`: started between
\* the look and the end of the runner, or left by what was killed (LookUp, Spawn,
\* KillRunner, DeadServe).
NothingLeft ==
    /\ \A s \in Serve : LiveServe(s) /\ serve[s].parent \in Watch =>
           watch[serve[s].parent].child = s
    /\ \A r \in Runner : LiveRunner(r) /\ runner[r].parent \in Serve =>
           serve[runner[r].parent].child = r
    /\ \A r \in cloud \ loose :
           LiveRunner(r) \/ \E s \in Serve : serve[s].child = r /\ serve[s].seen

\* As long as the runner of a service lives, so does the HTTP service behind it: the
\* connector is stopped first, and a runner is started only once the service is bound.
Fronted ==
    \A r \in Runner : LiveRunner(r) /\ runner[r].parent \in Serve =>
        lock["server"] = runner[r].parent

\* Two runners never have connectors at once, and the token one was given is not replaced
\* or removed while it runs (a connector without its runner holds no lock).
OneConnector ==
    \A r \in cloud : LiveRunner(r) => lock["tunnel"] = r /\ runner[r].token = saved
=============================================================================
