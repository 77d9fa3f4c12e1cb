------------------------------- MODULE MCLocal -------------------------------
(***************************************************************************)
(* Components of one computer that share no state: the peer mailbox, the   *)
(* pools of plugin and of direct sessions, terminals, the gateway and the  *)
(* controller of Subchat, and the listener for enrolled peers.  One        *)
(* behaviour runs one of them, the others stay in their initial state.     *)
(***************************************************************************)
EXTENDS PeerMailbox, TLC
CONSTANTS
    \* the pools of plugin and direct sessions
    PluginOpened, PluginRoom, PluginSweeps, DirectOpened, DirectRoom, DirectWatches,
    \* the terminals
    TermStarted, TermRoom, TermKept, TermCap, TermOutput, TermStarters,
    \* the gateway and the controller of Subchat
    Id, Sends, Reads, Call, Tasks, KeptRequests, MaxStops,
    First, Second, Caller, MaxRecoveries, MaxFailures,
    \* the listener for peers
    Cert, OpId, Tool, Grants, Given, MaxLinks, MaxCalls, MaxChanges,
    \* members of the sets of the instance that is checked
    p1, i1, i2, d1, d2, d3, c1, c2

ASSUME LocalAssumption ==
    /\ PluginOpened \in Nat /\ PluginRoom \in Nat
    /\ DirectOpened \in Nat /\ DirectRoom \in Nat
    /\ TermStarted \in Nat /\ TermRoom \in Nat /\ TermKept \in Nat /\ TermRoom <= TermKept
    /\ TermCap \in Nat /\ TermOutput \in Nat
    /\ MaxLinks \in Nat /\ MaxCalls \in Nat
    /\ None \notin [tool : Tool \cup {"operations_get", None}, state : {"running", "completed"}]

ASSUME GatewayAssumption ==
    /\ IsFiniteSet(Id) /\ KeptRequests \in Nat
    /\ \A r \in Sends \cup Reads : r.id \in Id
    /\ \A r \in Reads : r.op \in Id
    /\ Sends \cap Reads = {}
    /\ None \notin Id /\ None \notin Tasks /\ None \notin Sends /\ None \notin Reads
    /\ None \notin [state : {"prepared", "sending", "submitted", "completed", "cancelled",
                            "preflight_failed"},
                   input : {r.input : r \in Sends}, failed : BOOLEAN]

ASSUME ControllerAssumption == First # Second /\ MaxRecoveries \in Nat

Peers == {p1}
OneProject == [p \in Peers |-> "project"]
\* servers of one peer that replace each other, and send to themselves
Instances == {i1, i2}
Serves == [i \in Instances |-> p1]
Deliveries == {d1, d2, d3}
\* Two commands to the mailbox, two calls to the controller, two starters of
\* terminals: interchangeable, and one pair of names for all.
Two == {c1, c2}
LocalSymmetry == Permutations(Two)
\* Two remote peers that use the same operation ID; grants are narrowed.
Narrow == {{"write", "operations_get"}}
FirstGrants == [p \in Cert |-> IF p = "p" THEN {"read", "write", "operations_get"} ELSE {"write"}]

\* One intent under two request IDs, another one under the second of them, and
\* an observation.
TriedSends == {[id |-> "i1", intent |-> "k1", input |-> "x"],
               [id |-> "i2", intent |-> "k1", input |-> "x"],
               [id |-> "i2", intent |-> "k2", input |-> "y"]}
TriedReads == {[id |-> "i3", op |-> "i1"]}

VARIABLES part,
    shut, shutdown, sweeps, state, confirmed, alive, busy, background, unused, holder, ended,
    closed, swept, entry, server, work, tracked, idle, probe, hold, watch, killed, cut,
    starter, worker, kept, pipe, pump, first, end, stop, cursor, read, missed,
    row, intents, aliases, gateway, barred, gwClosed, gwIdle, call, pending, task, gwWorker,
    posted, gwMisled, gwCut, stops,
    saved, failed, sent, rec, alone, watcher, report, over, caller, posts, blind, called,
    failures,
    enrolled, grants, expires, listens, changes, exchange, records, runs, denied, confirms

Plugin == INSTANCE PluginSessions
    WITH MaxOpened <- PluginOpened, Capacity <- PluginRoom, MaxSweeps <- PluginSweeps
Direct == INSTANCE DirectSessions
    WITH MaxOpened <- DirectOpened, Capacity <- DirectRoom, MaxWatches <- DirectWatches
Terminal == INSTANCE Terminals
    WITH MaxStarted <- TermStarted, MaxActive <- TermRoom, MaxRetained <- TermKept,
         Cap <- TermCap, MaxOutput <- TermOutput, Starters <- TermStarters,
         process <- worker, reader <- pump

Gateway == INSTANCE SubchatGateway
    WITH MaxPending <- KeptRequests, closed <- gwClosed, idle <- gwIdle, worker <- gwWorker, misled <- gwMisled, cut <- gwCut
Controller == INSTANCE SubchatController
    WITH row <- saved, watch <- watcher, posted <- posts

Remote == INSTANCE RemotePeers WITH Nothing <- None

pluginVars == <<shut, shutdown, sweeps, state, confirmed, alive, busy, background, unused,
                holder, ended>>
directVars == <<closed, swept, entry, server, work, tracked, idle, probe, hold, watch,
                killed, cut>>
terminalVars == <<starter, worker, kept, pipe, pump, first, end, stop, cursor, read, missed>>

gatewayVars == <<row, intents, aliases, gateway, barred, gwClosed, gwIdle, call, pending, task,
                 gwWorker, posted, gwMisled, gwCut, stops>>
controllerVars == <<saved, failed, sent, rec, alone, watcher, report, over, caller, posts, blind,
                    called, failures>>
peerVars == <<enrolled, grants, expires, listens, changes, exchange, records, runs, denied,
              confirms>>

LocalInit ==
    /\ part \in {"mailbox", "plugin sessions", "direct sessions", "terminals", "gateway",
                 "controller", "peers"}
    /\ Init /\ Plugin!PluginInit /\ Direct!DirectInit /\ Terminal!TerminalInit
    /\ Gateway!GatewayInit /\ Controller!ControllerInit
    /\ Remote!PeersInit
    /\ part = "controller" \/ saved[First] = "prepared"

\* A gateway sees a second intent, or it restarts and is observed: not all of it.
OneIntent == \E k \in Gateway!Intent : intents[k] = None
Undisturbed == /\ stops = 0 /\ \A c \in Call : call[c].req \notin Reads
               /\ \A t \in Tasks : task[t].req \notin Reads

restVars == <<gatewayVars, controllerVars, peerVars>>

LocalNext ==
    /\ UNCHANGED part
    /\ \/ part = "mailbox" /\ Next /\ UNCHANGED <<pluginVars, directVars, terminalVars, restVars>>
       \/ /\ part = "plugin sessions" /\ Plugin!PluginNext
          /\ UNCHANGED <<vars, directVars, terminalVars, restVars>>
       \/ /\ part = "direct sessions" /\ Direct!DirectNext
          /\ UNCHANGED <<vars, pluginVars, terminalVars, restVars>>
       \/ /\ part = "terminals" /\ Terminal!TerminalNext
          /\ UNCHANGED <<vars, pluginVars, directVars, restVars>>
       \/ /\ part = "gateway" /\ Gateway!GatewayNext /\ (OneIntent \/ Undisturbed)'
          /\ UNCHANGED <<vars, pluginVars, directVars, terminalVars, controllerVars, peerVars>>
       \/ /\ part = "controller" /\ Controller!ControllerNext
          /\ UNCHANGED <<vars, pluginVars, directVars, terminalVars, gatewayVars, peerVars>>
       \/ /\ part = "peers" /\ Remote!PeersNext
          /\ UNCHANGED <<vars, pluginVars, directVars, terminalVars, gatewayVars,
                         controllerVars>>

LocalSpec ==
    LocalInit /\ [][LocalNext]_<<part, vars, pluginVars, directVars, terminalVars, restVars>>

\* Nothing is done twice: a delivery is accepted once, over retries, pruning and
\* restarts; one input is posted for an intent, under however many request IDs,
\* and none for a submission somebody was told is cancelled; a preparation that
\* failed is not repeated unasked; and a peer's operation runs once.
AcceptedOnce == /\ MailAcceptedOnce /\ Remote!PeersOnce
                /\ Gateway!IntentOnce /\ Controller!CancelledIsSilent /\ Controller!NoBlindRetry

\* Whoever is told that nothing was accepted, or nothing dispatched, is told the
\* truth, by the mailbox, the gateway and the listener for peers; a message that the mailbox calls
\* acknowledged was read by whoever acknowledged it; and whoever follows next_cursor of
\* a terminal can account for every byte.
AnswersHonest ==
    MailDenialHonest /\ AckedByReader /\ Gateway!NotMisled /\ Terminal!PagesAddUp
    /\ Remote!PeersToldTrue

\* No pool ever runs more than its limit: plugin sessions, direct sessions and
\* terminals, over concurrent starts, failed starts, and processes that do not
\* end when they are told to; requests a gateway keeps, recoveries of a
\* controller, and the inputs its browser prepares, of which there is one; and
\* connections of peers.
Capacity == /\ Plugin!PluginCapacity /\ Direct!DirectCapacity /\ Terminal!TerminalCapacity
            /\ Gateway!PendingBounded /\ Controller!RecoveriesBounded /\ Controller!OneInput
            /\ Remote!LinksBounded

\* Idle expiry and a requested stop spare what still works: a plugin session
\* with work in the background, a direct session with an unexpired queue watch,
\* whatever probes they wait for in between, and a gateway with a send whose
\* caller has gone.
WorkSpared == Plugin!WorkSpared /\ Direct!WatchKept /\ Gateway!WorkOutlivesCalls

\* When close() of the plugin sessions is over no session is open or opens, a
\* closed gateway sends nothing, and nothing starts for a peer after its grant or
\* enrollment ended.
ClosedForGood ==
    Plugin!ClosedForGood /\ Gateway!SilentWhenClosed /\ Remote!PeersStopped
==============================================================================
