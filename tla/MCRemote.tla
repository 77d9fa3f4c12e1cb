------------------------------- MODULE MCRemote -------------------------------
(***************************************************************************)
(* Components of remote devices that share no state: the enrollment of     *)
(* this computer, the relay's channels to PCs, the router of saved         *)
(* devices, delegated calls and the ledger which the HTTP service and SSH  *)
(* children open side by side for them, a connector's sessions with the    *)
(* HTTP service, the migration of the engine's state, and the startup      *)
(* registration.  One behaviour runs one of them, the others stay in their *)
(* initial state.                                                          *)
(***************************************************************************)
EXTENDS DeviceEnrollment, FiniteSets, TLC

CONSTANTS w1, w2, x, y, k1, k2

\* Small sets, shared by the components: two of each.
Two == {w1, w2}
Both == {x, y}
Pair == {k1, k2}

\* Calls to the relay, to the router and of a delegated child; operation IDs.
CONSTANTS Asks, Ops, Body, Notice, Sid, MaxConns, MaxChannels, MaxDevices, MaxCrashes,
          MaxId, Legacy, MaxSessions, MaxDispatch, MaxFaults,
          MaxRefusals  \* of the account: devices, grants, codes taken away in one behaviour

\* Nothing that is a value is also taken for its absence.
ASSUME RemoteAssumption ==
    /\ MaxConns \in Nat /\ MaxDevices \in Nat /\ MaxId \in Nat
    /\ MaxSessions \in Nat /\ MaxDispatch \in Nat
    /\ Accounts \cap {"local", "http", "agent"} = {}
    /\ Legacy \subseteq 1 .. MaxId
    /\ IsFiniteSet(Accounts) /\ IsFiniteSet(Sid)
    /\ None \notin Accounts \cup Asks \cup {"local", "http", "agent", "remote"}
    /\ None \notin {"initialize", "initialized", "call"}
    /\ None \notin {"failed", "completed", "running", "unknown"}
    /\ None \notin [attempt : Attempts, id : Ids, owner : Accounts \cup {None},
                    device : [account : Accounts, state : {"registered", "revoked"}]
                                 \cup {None}]
    /\ None \notin [request : Workers, id : 1 .. MaxDevices, endpoint : Accounts]
    /\ None \notin [bound : [request : Workers, id : 1 .. MaxDevices, endpoint : Accounts],
                    dispatched : BOOLEAN]
    /\ None \notin [target : Accounts, before : [shared : BOOLEAN, tools : {1, 2}],
                    sources : [{"local", "http"} -> SUBSET (Workers \X {"local", "http"})],
                    content : SUBSET (Workers \X {"local", "http"})]

ASSUME RefusalAssumption == MaxRefusals \in Nat

VARIABLES part, bound, revoked, granted, current, conn, request, reply, client,
          call, ran, device, added, routed, caller, forwarded,
          opState, opDigest, opResult, opRestarted, opBodies, opened, opClaim,
          opTask, opClaimant, opLost, opEffects, opAnswers,
          store, staged, localPending, httpPending, chosen, config, owners,
          migration, recorded,
          receipt, previous, file, job, ids, command,
          server, sessions, httpConn, httpTask, connector, httpGrant, token, executed, faults,
          childGrant, route, input, childBound, row, worker, childCall, childWire, crashes,
          disk, told, botched, late

\* The devices are the accounts, the fingerprints the workers.
Relay == INSTANCE RelayChannels WITH Devices <- Accounts, Prints <- Workers, Calls <- Asks

Router == INSTANCE DeviceRouter
    WITH Endpoints <- Accounts, Requests <- Workers, Callers <- Asks

Delegated == INSTANCE OperationLedger
    WITH Op <- Ops, Arg <- Accounts, Process <- Workers, Exclusive <- FALSE,
         state <- opState, digest <- opDigest,
         result <- opResult, restarted <- opRestarted, bodies <- opBodies,
         up <- opened, claiming <- opClaim, task <- opTask,
         claimant <- opClaimant, lost <- opLost, effects <- opEffects,
         answers <- opAnswers

Migrating == INSTANCE EngineMigration
    WITH Key <- Workers, Target <- Accounts, opened <- owners

Registered == INSTANCE Startup WITH used <- ids

Http == INSTANCE HttpSessions
    WITH Connector <- Accounts, conn <- httpConn, task <- httpTask, client <- connector,
         grant <- httpGrant

Child == INSTANCE DelegatedCalls
    WITH Call <- Asks, grant <- childGrant, bound <- childBound,
         file <- worker, call <- childCall, wire <- childWire

Symmetry == Permutations(Two) \cup Permutations(Both) \cup Permutations(Pair)

relayVars == <<bound, revoked, granted, current, conn, request, reply, client, call, ran>>
routerVars == <<device, added, routed, caller, forwarded>>
opVars == <<opState, opDigest, opResult, opRestarted, opBodies, opened, opClaim,
            opTask, opClaimant, opLost, opEffects, opAnswers>>
engineVars == <<store, staged, localPending, httpPending, chosen, config, owners,
                migration, recorded>>
jobVars == <<receipt, previous, file, job, ids, command>>
httpVars == <<server, sessions, httpConn, httpTask, connector, httpGrant, token, executed,
              faults>>
childVars == <<childGrant, route, input, childBound, row, worker, childCall, childWire, crashes,
               disk, told, botched, late>>
remoteVars == <<vars, relayVars, routerVars, opVars, childVars>>
hostVars == <<engineVars, jobVars, httpVars>>

PartInit ==
    /\ part \in {"enrollment", "crowded", "busy", "router", "delegated", "migration",
                 "startup", "http", "faulty", "child"}
    /\ Init /\ Relay!Init /\ Router!Init /\ Delegated!Init /\ Child!DelegatedInit
    /\ Migrating!MigrationInit /\ Registered!StartupInit /\ Http!HttpInit
    /\ part # "startup" => receipt = Registered!NoReceipt

\* The relay is asked once beside several devices, or several times for the only one
\* that is registered, from one PC at a time; an HTTP service has several connectors and
\* one fault, or one connector and several faults.
OneCall == \A j, k \in Asks : call[j].stage # "new" /\ call[k].stage # "new" => j = k
Met == {d \in Accounts : d \in revoked \/ d \notin granted \/ \E f \in Workers : bound[f] = d}
OneMet == \A d, e \in Met : d = e
OnePC == \A f, g \in Workers : client[f].state # "stopped" /\ client[g].state # "stopped" => f = g
Away == {c \in Accounts : /\ connector[c] = Http!Resting /\ token[c] = "good"
                         /\ httpGrant[c] = 1 /\ executed[c] = 0}
OneConnects == \E c \in Accounts : Accounts \ {c} \subseteq Away

\* What the account takes away while a computer enrolls, and from the relay's devices.
Refusals == Cardinality(lapsed) + Cardinality({d \in Devices : registry[d] = "revoked"})
            + Cardinality({a \in Attempts : code[a] \in {"denied", "expired"}})
Withdrawn == Cardinality(revoked) + Cardinality(Accounts \ granted)

EnrollmentNext == part = "enrollment" /\ Next /\ Refusals' <= MaxRefusals

RelayNext ==
    /\ part \in {"crowded", "busy"} /\ Relay!Next
    /\ IF part = "crowded" THEN OneCall' ELSE OneMet' /\ OnePC'
    /\ Withdrawn' <= MaxRefusals

ServiceNext ==
    /\ part \in {"http", "faulty"} /\ Http!HttpNext
    /\ IF part = "http" THEN faults' <= 1 ELSE OneConnects'

RemoteNext ==
    /\ UNCHANGED hostVars
    /\ \/ EnrollmentNext /\ UNCHANGED <<relayVars, routerVars, opVars, childVars>>
       \/ RelayNext /\ UNCHANGED <<vars, routerVars, opVars, childVars>>
       \/ part = "router" /\ Router!Next /\ UNCHANGED <<vars, relayVars, opVars, childVars>>
       \/ part = "delegated" /\ Delegated!Next /\ UNCHANGED <<vars, relayVars, routerVars, childVars>>
       \/ part = "child" /\ Child!DelegatedNext /\ UNCHANGED <<vars, relayVars, routerVars, opVars>>

HostNext ==
    /\ UNCHANGED remoteVars
    /\ \/ part = "migration" /\ Migrating!MigrationNext /\ UNCHANGED <<jobVars, httpVars>>
       \/ part = "startup" /\ Registered!StartupNext /\ UNCHANGED <<engineVars, httpVars>>
       \/ ServiceNext /\ UNCHANGED <<engineVars, jobVars>>

PartNext == UNCHANGED part /\ (RemoteNext \/ HostNext)

PartSpec == PartInit /\ [][PartNext]_<<part, remoteVars, hostVars>>

\* Each component's module says what its conjunct means and why.

\* Nobody reads a success that did not happen or an outcome that is unknown as
\* a failure, and no record or database says more or less than what was done.
RecordsTrue ==
    /\ Relay!OutcomeHonest
    /\ Http!RejectedUnrun
    /\ Migrating!RowsKept
    /\ Child!ReceiptsTrue

\* A computer is registered once, a device has one open channel, its current one, both
\* services of this computer use one engine, an HTTP service that has closed is quiet,
\* and what a grant allowed ends with it.
OneCurrent ==
    /\ OneDevice
    /\ Relay!OpenIsCurrent
    /\ Http!HttpBounded
    /\ Migrating!NoSplit
    /\ Child!RevokedStops

\* No call runs twice, and no startup job is left that nobody owns.
OnceAndOwned ==
    /\ Router!ForwardedOnce /\ Delegated!AtMostOnce /\ Child!WrittenOnce
    /\ Registered!JobOwned

\* A grant in use is never deleted, the registration keeps the one it was made with, and
\* a startup file or job of somebody else's is touched only if it came late.
OthersKept == GrantKept /\ []Resumable /\ Registered!OthersKept
=============================================================================
