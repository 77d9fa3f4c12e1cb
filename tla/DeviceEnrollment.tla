-------------------------- MODULE DeviceEnrollment --------------------------
(***************************************************************************)
(* Enrolling this computer as a device of a relay account: the device      *)
(* authorization client (device_authorization.py, device_polling.py), the  *)
(* OS vault slots of enrollment grants (enrollment_credentials.py), the    *)
(* durable registration attempt (registration_client.py), the worker that  *)
(* serves the native manager's commands (enrollment_worker.py) and the     *)
(* relay's device registry (relay_registry.py, relay_enrollment.py).       *)
(*                                                                         *)
(* Several worker processes may share one state directory and one vault.   *)
(* A worker runs one command at a time; it may be killed at any point      *)
(* (desktop/src/enrollment.rs kills it after 45 s without an answer) and   *)
(* is then started afresh.  Requests and replies may be lost; a request    *)
(* may reach the relay after the worker gave up.  An authorization attempt *)
(* may be cancelled while its request is in flight.                        *)
(*                                                                         *)
(* Left out: names of devices (one name), user codes and pages, polling    *)
(* intervals (a poll may be made at any time), expiry as a clock (a grant  *)
(* or code may lapse at any time).                                         *)
(***************************************************************************)
EXTENDS Naturals, Sequences

CONSTANTS
    Workers,      \* worker processes of the native manager
    Accounts,     \* accounts that may approve a code
    MaxAttempts,  \* authorization attempts started, in all
    MaxSlots,     \* recovery slots recorded, in all
    MaxIds,       \* enrollment ids drawn, in all
    Binds,        \* TRUE iff account_endpoint is configured
    None

ASSUME EnrollmentAssumption ==
    /\ MaxAttempts \in Nat
    /\ MaxSlots \in Nat
    /\ MaxIds \in Nat
    /\ Binds \in BOOLEAN
    /\ None \notin Accounts

Main == 0                     \* the vault slot of profile "native-manager"
Slots == 0 .. MaxSlots        \* and those of "native-manager-recovery-<slot>"
Attempts == 1 .. MaxAttempts
Ids == 1 .. MaxIds
Devices == Accounts \X Ids      \* what the registry is keyed by
Grants == [attempt : Attempts, account : Accounts]
Phases == {"new", "starting", "waiting", "requesting", "grant_saved", "denied",
           "expired", "cancelled", "failed", "uncertain", "credential_error"}

VARIABLES
    auth,      \* worker -> its current DeviceAuthorizationClient
    original,  \* worker -> the client it was started with, None while current
    pc,        \* worker -> the command it is in the middle of
    held,      \* worker -> the grant whose token that command carries
    vault,     \* slot -> the grant the OS vault holds there
    reg,       \* the row of registration.sqlite3, or None
    slots,     \* the recorded recovery slots, oldest first
    used,      \* how many attempts, slots and enrollment ids were ever drawn
    lapsed,    \* attempts whose grant is past its lifetime
    code,      \* attempt -> what its code stands for at the provider
    wire,      \* the registration requests sent, as <<account, enrollment id>>
    registry   \* the same pairs -> state of the device at the relay

vars == <<auth, original, pc, held, vault, reg, slots, used, lapsed, code, wire,
          registry>>

Client(s) == [slot |-> s, phase |-> "new", attempt |-> 0, pending |-> None]

LockFree == \A w \in Workers : pc[w] \notin {"account", "confirm", "cleanup", "unrecord"}

Latest == IF slots = <<>> THEN Main ELSE slots[Len(slots)]

Init ==
    /\ auth = [w \in Workers |-> Client(Main)]
    /\ original = [w \in Workers |-> None]
    /\ pc = [w \in Workers |-> "idle"]
    /\ held = [w \in Workers |-> None]
    /\ vault = [s \in Slots |-> None]
    /\ reg = None
    /\ slots = <<>>
    /\ used = [attempts |-> 0, slots |-> 0, ids |-> 0]
    /\ lapsed = {}
    /\ code = [a \in Attempts |-> "pending"]
    /\ wire = {}
    /\ registry = [d \in Devices |-> "none"]

-----------------------------------------------------------------------------
(* The authorization client.                                               *)

SetPhase(c, p) == [c EXCEPT !.phase = p]

Valid(s) == vault[s] # None /\ vault[s].attempt \notin lapsed

\* restore_saved(): a fresh client takes over the grant its slot holds.
Restored(c) ==
    CASE c.phase # "new" \/ vault[c.slot] = None -> c
      [] c.phase = "new" /\ Valid(c.slot) ->
            [c EXCEPT !.phase = "grant_saved", !.attempt = vault[c.slot].attempt]
      [] OTHER -> SetPhase(c, "credential_error")

Cancelled(c) ==
    IF c.phase \in {"new", "starting", "waiting", "requesting", "credential_error"}
    THEN [c EXCEPT !.phase = "cancelled", !.pending = None]
    ELSE c

\* start() of a client: refused by a vault slot in use (or not readable).
Begin(w, c) ==
    \/ /\ auth' = [auth EXCEPT ![w] = SetPhase(c, "credential_error")]
       /\ UNCHANGED <<pc, used>>
    \/ /\ vault[c.slot] = None
       /\ used.attempts < MaxAttempts
       /\ used' = [used EXCEPT !.attempts = @ + 1]
       /\ auth' = [auth EXCEPT ![w] =
                      [c EXCEPT !.phase = "starting", !.attempt = used'.attempts]]
       /\ pc' = [pc EXCEPT ![w] = "start"]

Start(w) ==
    /\ pc[w] = "idle" /\ auth[w].phase = "new"
    /\ Begin(w, auth[w])
    /\ UNCHANGED <<original, held, vault, reg, slots, lapsed, code, wire, registry>>

\* The provider's answer to start(), or the end of waiting for one.
StartReply(w) ==
    /\ pc[w] = "start"
    /\ pc' = [pc EXCEPT ![w] = "idle"]
    /\ \/ auth[w].phase = "cancelled" /\ UNCHANGED auth
       \/ /\ auth[w].phase = "starting"
          /\ \E p \in {"waiting", "expired", "failed"} :
                auth' = [auth EXCEPT ![w] = SetPhase(@, p)]
    /\ UNCHANGED <<original, held, vault, reg, slots, used, lapsed, code, wire, registry>>

Unused(s, g) == vault[s] \in {None, g}

\* retry_save() of client c with the received grant g: the vault may fail before
\* or after the write, the grant may have lapsed, the slot may hold another.
Save(w, c, g) ==
    \/ /\ auth' = [auth EXCEPT ![w] =
                      [c EXCEPT !.phase = "credential_error", !.pending = g]]
       /\ UNCHANGED vault
    \/ /\ g.attempt \notin lapsed
       /\ Unused(c.slot, g)
       /\ vault' = [vault EXCEPT ![c.slot] = g]
       /\ \E saved \in BOOLEAN :
             auth' = [auth EXCEPT ![w] =
                 IF saved THEN [c EXCEPT !.phase = "grant_saved", !.pending = None]
                 ELSE [c EXCEPT !.phase = "credential_error", !.pending = g]]

Poll(w) ==
    /\ pc[w] = "idle" /\ auth[w].phase = "waiting"
    /\ \/ auth' = [auth EXCEPT ![w] = SetPhase(@, "expired")] /\ UNCHANGED pc
       \/ /\ auth' = [auth EXCEPT ![w] = SetPhase(@, "requesting")]
          /\ pc' = [pc EXCEPT ![w] = "poll"]
    /\ UNCHANGED <<original, held, vault, reg, slots, used, lapsed, code, wire, registry>>

\* What the provider has done with a code it was asked about.
Redeemed(a) ==
    IF code[a] \in Accounts THEN [code EXCEPT ![a] = "redeemed"] ELSE code

Wanted(c) == c.phase # "cancelled"

\* The outcome of a poll's request; a cancelled attempt only takes note of it.
PollReply(w) ==
    /\ pc[w] = "poll"
    /\ pc' = [pc EXCEPT ![w] = "idle"]
    /\ LET c == auth[w]
           a == c.attempt
           set(p) == auth' = [auth EXCEPT ![w] =
                        IF Wanted(@) THEN SetPhase(@, p) ELSE @]
       IN  \/ /\ \/ code[a] = "pending" /\ set("waiting")
                 \/ code[a] = "denied" /\ set("denied")
                 \/ code[a] = "expired" /\ set("expired")
                 \/ code[a] = "redeemed" /\ set("failed")
              /\ UNCHANGED <<vault, code>>
           \/ /\ code[a] \in Accounts /\ code' = Redeemed(a)
              /\ IF Wanted(c) THEN Save(w, c, [attempt |-> a, account |-> code[a]])
                 ELSE UNCHANGED <<auth, vault>>
           \/ \* sent, and no usable answer
              code' = Redeemed(a) /\ set("uncertain") /\ UNCHANGED vault
           \/ \* never sent: a timeout, or another failure to connect
              (set("waiting") \/ set("failed")) /\ UNCHANGED <<vault, code>>
    /\ UNCHANGED <<original, held, reg, slots, used, lapsed, wire, registry>>

RetrySave(w) ==
    /\ pc[w] = "idle" /\ auth[w].pending # None
    /\ Save(w, auth[w], auth[w].pending)
    /\ UNCHANGED <<original, pc, held, reg, slots, used, lapsed, code, wire, registry>>

\* cancel(), from the command loop or beside a start() or poll() in a thread.
Cancel(w) ==
    /\ pc[w] \in {"idle", "start", "poll"}
    /\ auth' = [auth EXCEPT ![w] = Cancelled(@)]
    /\ UNCHANGED <<original, pc, held, vault, reg, slots, used, lapsed, code, wire,
                   registry>>

-----------------------------------------------------------------------------
(* The commands of enrollment_worker.py that need more than one client.    *)

\* Keep the client the worker was started with when another takes its place.
Replace(w) == original' = [original EXCEPT ![w] = IF @ = None THEN auth[w] ELSE @]

Progress(w) ==
    /\ pc[w] = "idle"
    /\ auth' = [auth EXCEPT ![w] = Restored(@)]
    /\ UNCHANGED <<original, pc, held, vault, reg, slots, used, lapsed, code, wire,
                   registry>>

Restart(w) ==
    /\ pc[w] = "idle" /\ reg = None
    /\ auth[w].phase \in {"denied", "expired", "cancelled", "failed"}
    /\ vault[auth[w].slot] = None
    /\ Replace(w)
    /\ Begin(w, Client(auth[w].slot))
    /\ UNCHANGED <<held, vault, reg, slots, lapsed, code, wire, registry>>

CanReauthorize(w) ==
    /\ reg # None /\ reg.device = None /\ reg.owner # None
    /\ auth[w].phase \notin {"starting", "waiting", "requesting"}
    /\ ~ (auth[w].pending # None /\ auth[w].pending.attempt \notin lapsed)

Reauthorize(w) ==
    /\ pc[w] = "idle" /\ LockFree /\ CanReauthorize(w)
    /\ used.slots < MaxSlots
    /\ LET s == used.slots + 1
       IN  /\ slots' = Append(slots, s)
           /\ original' = [original EXCEPT ![w] = IF @ = None THEN Cancelled(auth[w]) ELSE @]
           /\ \/ /\ auth' = [auth EXCEPT ![w] = SetPhase(Client(s), "credential_error")]
                 /\ used' = [used EXCEPT !.slots = s]
                 /\ UNCHANGED pc
              \/ /\ used.attempts < MaxAttempts
                 /\ used' = [used EXCEPT !.attempts = @ + 1, !.slots = s]
                 /\ auth' = [auth EXCEPT ![w] = [Client(s) EXCEPT
                                !.phase = "starting", !.attempt = used'.attempts]]
                 /\ pc' = [pc EXCEPT ![w] = "start"]
    /\ UNCHANGED <<held, vault, reg, lapsed, code, wire, registry>>

\* register: what the saved row and the client's phase allow, then the lock of
\* registration.lock and the token of the slot's grant.
MayRegister(c) ==
    IF c.slot = Main
    THEN /\ reg = None => c.phase = "grant_saved"
         /\ Valid(Main)
         /\ vault[Main].attempt = IF reg = None THEN c.attempt ELSE reg.attempt
    ELSE /\ reg # None /\ reg.owner # None
         /\ c.phase = "grant_saved"
         /\ Valid(c.slot)
         /\ vault[c.slot].attempt = c.attempt

Register(w) ==
    /\ pc[w] = "idle" /\ LockFree
    /\ reg # None => reg.device = None
    /\ LET c == Restored(auth[w])
       IN  /\ MayRegister(c)
           /\ auth' = [auth EXCEPT ![w] = c]
           /\ held' = [held EXCEPT ![w] = vault[c.slot]]
    /\ pc' = [pc EXCEPT ![w] = "account"]
    /\ UNCHANGED <<original, vault, reg, slots, used, lapsed, code, wire, registry>>

Give(w) ==
    /\ pc' = [pc EXCEPT ![w] = "idle"]
    /\ held' = [held EXCEPT ![w] = None]

\* The account of the token: looked up when an account endpoint is configured.
Owner(w) == IF Binds THEN held[w].account ELSE None

\* Mutant: a recovery grant of any account continues the saved registration.
AnyOwner(w) == TRUE

SameOwner(w) == reg # None => reg.owner = Owner(w)

\* The row, with its enrollment id, is committed before the request is sent.
Dispatch(w) ==
    /\ pc[w] = "account" /\ SameOwner(w)
    /\ \/ /\ reg = None /\ used.ids < MaxIds
          /\ used' = [used EXCEPT !.ids = @ + 1]
          /\ reg' = [attempt |-> held[w].attempt, id |-> used'.ids,
                     owner |-> Owner(w), device |-> None]
       \/ reg # None /\ UNCHANGED <<used, reg>>
    /\ wire' = wire \cup {<<held[w].account, reg'.id>>}
    /\ pc' = [pc EXCEPT ![w] = "confirm"]
    /\ UNCHANGED <<auth, original, held, vault, slots, lapsed, code, registry>>

\* The account could not be looked up, or is another one: nothing is sent.
Undispatched(w) ==
    /\ pc[w] = "account"
    /\ Give(w)
    /\ UNCHANGED <<auth, original, vault, reg, slots, used, lapsed, code, wire, registry>>

\* The relay's answer arrives and is saved, or none does and the row stays.
Confirm(w) ==
    /\ pc[w] = "confirm"
    /\ \/ LET d == <<held[w].account, reg.id>>
          IN  /\ registry[d] # "none"
              /\ reg' = [reg EXCEPT !.device = [account |-> d[1], state |-> registry[d]]]
       \/ UNCHANGED reg
    /\ Give(w)
    /\ UNCHANGED <<auth, original, vault, slots, used, lapsed, code, wire, registry>>

Cleanup(w) ==
    /\ pc[w] = "idle" /\ LockFree
    /\ reg # None /\ reg.device # None
    /\ pc' = [pc EXCEPT ![w] = "cleanup"]
    /\ UNCHANGED <<auth, original, held, vault, reg, slots, used, lapsed, code, wire,
                   registry>>

\* forget() of the next recorded slot, and then its row.
Forget(w) ==
    /\ pc[w] = "cleanup" /\ slots # <<>>
    /\ vault' = [vault EXCEPT ![Head(slots)] = None]
    /\ pc' = [pc EXCEPT ![w] = "unrecord"]
    /\ UNCHANGED <<auth, original, held, reg, slots, used, lapsed, code, wire, registry>>

Unrecord(w) ==
    /\ pc[w] = "unrecord"
    /\ slots' = Tail(slots)
    /\ pc' = [pc EXCEPT ![w] = "cleanup"]
    /\ UNCHANGED <<auth, original, held, vault, reg, used, lapsed, code, wire, registry>>

\* Every slot is gone and the worker returns to its first client; or one could
\* not be forgotten, and the rest is kept for a later cleanup.
CleanupEnds(w) ==
    /\ pc[w] = "cleanup"
    /\ pc' = [pc EXCEPT ![w] = "idle"]
    /\ \/ /\ slots = <<>>
          /\ auth' = [auth EXCEPT ![w] =
                         IF original[w] = None THEN Cancelled(@) ELSE original[w]]
          /\ original' = [original EXCEPT ![w] = None]
       \/ slots # <<>> /\ UNCHANGED <<auth, original>>
    /\ UNCHANGED <<held, vault, reg, slots, used, lapsed, code, wire, registry>>

\* The worker ends, by a kill or at the end of its input; the next one selects
\* the slot recorded last.
Crash(w) ==
    /\ pc' = [pc EXCEPT ![w] = "idle"]
    /\ held' = [held EXCEPT ![w] = None]
    /\ auth' = [auth EXCEPT ![w] = Client(Latest)]
    /\ original' = [original EXCEPT ![w] = IF Latest = Main THEN None ELSE Client(Main)]
    /\ UNCHANGED <<vault, reg, slots, used, lapsed, code, wire, registry>>

-----------------------------------------------------------------------------
(* The provider, the relay and the clock.                                  *)

Decide(a) ==
    /\ code[a] = "pending" /\ a <= used.attempts
    /\ \E d \in Accounts \cup {"denied", "expired"} : code' = [code EXCEPT ![a] = d]
    /\ UNCHANGED <<auth, original, pc, held, vault, reg, slots, used, lapsed, wire, registry>>

Lapse(a) ==
    /\ code[a] = "redeemed" /\ a \notin lapsed
    /\ lapsed' = lapsed \cup {a}
    /\ UNCHANGED <<auth, original, pc, held, vault, reg, slots, used, code, wire, registry>>

\* register() of the registry: a known enrollment id returns its record.
RelayRegisters(d) ==
    /\ d \in wire /\ registry[d] = "none"
    /\ registry' = [registry EXCEPT ![d] = "registered"]
    /\ UNCHANGED <<auth, original, pc, held, vault, reg, slots, used, lapsed, code, wire>>

Revoke(d) ==
    /\ registry[d] = "registered"
    /\ registry' = [registry EXCEPT ![d] = "revoked"]
    /\ UNCHANGED <<auth, original, pc, held, vault, reg, slots, used, lapsed, code, wire>>

WorkerStep(w) ==
    \/ Start(w) \/ StartReply(w) \/ Poll(w) \/ PollReply(w) \/ RetrySave(w)
    \/ Cancel(w) \/ Progress(w) \/ Restart(w) \/ Reauthorize(w)
    \/ Register(w) \/ Dispatch(w) \/ Undispatched(w) \/ Confirm(w)
    \/ Cleanup(w) \/ Forget(w) \/ Unrecord(w) \/ CleanupEnds(w) \/ Crash(w)

Next ==
    \/ \E w \in Workers : WorkerStep(w)
    \/ \E a \in Attempts : Decide(a) \/ Lapse(a)
    \/ \E d \in Devices : RelayRegisters(d) \/ Revoke(d)

Spec == Init /\ [][Next]_vars

-----------------------------------------------------------------------------
(* Properties.                                                             *)

ClientType == [slot : Slots, phase : Phases, attempt : 0 .. MaxAttempts,
               pending : Grants \cup {None}]

\* Every variable has its type: clients, vault, row and registry are the records
\* the modules above keep.
TypeOK ==
    /\ auth \in [Workers -> ClientType]
    /\ original \in [Workers -> ClientType \cup {None}]
    /\ pc \in [Workers -> {"idle", "start", "poll", "account", "confirm", "cleanup",
                           "unrecord"}]
    /\ held \in [Workers -> Grants \cup {None}]
    /\ vault \in [Slots -> Grants \cup {None}]
    /\ reg = None \/ reg \in [attempt : Attempts, id : Ids, owner : Accounts \cup {None},
                 device : [account : Accounts, state : {"registered", "revoked"}] \cup {None}]
    /\ slots \in Seq(Slots \ {Main})
    /\ used \in [attempts : 0 .. MaxAttempts, slots : 0 .. MaxSlots, ids : 0 .. MaxIds]
    /\ lapsed \subseteq Attempts
    /\ code \in [Attempts -> Accounts \cup {"pending", "denied", "expired", "redeemed"}]
    /\ wire \subseteq Devices
    /\ registry \in [Devices -> {"none", "registered", "revoked"}]

\* Replies lost after the relay acted, killed workers, retries by another worker
\* and recovery with a fresh grant never make a second device of this computer
\* (the request is saved before it is sent and bound to one account:
\* registration_client.py register, recover, _confirm).
OneDevice ==
    \A d, e \in Devices :
        registry[d] # "none" /\ registry[e] # "none" => d = e

\* A saved grant is never overwritten; it is deleted only from a recovery slot
\* that is still recorded, and only after the device's receipt was saved
\* (enrollment_credentials.py save, registration_client.py
\* cleanup_reauthorizations).
GrantKept ==
    [][\A s \in Slots : vault[s] # None /\ vault'[s] # vault[s] =>
          /\ vault'[s] = None
          /\ \E i \in DOMAIN slots : slots[i] = s
          /\ reg # None /\ reg.device # None]_vars

\* What the saved row stands on stays: whatever workers were killed, overlapped or
\* recovered with other grants, the grant that the row was made with is the one in the
\* first slot, where the next worker takes the registration up again, and it is of the
\* row's account (enrollment_worker.py _register, registration_client.py _confirm).
Resumable ==
    reg # None => /\ vault[Main] # None /\ vault[Main].attempt = reg.attempt
                  /\ Binds => vault[Main].account = reg.owner

\* A grant reaches the vault only through the attempt it was issued to, and not
\* once that attempt was cancelled, whenever its answer arrives
\* (device_authorization.py: "it cannot publish local credentials afterward").
SavedByItsAttempt ==
    [][\A s \in Slots : vault'[s] # vault[s] /\ vault'[s] # None =>
          \E w \in Workers : /\ auth[w].slot = s
                             /\ auth[w].attempt = vault'[s].attempt
                             /\ auth[w].phase \in {"requesting", "credential_error"}]_vars

=============================================================================
