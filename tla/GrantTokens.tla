----------------------------- MODULE GrantTokens -----------------------------
(***************************************************************************)
(* The credentials of one approved connection, on both sides: the grants,  *)
(* codes and refresh tokens of AuthorizationStore (authorization.py), and  *)
(* the keyring item of ClientTokens (client_tokens.py) that the client's   *)
(* processes share, with native_login.login and HTTPBackend._post as its   *)
(* users.                                                                  *)
(*                                                                         *)
(* The credentials of grant g are numbered: <<g, 0>> is its authorization  *)
(* code and <<g, n>> the n-th pair of access and refresh token.  A request *)
(* to the token endpoint is carried out at most once, possibly after its   *)
(* sender gave up, or never; its reply may be lost.                        *)
(***************************************************************************)
EXTENDS Naturals, FiniteSets

CONSTANTS Grant,    \* grants of one owner, device and client
          Legacy,   \* the grants an older release issued with a deadline
          Process,  \* client processes of one connection profile
          MaxPair,  \* bound on the token pairs of one grant
          Nobody,   \* no process
          Nothing,  \* no credential, no reply
          Refused   \* an error reply of the token endpoint

Code(g) == <<g, 0>>
Credential == Grant \X (0..MaxPair)
Pair       == Grant \X (1..MaxPair)

ASSUME GrantAssumption ==
    /\ Legacy \subseteq Grant /\ MaxPair \in Nat \ {0}
    /\ Nobody \notin Process
    /\ Nothing \notin Credential /\ Refused \notin Credential
    /\ Nothing # Refused

VARIABLES
    enabled,   \* authorized_devices.active
    status,    \* grants.revoked, "none" before the approval
    term,      \* grants.expires, and refresh_tokens.expires with it
    issued,    \* number of pairs issued under a grant
    redeemed,  \* codes.consumed and refresh_tokens.consumed
    late,      \* codes and access tokens that are past their lifetime
    ended,     \* history: grants the owner revoked
    vault,     \* the OS keyring item
    lock,      \* holder of the keyring item's ProcessLock
    proc,      \* what a client process is doing
    wire,      \* requests under way to the token endpoint
    sent       \* history: how often a credential was sent to be redeemed

server == <<enabled, status, term, issued, redeemed, late, ended>>
client == <<vault, lock, proc, wire, sent>>
vars == <<enabled, status, term, issued, redeemed, late, ended, vault, lock,
          proc, wire, sent>>

\* "idle"; login: "approved" (holds a code), "exchanging", "installing";
\* use: "asking" (in access_token), "saved" (intent saved), "renewing",
\* "using" (has a token; "second" after one rejection)
Phase == {"idle", "approved", "exchanging", "installing", "asking", "saved",
          "renewing", "using"}
Idle  == [phase |-> "idle", cred |-> Nothing, reply |-> Nothing, second |-> FALSE]
Empty == [phase |-> "none", cred |-> Nothing]

TypeOK ==
    /\ enabled \in BOOLEAN
    /\ status \in [Grant -> {"none", "live", "revoked"}]
    /\ term \in [Grant -> {"unlimited", "running", "over"}]
    /\ issued \in [Grant -> 0..MaxPair]
    /\ redeemed \subseteq Credential
    /\ late \subseteq Credential
    /\ ended \subseteq Grant
    /\ vault \in {Empty} \cup [phase : {"ready", "refresh_pending"}, cred : Pair]
    /\ lock \in Process \cup {Nobody}
    /\ proc \in [Process -> [phase : Phase, cred : Credential \cup {Nothing},
                             reply : Pair \cup {Nothing, Refused},
                             second : BOOLEAN]]
    /\ wire \subseteq Process \X Credential
    /\ sent \in [Credential -> Nat]

Init ==
    /\ enabled \in BOOLEAN
    /\ status = [g \in Grant |-> IF g \in Legacy THEN "live" ELSE "none"]
    /\ term = [g \in Grant |-> IF g \in Legacy THEN "running" ELSE "unlimited"]
    /\ issued = [g \in Grant |-> IF g \in Legacy THEN 1 ELSE 0]
    /\ redeemed = {Code(g) : g \in Legacy}
    /\ late = {}
    /\ ended = {}
    /\ vault \in {Empty} \cup {[phase |-> "ready", cred |-> <<g, 1>>] : g \in Legacy}
    /\ lock = Nobody
    /\ proc = [p \in Process |-> Idle]
    /\ wire = {}
    /\ sent = [c \in Credential |->
                  IF c[2] = 0 /\ c[1] \in Legacy THEN 1 ELSE 0]

\* _grant: the grant is usable now
Usable(g) == status[g] = "live" /\ term[g] # "over" /\ enabled
\* verify
Accepts(c) == c \notin late /\ Usable(c[1])

Known(c) == c[2] <= issued[c[1]] /\ status[c[1]] # "none"

(***************************************************************************)
(* The owner's administration, and time.                                   *)
(***************************************************************************)
\* approve: the code reaches the process that is logging in
Approve(p, g) ==
    /\ proc[p].phase = "idle"
    /\ status[g] = "none" /\ enabled
    /\ status' = [status EXCEPT ![g] = "live"]
    /\ proc' = [proc EXCEPT ![p] = [Idle EXCEPT !.phase = "approved", !.cred = Code(g)]]
    /\ UNCHANGED <<enabled, term, issued, redeemed, late, ended, vault, lock, wire, sent>>

\* grants of the device that exist when all of them are revoked
Existing == {g \in Grant : status[g] # "none"}
RevokeAll ==
    /\ status' = [g \in Grant |-> IF g \in Existing THEN "revoked" ELSE status[g]]
    /\ ended' = ended \cup Existing

RevokeGrant(g) ==
    /\ status[g] # "none"
    /\ status' = [status EXCEPT ![g] = "revoked"]
    /\ ended' = ended \cup {g}
    /\ UNCHANGED <<enabled, term, issued, redeemed, late, client>>

\* revoke_device, and begin_owner_reset as far as grants are concerned
RevokeDevice ==
    /\ enabled' = FALSE
    /\ RevokeAll
    /\ UNCHANGED <<term, issued, redeemed, late, client>>

EnableDevice ==
    /\ ~enabled
    /\ enabled' = TRUE
    /\ RevokeAll
    /\ UNCHANGED <<term, issued, redeemed, late, client>>

\* Mutant: retain_active_grants forgets that a deadline has passed.
RetainedAll == {g \in Grant : term[g] # "unlimited" /\ status[g] = "live"}
\* retain_active_grants: the deadline of what is still valid is removed
Retained == {g \in Grant : term[g] = "running" /\ Usable(g)}
RetainGrants ==
    /\ enabled
    /\ term' = [g \in Grant |-> IF g \in Retained THEN "unlimited" ELSE term[g]]
    /\ UNCHANGED <<enabled, status, issued, redeemed, late, ended, client>>

TermOver(g) ==
    /\ term[g] = "running"
    /\ term' = [term EXCEPT ![g] = "over"]
    /\ UNCHANGED <<enabled, status, issued, redeemed, late, ended, client>>

\* 120 s of a code, at most 900 s of an access token
Lapse(c) ==
    /\ Known(c) /\ c \notin late
    /\ c[2] = 0 => c \notin redeemed   \* a redeemed code is not looked at again
    /\ late' = late \cup {c}
    /\ UNCHANGED <<enabled, status, term, issued, redeemed, ended, client>>

(***************************************************************************)
(* The token endpoint: exchange_code and refresh.  A credential that was   *)
(* already redeemed ends the whole grant, and that is committed although   *)
(* the answer is an error.                                                 *)
(***************************************************************************)
Replayed(c) == c \in redeemed

\* a refresh token lives as long as its grant, a code 120 s
Redeemable(c) == ~Replayed(c) /\ Usable(c[1]) /\ (c[2] = 0 => c \notin late)

Waiting(p, c) == proc[p].phase \in {"exchanging", "renewing"} /\ proc[p].cred = c
\* the reply reaches the process only while it waits for it
Answer(p, c, r) ==
    proc' = IF Waiting(p, c) THEN [proc EXCEPT ![p].reply = r] ELSE proc

IssueTokens(g) == issued' = [issued EXCEPT ![g] = @ + 1]

\* a replay answers like any other invalid_grant, and ends the grant
ServeRefused(p, c) ==
    /\ <<p, c>> \in wire /\ ~Redeemable(c)
    /\ wire' = wire \ {<<p, c>>}
    /\ status' = IF Replayed(c) THEN [status EXCEPT ![c[1]] = "revoked"] ELSE status
    /\ Answer(p, c, Refused)
    /\ UNCHANGED <<enabled, term, issued, redeemed, late, ended, vault, lock, sent>>

ServeRedeem(p, c) ==
    /\ <<p, c>> \in wire /\ Redeemable(c)
    /\ issued[c[1]] < MaxPair
    /\ wire' = wire \ {<<p, c>>}
    /\ redeemed' = redeemed \cup {c}
    /\ IssueTokens(c[1])
    /\ Answer(p, c, <<c[1], issued[c[1]] + 1>>)
    /\ UNCHANGED <<enabled, status, term, late, ended, vault, lock, sent>>

\* the request never arrives
Lose(p, c) ==
    /\ <<p, c>> \in wire
    /\ wire' = wire \ {<<p, c>>}
    /\ UNCHANGED <<server, vault, lock, proc, sent>>

(***************************************************************************)
(* native_login.login: one exchange, then install under the lock.          *)
(***************************************************************************)
Post(p, c) ==
    /\ wire' = wire \cup {<<p, c>>}
    /\ sent' = [sent EXCEPT ![c] = @ + 1]

ExchangeCode(p) ==
    /\ proc[p].phase = "approved"
    /\ Post(p, proc[p].cred)
    /\ proc' = [proc EXCEPT ![p].phase = "exchanging"]
    /\ UNCHANGED <<server, vault, lock>>

LoginReply(p) ==
    /\ proc[p].phase = "exchanging" /\ proc[p].reply # Nothing
    /\ proc' = [proc EXCEPT ![p] =
                  IF proc[p].reply = Refused THEN Idle
                  ELSE [Idle EXCEPT !.phase = "installing", !.cred = proc[p].reply]]
    /\ UNCHANGED <<server, vault, lock, wire, sent>>

\* install: the backend may fail before or after it saved the item
Install(p) ==
    /\ proc[p].phase = "installing" /\ lock = Nobody
    /\ vault' \in {vault, [phase |-> "ready", cred |-> proc[p].cred]}
    /\ proc' = [proc EXCEPT ![p] = Idle]
    /\ UNCHANGED <<server, lock, wire, sent>>

(***************************************************************************)
(* access_token and its caller HTTPBackend._post.                          *)
(***************************************************************************)
NewRequest(p) ==
    /\ proc[p].phase = "idle"
    /\ proc' = [proc EXCEPT ![p] = [Idle EXCEPT !.phase = "asking"]]
    /\ UNCHANGED <<server, vault, lock, wire, sent>>

\* nothing saved, or a renewal was not confirmed
AskRefused(p) ==
    /\ proc[p].phase = "asking" /\ lock = Nobody
    /\ vault.phase # "ready"
    /\ proc' = [proc EXCEPT ![p] = Idle]
    /\ UNCHANGED <<server, vault, lock, wire, sent>>

AskCurrent(p) ==
    /\ proc[p].phase = "asking" /\ lock = Nobody
    /\ vault.phase = "ready"
    /\ vault.cred # proc[p].cred          \* not the rejected_token
    /\ proc' = [proc EXCEPT ![p].phase = "using", ![p].cred = vault.cred]
    /\ UNCHANGED <<server, vault, lock, wire, sent>>

\* Mutant: access_token sends without having saved its intent.
PendingUnsaved(v) == v
Pending(v) == [v EXCEPT !.phase = "refresh_pending"]

\* the token was rejected, or the client's clock says that it is due
SaveIntent(p) ==
    /\ proc[p].phase = "asking" /\ lock = Nobody
    /\ vault.phase = "ready"
    /\ vault' = Pending(vault)
    /\ lock' = p
    /\ proc' = [proc EXCEPT ![p].phase = "saved", ![p].cred = vault.cred]
    /\ UNCHANGED <<server, wire, sent>>

SaveIntentFails(p) ==
    /\ proc[p].phase = "asking" /\ lock = Nobody
    /\ vault.phase = "ready"
    /\ vault' \in {vault, Pending(vault)}
    /\ proc' = [proc EXCEPT ![p] = Idle]
    /\ UNCHANGED <<server, lock, wire, sent>>

SendRenewal(p) ==
    /\ proc[p].phase = "saved"
    /\ Post(p, proc[p].cred)
    /\ proc' = [proc EXCEPT ![p].phase = "renewing"]
    /\ UNCHANGED <<server, vault, lock>>

Renewed(p) ==
    /\ proc[p].phase = "renewing" /\ proc[p].reply \in Pair
    /\ vault' = [phase |-> "ready", cred |-> proc[p].reply]
    /\ lock' = Nobody
    /\ proc' = [proc EXCEPT ![p].phase = "using", ![p].cred = proc[p].reply,
                            ![p].reply = Nothing]
    /\ UNCHANGED <<server, wire, sent>>

\* the second save fails, before or after it took effect
RenewedUnsaved(p) ==
    /\ proc[p].phase = "renewing" /\ proc[p].reply \in Pair
    /\ vault' \in {vault, [phase |-> "ready", cred |-> proc[p].reply]}
    /\ lock' = Nobody
    /\ proc' = [proc EXCEPT ![p] = Idle]
    /\ UNCHANGED <<server, wire, sent>>

\* Mutant: an unconfirmed renewal is taken to have failed, the pair kept.
GiveUpKeeping(p) ==
    /\ proc[p].phase \in {"exchanging", "renewing"}
    /\ vault' = IF lock = p THEN [vault EXCEPT !.phase = "ready"] ELSE vault
    /\ lock' = IF lock = p THEN Nobody ELSE lock
    /\ proc' = [proc EXCEPT ![p] = Idle]
    /\ UNCHANGED <<server, wire, sent>>
\* no reply in time, a lost or an invalid reply
GiveUp(p) ==
    /\ proc[p].phase \in {"exchanging", "renewing"}
    /\ lock' = IF lock = p THEN Nobody ELSE lock
    /\ proc' = [proc EXCEPT ![p] = Idle]
    /\ UNCHANGED <<server, vault, wire, sent>>

RequestServed(p) ==
    /\ proc[p].phase = "using" /\ Accepts(proc[p].cred)
    /\ proc' = [proc EXCEPT ![p] = Idle]
    /\ UNCHANGED <<server, vault, lock, wire, sent>>

\* HTTP 401: one renewal, then the connection needs authorization; a tool call
\* without the marker of a rejection before dispatch is not sent again
RequestRejected(p) ==
    /\ proc[p].phase = "using" /\ ~Accepts(proc[p].cred)
    /\ \E again \in BOOLEAN :
          proc' = [proc EXCEPT ![p] =
                     IF again /\ ~proc[p].second
                     THEN [proc[p] EXCEPT !.phase = "asking", !.second = TRUE]
                     ELSE Idle]
    /\ UNCHANGED <<server, vault, lock, wire, sent>>

\* the lock stays busy for 30 s
LockBusy(p) ==
    /\ proc[p].phase \in {"asking", "installing"} /\ lock # Nobody
    /\ proc' = [proc EXCEPT ![p] = Idle]
    /\ UNCHANGED <<server, vault, lock, wire, sent>>

Forget(p) ==
    /\ proc[p].phase = "idle" /\ lock = Nobody
    /\ vault.phase # "none"
    /\ vault' = Empty
    /\ UNCHANGED <<server, lock, proc, wire, sent>>

\* the system releases the locks of a process that dies
Crash(p) ==
    /\ proc[p].phase # "idle"
    /\ lock' = IF lock = p THEN Nobody ELSE lock
    /\ proc' = [proc EXCEPT ![p] = Idle]
    /\ UNCHANGED <<server, vault, wire, sent>>

Owner ==
    \/ RevokeDevice
    \/ EnableDevice
    \/ RetainGrants
    \/ \E g \in Grant : RevokeGrant(g) \/ TermOver(g)
    \/ \E c \in Credential : Lapse(c)

Endpoint(p, c) ==
    \/ ServeRefused(p, c)
    \/ ServeRedeem(p, c)
    \/ Lose(p, c)

Client(p) ==
    \/ \E g \in Grant : Approve(p, g)
    \/ ExchangeCode(p)
    \/ LoginReply(p)
    \/ Install(p)
    \/ NewRequest(p)
    \/ AskRefused(p)
    \/ AskCurrent(p)
    \/ SaveIntent(p)
    \/ SaveIntentFails(p)
    \/ SendRenewal(p)
    \/ Renewed(p)
    \/ RenewedUnsaved(p)
    \/ GiveUp(p)
    \/ RequestServed(p)
    \/ RequestRejected(p)
    \/ LockBusy(p)
    \/ Forget(p)
    \/ Crash(p)

Next ==
    \/ Owner
    \/ \E p \in Process : Client(p)
    \/ \E p \in Process, c \in Credential : Endpoint(p, c)

Spec == Init /\ [][Next]_vars

(***************************************************************************)
(* Properties.                                                             *)
(***************************************************************************)
\* A code or refresh token leaves the client at most once, whatever crashes,
\* lost replies, failing keyrings and other processes do (access_token saves
\* its intent before it sends; login exchanges once).
SentOnce == \A c \in Credential : sent[c] <= 1

\* The client never makes the server end its own grant by a replay: a grant
\* is revoked only if the owner revoked it.
NoSelfRevocation == \A g \in Grant : status[g] = "revoked" => g \in ended

\* A keyring item that says "ready" can still be renewed as far as the
\* exchange of tokens goes: it is the newest pair of its grant, and the
\* server has not redeemed it.
ReadyIsRenewable ==
    vault.phase = "ready" =>
        /\ vault.cred \notin redeemed
        /\ vault.cred[2] = issued[vault.cred[1]]

\* What revocation, a disabled device or a passed deadline ended stays ended:
\* neither enable_device nor retain_active_grants nor a refresh revives it.
NoRevival ==
    [][\A g \in Grant :
          status[g] # "none" /\ ~Usable(g) => ~Usable(g)']_vars
==============================================================================
