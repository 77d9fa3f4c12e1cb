---------------------------- MODULE OwnerConsent -----------------------------
(***************************************************************************)
(* The owner's consent and the owner's means to give it: the consent pages *)
(* of the HTTP service (browser_authorization.py), the password verifier   *)
(* (owner_credentials.py), the passkeys and their enrollment tickets       *)
(* (owner_passkeys.py), the device row of AuthorizationStore with its      *)
(* generation and reset gate (authorization.py), and the offline owner     *)
(* reset (http_service.py).                                                *)
(*                                                                         *)
(* The verifier is a version number that grows with every new password.    *)
(* Each section under owner-reset.lock or the lock of the passkeys is one  *)
(* step, except the reset, which can stop between any two of its steps.    *)
(* GrantTokens has what happens to a grant after its approval.             *)
(***************************************************************************)
EXTENDS Naturals, FiniteSets

CONSTANTS Consent,       \* consent pages (request identities)
          Request,          \* concurrent POSTs to /authorize
          Key,           \* passkeys
          Ticket,        \* enrollment tickets
          MaxGeneration, \* bound on revocations, enablings and resets
          MaxVersion,    \* bound on passwords
          Password,      \* no passkey: the proof is the password
          NoTicket,      \* there is no ticket file
          NoPage         \* a handler that is not running

ASSUME ConsentAssumption ==
    /\ MaxGeneration \in Nat /\ MaxVersion \in Nat \ {0}
    /\ Password \notin Key /\ NoTicket \notin Ticket /\ NoPage \notin Consent

VARIABLES
    serving,    \* http-server.lock is held by a running service
    active,     \* authorized_devices.active
    pending,    \* authorized_devices.reset_pending
    generation, \* authorized_devices.generation
    page,       \* the service's pending consents
    pageGen,    \* PendingConsent.generation
    post,       \* handlers of the service
    grants,     \* history: number of grants a consent has led to
    live,       \* consents whose grant is not revoked
    proof,      \* history: the verifier version behind a consent's grant
    denied,     \* history: consents the owner denied
    verifier,   \* version of the installed owner verifier
    lost,       \* history: the version at the last begin of an owner reset
    enrolled,   \* enrolled passkeys: the version their ticket was issued under
    file,       \* the ticket file
    bound,      \* verifier_digest of a ticket, 0 before it is issued
    spent,      \* redeemed_tickets of the passkey record
    uses,       \* history: number of keys enrolled with a ticket
    reset       \* progress of reset_http_owner_password

device == <<active, pending, generation>>
pages  == <<page, pageGen, post>>
given  == <<grants, live, proof, denied>>
means  == <<verifier, lost, enrolled, file, bound, spent, uses>>
consentVars == <<serving, active, pending, generation, page, pageGen, post, grants, live,
          proof, denied, verifier, lost, enrolled, file, bound, spent, uses, reset>>

Version == 1..MaxVersion
\* with: the passkey or the password; claim: the password's version; proof:
\* the version that verification has established
Handler == [phase : {"idle", "verifying", "verified"}, page : Consent \cup {NoPage},
            with : Key \cup {Password}, claim : 0..MaxVersion, proof : 0..MaxVersion]
NoHandler == [phase |-> "idle", page |-> NoPage, with |-> Password,
              claim |-> 0, proof |-> 0]

ConsentTypeOK ==
    /\ serving \in BOOLEAN /\ active \in BOOLEAN /\ pending \in BOOLEAN
    /\ generation \in Nat
    /\ page \in [Consent -> {"none", "pending", "over"}]
    /\ pageGen \in [Consent -> Nat]
    /\ post \in [Request -> Handler]
    /\ grants \in [Consent -> Nat]
    /\ live \subseteq Consent
    /\ proof \in [Consent -> 0..MaxVersion]
    /\ denied \subseteq Consent
    /\ verifier \in Version
    /\ lost \in 0..MaxVersion
    /\ enrolled \in [Key -> 0..MaxVersion]
    /\ file \in Ticket \cup {NoTicket}
    /\ bound \in [Ticket -> 0..MaxVersion]
    /\ spent \subseteq Ticket
    /\ uses \in [Ticket -> Nat]
    /\ reset \in {"none", "begun", "installed", "cleared"}
    \* what is in memory exists only while the service has its lock
    /\ \A c \in Consent : page[c] = "pending" => serving
    /\ \A i \in Request : post[i].phase # "idle" => serving /\ post[i].page # NoPage

ConsentInit ==
    /\ serving = FALSE /\ active = TRUE /\ pending = FALSE
    /\ generation = 0
    /\ page = [c \in Consent |-> "none"]
    /\ pageGen = [c \in Consent |-> 0]
    /\ post = [i \in Request |-> NoHandler]
    /\ grants = [c \in Consent |-> 0]
    /\ live = {}
    /\ proof = [c \in Consent |-> 0]
    /\ denied = {}
    /\ verifier = 1 /\ lost = 0
    /\ enrolled = [k \in Key |-> 0]
    /\ file = NoTicket
    /\ bound = [t \in Ticket |-> 0]
    /\ spent = {}
    /\ uses = [t \in Ticket |-> 0]
    /\ reset = "none"

(***************************************************************************)
(* The service.  Its pages and handlers are in memory only.                *)
(***************************************************************************)
StartService ==
    /\ ~serving /\ reset = "none"
    /\ serving' = TRUE
    /\ UNCHANGED <<device, pages, given, means, reset>>

\* also the death of the service
StopService ==
    /\ serving
    /\ serving' = FALSE
    /\ page' = [c \in Consent |-> IF page[c] = "pending" THEN "over" ELSE page[c]]
    /\ post' = [i \in Request |-> NoHandler]
    /\ UNCHANGED <<device, pageGen, given, means, reset>>

\* _begin with validate_consent
Begin(c) ==
    /\ serving /\ page[c] = "none"
    /\ active
    /\ page' = [page EXCEPT ![c] = "pending"]
    /\ pageGen' = [pageGen EXCEPT ![c] = generation]
    /\ UNCHANGED <<serving, device, post, given, means, reset>>

\* five minutes
PageOver(c) ==
    /\ page[c] = "pending"
    /\ page' = [page EXCEPT ![c] = "over"]
    /\ UNCHANGED <<serving, device, pageGen, post, given, means, reset>>

\* _decide up to its await: the record is there
PostPassword(i, c, v) ==
    /\ serving /\ post[i].phase = "idle" /\ page[c] = "pending"
    /\ v <= verifier
    /\ post' = [post EXCEPT ![i] = [NoHandler EXCEPT !.phase = "verifying",
                                    !.page = c, !.claim = v]]
    /\ UNCHANGED <<serving, device, page, pageGen, given, means, reset>>

PostPasskey(i, c, k) ==
    /\ serving /\ post[i].phase = "idle" /\ page[c] = "pending"
    /\ post' = [post EXCEPT ![i] = [NoHandler EXCEPT !.phase = "verifying",
                                    !.page = c, !.with = k]]
    /\ UNCHANGED <<serving, device, page, pageGen, given, means, reset>>

\* what the worker thread finds: OwnerCredentials.verify, or
\* verify_and_update_counter for a passkey
Established(h) ==
    IF h.with = Password THEN IF h.claim = verifier THEN verifier ELSE 0
    ELSE enrolled[h.with]

\* otherwise the page is shown again
Verify(i) ==
    /\ post[i].phase = "verifying"
    /\ post' = [post EXCEPT ![i] =
                  IF Established(post[i]) = 0 THEN NoHandler
                  ELSE [post[i] EXCEPT !.phase = "verified",
                                       !.proof = Established(post[i])]]
    /\ UNCHANGED <<serving, device, page, pageGen, given, means, reset>>

\* Mutant: the record stays until its deadline.
Looked(c) == page' = [page EXCEPT ![c] = @]
Taken(c) == page' = [page EXCEPT ![c] = "over"]

Deny(c) ==
    /\ serving /\ page[c] = "pending"
    /\ Taken(c)
    /\ denied' = denied \cup {c}
    /\ UNCHANGED <<serving, device, pageGen, post, grants, live, proof, means, reset>>

\* Mutant: approve looks only at whether the device is active.
ApprovableIfActive(c) == active
\* validate_consent inside the transaction of approve
Approvable(c) == active /\ pageGen[c] = generation
\* Mutant: the passkey is not looked up again after its verification.
EnrolledThen(h) == h.phase = "verified"
\* authorization_guard
StillEnrolled(h) == h.with \in Key => enrolled[h.with] # 0

\* pending.pop was not this record
DecideLate(i) ==
    /\ post[i].phase = "verified" /\ page[post[i].page] # "pending"
    /\ post' = [post EXCEPT ![i] = NoHandler]
    /\ UNCHANGED <<serving, device, page, pageGen, given, means, reset>>

DecideApprove(i) ==
    LET c == post[i].page IN
    /\ post[i].phase = "verified" /\ page[c] = "pending"
    /\ StillEnrolled(post[i]) /\ Approvable(c)
    /\ Taken(c)
    /\ grants' = [grants EXCEPT ![c] = @ + 1]
    /\ live' = live \cup {c}
    /\ proof' = [proof EXCEPT ![c] = post[i].proof]
    /\ post' = [post EXCEPT ![i] = NoHandler]
    /\ UNCHANGED <<serving, device, pageGen, denied, means, reset>>

\* the record is taken, but the passkey is gone or its lock is busy, or the
\* device does not accept the consent any more
DecideFails(i) ==
    LET c == post[i].page IN
    /\ post[i].phase = "verified" /\ page[c] = "pending"
    /\ \/ ~StillEnrolled(post[i]) \/ ~Approvable(c)
       \/ post[i].with # Password
    /\ Taken(c)
    /\ post' = [post EXCEPT ![i] = NoHandler]
    /\ UNCHANGED <<serving, device, pageGen, given, means, reset>>

(***************************************************************************)
(* Enrollment of passkeys: register_with_ticket in the service.  The       *)
(* ticket's file is gone before the key is written; a file system that     *)
(* crashes may bring it back.                                              *)
(***************************************************************************)
TicketRedeemable(t) == file = t /\ bound[t] = verifier /\ t \notin spent
\* Mutant: only the removal of the file tells that a ticket was spent.
RedeemFileOnly(t) == spent' = spent
Redeem(t) == spent' = spent \cup {t}

Register(k, t) ==
    /\ serving /\ reset = "none"
    /\ TicketRedeemable(t) /\ enrolled[k] = 0
    /\ file' = NoTicket
    /\ Redeem(t)
    /\ enrolled' = [enrolled EXCEPT ![k] = bound[t]]
    /\ uses' = [uses EXCEPT ![t] = @ + 1]
    /\ UNCHANGED <<serving, device, pages, given, verifier, lost, bound, reset>>

\* the credential store does not take the key, or the service dies first
RegisterUnsaved(t) ==
    /\ serving /\ reset = "none"
    /\ TicketRedeemable(t)
    /\ file' = NoTicket
    /\ UNCHANGED <<serving, device, pages, given, verifier, lost, enrolled, bound,
                   spent, uses, reset>>

RestoreFile(t) ==
    /\ bound[t] # 0 /\ file # t
    /\ file' = t
    /\ UNCHANGED <<serving, device, pages, given, verifier, lost, enrolled, bound,
                   spent, uses, reset>>

(***************************************************************************)
(* Commands of the owner, who knows the current password.                  *)
(***************************************************************************)
IssueTicket(t) ==
    /\ reset = "none" /\ bound[t] = 0
    /\ bound' = [bound EXCEPT ![t] = verifier]
    /\ file' = t
    /\ UNCHANGED <<serving, device, pages, given, verifier, lost, enrolled,
                   spent, uses, reset>>

RemoveKey(k) ==
    /\ reset = "none" /\ enrolled[k] # 0
    /\ enrolled' = [enrolled EXCEPT ![k] = 0]
    /\ UNCHANGED <<serving, device, pages, given, verifier, lost, file, bound,
                   spent, uses, reset>>

\* change_password; grants are kept
ChangePassword ==
    /\ reset = "none" /\ verifier < MaxVersion
    /\ verifier' = verifier + 1
    /\ UNCHANGED <<serving, device, pages, given, lost, enrolled, file, bound,
                   spent, uses, reset>>

NextGeneration ==
    /\ generation < MaxGeneration
    /\ generation' = generation + 1

\* takes no lock
RevokeDevices ==
    /\ NextGeneration
    /\ active' = FALSE
    /\ live' = {}
    /\ UNCHANGED <<serving, pending, pages, grants, proof, denied, means, reset>>

EnableDevices ==
    /\ reset = "none"
    /\ ~pending /\ ~active
    /\ NextGeneration
    /\ active' = TRUE
    /\ live' = {}
    /\ UNCHANGED <<serving, pending, pages, grants, proof, denied, means, reset>>

(***************************************************************************)
(* reset_http_owner_password: begin_owner_reset, the new verifier, clear,  *)
(* complete_owner_reset, all under both locks.                             *)
(***************************************************************************)
ResetBegin ==
    /\ ~serving /\ reset = "none"
    /\ NextGeneration
    /\ active' = FALSE /\ pending' = TRUE
    /\ live' = {}
    /\ lost' = verifier
    /\ reset' = "begun"
    /\ UNCHANGED <<serving, pages, grants, proof, denied, verifier, enrolled, file,
                   bound, spent, uses>>

ResetInstall ==
    /\ reset = "begun" /\ verifier < MaxVersion
    /\ verifier' = verifier + 1
    /\ reset' = "installed"
    /\ UNCHANGED <<serving, device, pages, given, lost, enrolled, file, bound,
                   spent, uses>>

\* not saved, or saved and not confirmed
ResetInstallFails ==
    /\ reset = "begun" /\ verifier < MaxVersion
    /\ verifier' \in {verifier, verifier + 1}
    /\ reset' = "none"
    /\ UNCHANGED <<serving, device, pages, given, lost, enrolled, file, bound,
                   spent, uses>>

ResetClear ==
    /\ reset = "installed"
    /\ enrolled' = [k \in Key |-> 0]
    /\ spent' = {}
    /\ reset' = "cleared"
    /\ UNCHANGED <<serving, device, pages, given, verifier, lost, file, bound, uses>>

\* the ticket's file, then complete_owner_reset
ResetComplete ==
    /\ reset = "cleared"
    /\ ~active /\ pending
    /\ file' = NoTicket
    /\ pending' = FALSE
    /\ reset' = "none"
    /\ UNCHANGED <<serving, active, generation, pages, given, verifier, lost,
                   enrolled, bound, spent, uses>>

\* an error or the death of the command; the locks are released
ResetStops ==
    /\ reset # "none"
    /\ file' \in IF reset = "cleared" THEN {file, NoTicket} ELSE {file}
    /\ reset' = "none"
    /\ UNCHANGED <<serving, device, pages, given, verifier, lost, enrolled, bound,
                   spent, uses>>

Service ==
    \/ StartService \/ StopService
    \/ \E c \in Consent : Begin(c) \/ PageOver(c) \/ Deny(c)
    \/ \E i \in Request, c \in Consent :
          \/ \E v \in Version : PostPassword(i, c, v)
          \/ \E k \in Key : PostPasskey(i, c, k)
    \/ \E i \in Request : Verify(i) \/ DecideLate(i) \/ DecideApprove(i) \/ DecideFails(i)
    \/ \E t \in Ticket :
          \/ \E k \in Key : Register(k, t)
          \/ RegisterUnsaved(t) \/ RestoreFile(t)

Command ==
    \/ \E t \in Ticket : IssueTicket(t)
    \/ \E k \in Key : RemoveKey(k)
    \/ ChangePassword \/ RevokeDevices \/ EnableDevices
    \/ ResetBegin \/ ResetInstall \/ ResetInstallFails \/ ResetClear
    \/ ResetComplete \/ ResetStops

ConsentNext == Service \/ Command

ConsentSpec == ConsentInit /\ [][ConsentNext]_consentVars

(***************************************************************************)
(* Properties.                                                             *)
(***************************************************************************)
\* A grant that works was approved on a page shown since the device was last
\* revoked, enabled or reset, and with a password or passkey that the last
\* owner reset did not void (the generation re-check in approve).
LiveIsFresh ==
    \A c \in live : active /\ pageGen[c] = generation /\ proof[c] > lost

\* While the device accepts consent nothing remains of what an owner reset
\* was to void: neither the verifier nor a passkey enrolled under it, however
\* often the reset was interrupted (reset_pending, verifier-bound tickets).
EnabledIsClean ==
    active => /\ verifier > lost
              /\ \A k \in Key : enrolled[k] # 0 => enrolled[k] > lost

\* A consent leads to one grant at most, and to none once it was denied,
\* with any number of POSTs verified at the same time (_decide pops the record).
OneDecision ==
    \A c \in Consent : grants[c] <= 1 /\ (c \in denied => grants[c] = 0)

\* A ticket enrolls one passkey at most, even if its deleted file comes back.
TicketOnce == \A t \in Ticket : uses[t] <= 1

\* A passkey removed while its assertion was being verified approves nothing
\* (authorization_guard).
RemovedStaysOut ==
    [][\A c \in Consent : grants'[c] > grants[c] =>
          \E i \in Request : /\ post[i].phase = "verified" /\ post[i].page = c
                          /\ post[i].with \in Key => enrolled[post[i].with] # 0]_consentVars
==============================================================================
