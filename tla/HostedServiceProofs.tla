-------------------------- MODULE HostedServiceProofs -------------------------
(***************************************************************************)
(* Proofs about the hosted service and its clients.                        *)
(*                                                                         *)
(* GrantTokens, for every number of processes, grants and token pairs.  A  *)
(* credential that can still be sent has exactly one holder: the keyring   *)
(* item that says "ready", or one process.  From that follow SentOnce and, *)
(* with the bookkeeping of the server, the rest.                           *)
(*                                                                         *)
(* OwnerConsent, for every number of pages, handlers, passkeys and         *)
(* tickets.  The reset gate is the heart of the invariant: while           *)
(* reset_pending is false nothing of the voided means is left, and it      *)
(* changes only while no handler is running.                               *)
(*                                                                         *)
(* RemoteService, for every number of supervisors, services, runners and   *)
(* tokens.  Parent and child know each other until one of them is gone,    *)
(* and who looks at a lock is excluded by whoever holds it.                *)
(***************************************************************************)
EXTENDS MCAuthorization, TLAPS

\* nothing is left of what the last reset voided
Clean == verifier > lost /\ \A k \in Key : enrolled[k] # 0 => enrolled[k] > lost
Gate == lost <= verifier /\ (active => ~pending) /\ (~pending => Clean)

\* what a reset has done so far
ResetSteps ==
    /\ reset # "none" => ~serving /\ ~active /\ pending
    /\ reset \in {"installed", "cleared"} =>
          verifier > lost /\ \A t \in Ticket : bound[t] < verifier
    /\ reset = "cleared" => \A k \in Key : enrolled[k] = 0

\* a used ticket is remembered, or bound to an older password
TicketUse == \A t \in Ticket :
    /\ bound[t] <= verifier
    /\ uses[t] <= 1
    /\ uses[t] # 0 => bound[t] # 0 /\ (t \in spent \/ bound[t] < verifier)

Verified == \A i \in Request :
    post[i].phase = "verified" => pending \/ post[i].proof > lost

Decided == \A c \in Consent :
    /\ page[c] # "over" => grants[c] = 0 /\ c \notin denied /\ c \notin live
    /\ grants[c] <= 1
    /\ c \in denied => grants[c] = 0

IInv == ConsentTypeOK /\ Gate /\ ResetSteps /\ TicketUse /\ Verified /\ Decided /\ LiveIsFresh

\* What the proofs of types need to know of versions.
LEMMA Versions ==
  /\ 0 \in 0..MaxVersion /\ 1 \in Version
  /\ \A v \in Version : /\ v \in Nat /\ v # 0 /\ v \in 0..MaxVersion
                        /\ v < MaxVersion => v + 1 \in Version
  BY ConsentAssumption DEF Version

\* The state of a handler that is not running.
LEMMA NoHandlerIdle ==
  NoHandler \in Handler /\ NoHandler.phase = "idle"
  BY Versions DEF Handler, NoHandler

\* At the start the password is the first and nothing is enrolled.
LEMMA InitHolds == ConsentInit => IInv
<1> SUFFICES ASSUME ConsentInit PROVE IInv
  OBVIOUS
<1>1. ConsentTypeOK
  BY Versions, NoHandlerIdle DEF ConsentInit, ConsentTypeOK
<1>2. Gate /\ ResetSteps /\ TicketUse
  BY DEF ConsentInit, Gate, Clean, ResetSteps, TicketUse
<1>3. Verified /\ Decided /\ LiveIsFresh
  BY DEF ConsentInit, NoHandler, Verified, Decided, LiveIsFresh
<1>4. QED
  BY <1>1, <1>2, <1>3 DEF IInv

-----------------------------------------------------------------------------
(* Steps of the service. *)

\* The service starts and stops.
LEMMA StartStop == ASSUME IInv, StartService \/ StopService PROVE IInv'
<1> USE DEF IInv, device, pages, given, means
<1>1. ConsentTypeOK'
  <2>1. page' \in [Consent -> {"none", "pending", "over"}] /\ post' \in [Request -> Handler]
    BY NoHandlerIdle DEF ConsentTypeOK, StartService, StopService
  <2>2. /\ \A c \in Consent : page'[c] = "pending" => serving'
        /\ \A i \in Request : post'[i].phase # "idle" => serving' /\ post'[i].page # NoPage
    BY DEF ConsentTypeOK, NoHandler, StartService, StopService
  <2>3. QED
    BY <2>1, <2>2 DEF ConsentTypeOK, StartService, StopService
<1>2. Gate'
  BY DEF Gate, Clean, StartService, StopService
<1>3. ResetSteps'
  BY DEF ResetSteps, StartService, StopService
<1>4. TicketUse'
  BY DEF TicketUse, StartService, StopService
<1>5. Verified'
  BY DEF Verified, NoHandler, StartService, StopService
<1>6. Decided'
  BY DEF Decided, StartService, StopService, ConsentTypeOK
<1>7. LiveIsFresh'
  BY DEF LiveIsFresh, StartService, StopService
<1>8. QED
  BY <1>1, <1>2, <1>3, <1>4, <1>5, <1>6, <1>7

\* A page appears, expires or is denied.
LEMMA PageStep ==
  ASSUME IInv, NEW c \in Consent, Begin(c) \/ PageOver(c) \/ Deny(c)
  PROVE IInv'
<1> USE DEF IInv, device, pages, given, means, Begin, PageOver, Deny, Taken
<1>1. ConsentTypeOK'
  BY DEF ConsentTypeOK
<1>2. Gate' /\ ResetSteps' /\ TicketUse' /\ Verified'
  BY DEF Gate, Clean, ResetSteps, TicketUse, Verified
<1>3. Decided'
  BY DEF Decided, ConsentTypeOK
<1>4. LiveIsFresh'
  BY DEF LiveIsFresh, Decided, ConsentTypeOK
<1>5. QED
  BY <1>1, <1>2, <1>3, <1>4

\* h may be the state of a handler
Sound(h) == /\ h \in Handler
            /\ h.phase # "idle" => serving /\ h.page # NoPage
            /\ h.phase = "verified" => pending \/ h.proof > lost

\* A proof is posted or verified, or comes too late: only post changes.
LEMMA PostStep ==
  ASSUME IInv, NEW i \in Request,
         \/ \E c \in Consent :
               (\E v \in Version : PostPassword(i, c, v)) \/ (\E k \in Key : PostPasskey(i, c, k))
         \/ Verify(i) \/ DecideLate(i)
  PROVE IInv'
<1> USE DEF IInv, device, pages, given, means
<1>1. UNCHANGED <<serving, device, page, pageGen, given, means, reset>>
  BY DEF PostPassword, PostPasskey, Verify, DecideLate
<1>2. \E h : Sound(h) /\ post' = [post EXCEPT ![i] = h]
  <2>1. ASSUME NEW c \in Consent, NEW v \in Version, PostPassword(i, c, v)
        PROVE  \E h : Sound(h) /\ post' = [post EXCEPT ![i] = h]
    <3> DEFINE h == [NoHandler EXCEPT !.phase = "verifying", !.page = c, !.claim = v]
    <3>1. h \in Handler /\ h.phase = "verifying" /\ h.page = c
      BY Versions DEF Handler, NoHandler
    <3>2. Sound(h) /\ post' = [post EXCEPT ![i] = h]
      BY <2>1, <3>1, ConsentAssumption DEF Sound, PostPassword
    <3>3. QED
      BY <3>2
  <2>2. ASSUME NEW c \in Consent, NEW k \in Key, PostPasskey(i, c, k)
        PROVE  \E h : Sound(h) /\ post' = [post EXCEPT ![i] = h]
    <3> DEFINE h == [NoHandler EXCEPT !.phase = "verifying", !.page = c, !.with = k]
    <3>1. h \in Handler /\ h.phase = "verifying" /\ h.page = c
      BY Versions DEF Handler, NoHandler
    <3>2. Sound(h) /\ post' = [post EXCEPT ![i] = h]
      BY <2>2, <3>1, ConsentAssumption DEF Sound, PostPasskey
    <3>3. QED
      BY <3>2
  <2>3. ASSUME Verify(i), Established(post[i]) # 0
        PROVE  \E h : Sound(h) /\ post' = [post EXCEPT ![i] = h]
    <3> DEFINE e == Established(post[i])
               h == [post[i] EXCEPT !.phase = "verified", !.proof = e]
    <3>1. e \in 0..MaxVersion
      BY Versions DEF ConsentTypeOK, Established, Handler
    <3>2. pending \/ e > lost
      BY <2>3, Versions DEF ConsentTypeOK, Established, Handler, Gate, Clean
    <3>3. /\ h \in Handler /\ h.phase = "verified"
          /\ h.page = post[i].page /\ h.proof = e
      BY <3>1 DEF ConsentTypeOK, Handler
    <3>4. serving /\ post[i].page # NoPage
      BY <2>3 DEF ConsentTypeOK, Verify
    <3>5. Sound(h)
      BY <3>2, <3>3, <3>4 DEF Sound
    <3>6. post' = [post EXCEPT ![i] = h]
      BY <2>3 DEF Verify
    <3>7. QED
      BY <3>5, <3>6
  <2>4. ASSUME post' = [post EXCEPT ![i] = NoHandler]
        PROVE  \E h : Sound(h) /\ post' = [post EXCEPT ![i] = h]
    <3>1. NoHandler \in Handler /\ NoHandler.phase = "idle"
      BY NoHandlerIdle
    <3>2. Sound(NoHandler)
      BY <3>1 DEF Sound
    <3>3. QED
      BY <2>4, <3>2
  <2>5. QED
    BY <2>1, <2>2, <2>3, <2>4 DEF Verify, DecideLate
<1>3. ConsentTypeOK' /\ Verified'
  <2>1. PICK h : Sound(h) /\ post' = [post EXCEPT ![i] = h]
    BY <1>2
  <2>2. /\ post' \in [Request -> Handler] /\ post'[i] = h
        /\ \A j \in Request : j # i => post'[j] = post[j]
    BY <2>1 DEF ConsentTypeOK, Sound
  <2>3. \A j \in Request : Sound(post'[j])
    BY <2>1, <2>2 DEF ConsentTypeOK, Verified, Sound
  <2>4. QED
    BY <1>1, <2>2, <2>3 DEF ConsentTypeOK, Verified, Sound
<1>4. Gate' /\ ResetSteps' /\ TicketUse' /\ Decided' /\ LiveIsFresh'
  BY <1>1 DEF Gate, Clean, ResetSteps, TicketUse, Decided, LiveIsFresh
<1>5. QED
  BY <1>3, <1>4

\* A decision takes the page, and approves only what the gate lets through.
LEMMA DecisionStep ==
  ASSUME IInv, NEW i \in Request, DecideApprove(i) \/ DecideFails(i)
  PROVE IInv'
<1> DEFINE c == post[i].page
<1> USE ConsentAssumption DEF IInv, device, pages, given, means
<1>1. c \in Consent /\ post[i].phase = "verified" /\ page[c] = "pending"
  BY DEF ConsentTypeOK, Handler, DecideApprove, DecideFails
<1>2. ConsentTypeOK'
  <2>1. post[i].proof \in 0..MaxVersion
    BY DEF ConsentTypeOK, Handler
  <2>2. /\ post' \in [Request -> Handler] /\ post'[i] = NoHandler
        /\ \A j \in Request : j # i => post'[j] = post[j]
    BY NoHandlerIdle DEF ConsentTypeOK, DecideApprove, DecideFails
  <2>3. /\ grants' \in [Consent -> Nat] /\ live' \subseteq Consent
        /\ proof' \in [Consent -> 0..MaxVersion]
    BY <1>1, <2>1 DEF ConsentTypeOK, DecideApprove, DecideFails
  <2>4. /\ page' \in [Consent -> {"none", "pending", "over"}]
        /\ \A d \in Consent : page'[d] = "pending" => serving
    BY <1>1 DEF ConsentTypeOK, DecideApprove, DecideFails, Taken
  <2>5. \A j \in Request : post'[j].phase # "idle" => serving /\ post'[j].page # NoPage
    BY <2>2, NoHandlerIdle DEF ConsentTypeOK
  <2>6. UNCHANGED <<serving, device, pageGen, denied, means, reset>>
    BY DEF DecideApprove, DecideFails
  <2>7. QED
    BY <2>2, <2>3, <2>4, <2>5, <2>6 DEF ConsentTypeOK
<1>3. Gate' /\ ResetSteps' /\ TicketUse'
  BY DEF Gate, Clean, ResetSteps, TicketUse, DecideApprove, DecideFails
<1>4. Verified'
  BY DEF Verified, DecideApprove, DecideFails, NoHandler, ConsentTypeOK
<1>5. Decided'
  BY <1>1 DEF Decided, DecideApprove, DecideFails, Taken, ConsentTypeOK
<1>6. LiveIsFresh'
  <2>1. CASE DecideApprove(i)
    <3>1. active /\ pageGen[c] = generation /\ post[i].proof > lost
      BY <1>1, <2>1 DEF DecideApprove, Approvable, Gate, Verified
    <3>2. QED
      BY <1>1, <2>1, <3>1 DEF LiveIsFresh, DecideApprove, ConsentTypeOK
  <2>2. CASE DecideFails(i)
    BY <2>2 DEF LiveIsFresh, DecideFails
  <2>3. QED
    BY <2>1, <2>2
<1>7. QED
  BY <1>2, <1>3, <1>4, <1>5, <1>6

\* A ticket is spent, lost, or its file comes back.
LEMMA TicketStep ==
  ASSUME IInv, NEW t \in Ticket,
         \/ \E k \in Key : Register(k, t)
         \/ RegisterUnsaved(t) \/ RestoreFile(t) \/ IssueTicket(t)
  PROVE IInv'
<1> USE ConsentAssumption DEF IInv, device, pages, given, means, Version
<1>1. UNCHANGED <<serving, device, pages, given, verifier, lost, reset>>
  BY DEF Register, RegisterUnsaved, RestoreFile, IssueTicket
<1>2. ConsentTypeOK' /\ Gate' /\ ResetSteps' /\ TicketUse'
  <2>1. ASSUME NEW k \in Key, Register(k, t)
        PROVE ConsentTypeOK' /\ Gate' /\ ResetSteps' /\ TicketUse'
    <3>1. bound[t] = verifier /\ t \notin spent /\ reset = "none"
      BY <2>1 DEF Register, TicketRedeemable
    <3>2. ConsentTypeOK'
      BY <2>1 DEF ConsentTypeOK, Register, Redeem
    <3>3. Gate' /\ ResetSteps'
      BY <2>1, <3>1 DEF ConsentTypeOK, Gate, Clean, ResetSteps, Register
    <3>4. TicketUse'
      BY <2>1, <3>1 DEF ConsentTypeOK, TicketUse, Register, Redeem
    <3>5. QED
      BY <3>2, <3>3, <3>4
  <2>2. CASE RegisterUnsaved(t) \/ RestoreFile(t)
    BY <2>2 DEF ConsentTypeOK, Gate, Clean, ResetSteps, TicketUse, RegisterUnsaved, RestoreFile
  <2>3. CASE IssueTicket(t)
    <3>1. ConsentTypeOK' /\ Gate' /\ ResetSteps'
      BY <2>3 DEF ConsentTypeOK, Gate, Clean, ResetSteps, IssueTicket
    <3>2. TicketUse'
      BY <2>3 DEF ConsentTypeOK, TicketUse, IssueTicket
    <3>3. QED
      BY <3>1, <3>2
  <2>4. QED
    BY <2>1, <2>2, <2>3
<1>3. Verified' /\ Decided' /\ LiveIsFresh'
  BY <1>1 DEF Verified, Decided, LiveIsFresh
<1>4. QED
  BY <1>2, <1>3

-----------------------------------------------------------------------------
(* Commands of the owner. *)

\* A passkey is removed or the password changed.
LEMMA MeansStep ==
  ASSUME IInv, ChangePassword \/ \E k \in Key : RemoveKey(k)
  PROVE IInv'
<1> USE DEF IInv, device, pages, given, means, ChangePassword, RemoveKey
<1>1. ConsentTypeOK'
  <2>1. verifier' \in Version /\ enrolled' \in [Key -> 0..MaxVersion]
    BY Versions DEF ConsentTypeOK
  <2>2. QED
    BY <2>1 DEF ConsentTypeOK
<1>2. Gate' /\ ResetSteps'
  BY Versions DEF ConsentTypeOK, Gate, Clean, ResetSteps
<1>3. TicketUse'
  BY Versions DEF ConsentTypeOK, TicketUse
<1>4. Verified' /\ Decided' /\ LiveIsFresh'
  BY DEF Verified, Decided, LiveIsFresh
<1>5. QED
  BY <1>1, <1>2, <1>3, <1>4

\* The device is revoked or enabled: no grant stays alive.
LEMMA DeviceStep == ASSUME IInv, RevokeDevices \/ EnableDevices PROVE IInv'
<1> USE DEF IInv, device, pages, given, means, RevokeDevices, EnableDevices, NextGeneration
<1>1. ConsentTypeOK'
  <2>1. generation' = generation + 1 /\ active' \in BOOLEAN /\ live' = {}
    OBVIOUS
  <2>2. UNCHANGED <<serving, pending, pages, grants, proof, denied, means, reset>>
    OBVIOUS
  <2>3. generation' \in Nat
    BY <2>1 DEF ConsentTypeOK
  <2>4. QED
    BY <2>1, <2>2, <2>3 DEF ConsentTypeOK
<1>2. Gate' /\ ResetSteps' /\ TicketUse' /\ Verified'
  BY DEF Gate, Clean, ResetSteps, TicketUse, Verified
<1>3. Decided' /\ LiveIsFresh'
  BY DEF Decided, LiveIsFresh
<1>4. QED
  BY <1>1, <1>2, <1>3

\* The reset begins: the gate closes and no handler is running.
LEMMA BeginStep == ASSUME IInv, ResetBegin PROVE IInv'
<1> USE DEF IInv, device, pages, given, means, ResetBegin, NextGeneration
<1>1. verifier \in Nat /\ lost' \in 0..MaxVersion /\ generation' \in Nat
  BY Versions DEF ConsentTypeOK
<1>2. ConsentTypeOK'
  <2>1. serving' = FALSE /\ active' = FALSE /\ pending' = TRUE /\ live' = {}
    OBVIOUS
  <2>2. UNCHANGED <<page, pageGen, post, grants, proof, denied, verifier, enrolled,
                    file, bound, spent, uses>>
    OBVIOUS
  <2>3. \A c \in Consent : page[c] # "pending"
    BY DEF ConsentTypeOK
  <2>4. QED
    BY <1>1, <2>1, <2>2, <2>3 DEF ConsentTypeOK
<1>3. Gate' /\ ResetSteps' /\ Verified'
  BY <1>1 DEF ConsentTypeOK, Gate, ResetSteps, Verified
<1>4. TicketUse' /\ Decided' /\ LiveIsFresh'
  BY DEF TicketUse, Decided, LiveIsFresh
<1>5. QED
  BY <1>2, <1>3, <1>4

\* The reset installs a verifier, clears the passkeys, and opens the gate or stops.
LEMMA ResetStep ==
  ASSUME IInv,
         ResetInstall \/ ResetInstallFails \/ ResetClear \/ ResetComplete \/ ResetStops
  PROVE IInv'
<1> USE DEF IInv, device, pages, given, means
<1>1. pending /\ ~active /\ ~serving
  BY DEF ResetSteps, ResetInstall, ResetInstallFails, ResetClear, ResetComplete, ResetStops
<1>2. UNCHANGED <<serving, active, generation, pages, given, lost, bound, uses>>
  BY DEF ResetInstall, ResetInstallFails, ResetClear, ResetComplete, ResetStops
<1>3. ConsentTypeOK' /\ Gate' /\ ResetSteps' /\ TicketUse'
  <2>1. CASE ResetInstall
    <3>1. verifier \in Version /\ verifier' = verifier + 1 /\ verifier' \in Version
      BY <2>1, Versions DEF ConsentTypeOK, ResetInstall
    <3>2. ConsentTypeOK'
      BY <2>1, <3>1 DEF ConsentTypeOK, ResetInstall
    <3>3. Gate' /\ ResetSteps'
      BY <1>1, <2>1, <3>1, Versions DEF ConsentTypeOK, Gate, ResetSteps, TicketUse, ResetInstall
    <3>4. TicketUse'
      BY <2>1, <3>1, Versions DEF ConsentTypeOK, TicketUse, ResetInstall
    <3>5. QED
      BY <3>2, <3>3, <3>4
  <2>2. CASE ResetInstallFails
    <3>1. /\ verifier \in Version /\ verifier' \in Version
          /\ verifier' = verifier \/ verifier' = verifier + 1
      BY <2>2, Versions DEF ConsentTypeOK, ResetInstallFails
    <3>2. ConsentTypeOK'
      BY <2>2, <3>1 DEF ConsentTypeOK, ResetInstallFails
    <3>3. Gate' /\ ResetSteps'
      BY <1>1, <2>2, <3>1, Versions DEF ConsentTypeOK, Gate, ResetSteps, ResetInstallFails
    <3>4. TicketUse'
      BY <2>2, <3>1, Versions DEF ConsentTypeOK, TicketUse, ResetInstallFails
    <3>5. QED
      BY <3>2, <3>3, <3>4
  <2>3. CASE ResetClear
    <3>1. ConsentTypeOK'
      BY <2>3, Versions DEF ConsentTypeOK, ResetClear
    <3>2. Gate' /\ ResetSteps' /\ TicketUse'
      BY <1>1, <2>3 DEF Gate, ResetSteps, TicketUse, ResetClear
    <3>3. QED
      BY <3>1, <3>2
  <2>4. CASE ResetComplete
    BY <1>1, <2>4 DEF ConsentTypeOK, Gate, Clean, ResetSteps, TicketUse, ResetComplete
  <2>5. CASE ResetStops
    BY <1>1, <2>5 DEF ConsentTypeOK, Gate, Clean, ResetSteps, TicketUse, ResetStops
  <2>6. QED
    BY <2>1, <2>2, <2>3, <2>4, <2>5
<1>4. Verified' /\ Decided' /\ LiveIsFresh'
  BY <1>1, <1>2 DEF ConsentTypeOK, Verified, Decided, LiveIsFresh
<1>5. QED
  BY <1>3, <1>4

-----------------------------------------------------------------------------
\* A step of nobody.
LEMMA StutterStep == ASSUME IInv, UNCHANGED consentVars PROVE IInv'
  BY DEF IInv, consentVars, ConsentTypeOK, Gate, Clean, ResetSteps, TicketUse, Verified, Decided,
     LiveIsFresh

\* Every step preserves the invariant.
LEMMA NextHolds == IInv /\ [ConsentNext]_consentVars => IInv'
<1> SUFFICES ASSUME IInv, [ConsentNext]_consentVars PROVE IInv'
  OBVIOUS
<1>1. CASE Service
  <2>1. CASE StartService \/ StopService
    BY <2>1, StartStop
  <2>2. CASE \E c \in Consent : Begin(c) \/ PageOver(c) \/ Deny(c)
    BY <2>2, PageStep
  <2>3. CASE \E i \in Request, c \in Consent :
                \/ \E v \in Version : PostPassword(i, c, v)
                \/ \E k \in Key : PostPasskey(i, c, k)
    BY <2>3, PostStep
  <2>4. CASE \E i \in Request : Verify(i) \/ DecideLate(i) \/ DecideApprove(i) \/ DecideFails(i)
    BY <2>4, PostStep, DecisionStep
  <2>5. CASE \E t \in Ticket :
                \/ \E k \in Key : Register(k, t)
                \/ RegisterUnsaved(t) \/ RestoreFile(t)
    BY <2>5, TicketStep
  <2>6. QED
    BY <1>1, <2>1, <2>2, <2>3, <2>4, <2>5 DEF Service
<1>2. CASE Command
  BY <1>2, TicketStep, MeansStep, DeviceStep, BeginStep, ResetStep DEF Command
<1>3. CASE UNCHANGED consentVars
  BY <1>3, StutterStep
<1>4. QED
  BY <1>1, <1>2, <1>3 DEF ConsentNext

\* The invariant holds in every reachable state.
THEOREM ConsentInductive == ConsentSpec => []IInv
<1>1. ConsentInit => IInv
  BY InitHolds
<1>2. IInv /\ [ConsentNext]_consentVars => IInv'
  BY NextHolds
<1>3. QED
  BY <1>1, <1>2, PTL DEF ConsentSpec

\* Every variable keeps its type, and pages and handlers exist only while the
\* service holds its lock.
THEOREM ConsentTypeCorrect == ConsentSpec => []ConsentTypeOK
<1>1. IInv => ConsentTypeOK
  BY DEF IInv
<1>2. QED
  BY <1>1, ConsentInductive, PTL

\* A grant that works was approved since the last revocation, enabling or
\* reset of the device, with a proof the last reset did not void.
THEOREM LiveGrantsFresh == ConsentSpec => []LiveIsFresh
<1>1. IInv => LiveIsFresh
  BY DEF IInv
<1>2. QED
  BY <1>1, ConsentInductive, PTL

\* While the device accepts consent nothing is left of what an owner reset
\* voided, wherever the resets were interrupted.
THEOREM EnabledMeansClean == ConsentSpec => []EnabledIsClean
<1>1. IInv => EnabledIsClean
  BY DEF IInv, Gate, Clean, EnabledIsClean
<1>2. QED
  BY <1>1, ConsentInductive, PTL

\* A consent is decided once, for every number of concurrent POSTs.
THEOREM DecidedOnce == ConsentSpec => []OneDecision
<1>1. IInv => OneDecision
  BY DEF IInv, Decided, OneDecision
<1>2. QED
  BY <1>1, ConsentInductive, PTL

\* A ticket enrolls one passkey at most, across resets and restored files.
THEOREM TicketsOnce == ConsentSpec => []TicketOnce
<1>1. IInv => TicketOnce
  BY DEF IInv, TicketUse, TicketOnce
<1>2. QED
  BY <1>1, ConsentInductive, PTL

-----------------------------------------------------------------------------
\* Only an approval adds a grant, and it looks the passkey up again.
LEMMA ApprovalsChecked ==
  ASSUME ConsentTypeOK, ConsentNext, NEW c \in Consent, grants'[c] > grants[c]
  PROVE  \E i \in Request : /\ post[i].phase = "verified" /\ post[i].page = c
                         /\ post[i].with \in Key => enrolled[post[i].with] # 0
<1>1. ASSUME grants' = grants PROVE FALSE
  BY <1>1 DEF ConsentTypeOK
<1>2. PICK i \in Request : DecideApprove(i)
  BY <1>1 DEF ConsentNext, Service, Command, given, StartService, StopService, Begin, PageOver,
     Deny, PostPassword, PostPasskey, Verify, DecideLate, DecideFails, Register,
     RegisterUnsaved, RestoreFile, IssueTicket, RemoveKey, ChangePassword, RevokeDevices,
     EnableDevices, ResetBegin, ResetInstall, ResetInstallFails, ResetClear,
     ResetComplete, ResetStops
<1>3. post[i].page = c
  BY <1>2 DEF DecideApprove, ConsentTypeOK
<1>4. QED
  BY <1>2, <1>3 DEF DecideApprove, StillEnrolled

\* A passkey removed during its verification approves nothing.
THEOREM RemovedKeysStayOut == ConsentSpec => RemovedStaysOut
<1>1. ConsentTypeOK /\ [ConsentNext]_consentVars =>
        [\A c \in Consent : grants'[c] > grants[c] =>
           \E i \in Request : /\ post[i].phase = "verified" /\ post[i].page = c
                           /\ post[i].with \in Key => enrolled[post[i].with] # 0]_consentVars
  BY ApprovalsChecked
<1>2. QED
  BY <1>1, ConsentTypeCorrect, PTL DEF ConsentSpec, RemovedStaysOut

-----------------------------------------------------------------------------
(* The processes that keep a computer reachable. *)

WatchRow ==
    [kind : {"none", "persistent", "remote", "http"},
     at : {"off", "begin", "blocked", "reading", "launch", "wait", "stop"},
     failures : Nat, reads : Nat, child : Process \cup {Nothing}]
ExitCode == {"none", "ok", "bad"}
ServeRow ==
    [kind : {"none", "remote", "http"},
     at : {"off", "start", "preflight", "bind", "up", "looked", "stopping", "closing", "exited"},
     parent : Consent \cup {"lost", "hand", Nothing}, child : Key \cup {Nothing},
     sig : BOOLEAN, seen : BOOLEAN, code : ExitCode]
RunnerRow ==
    [at : {"off", "start", "loop", "starting", "handing", "run", "exited"},
     parent : Process \cup {"lost", "hand", Nothing}, failures : Nat,
     token : Ticket \cup {Nothing}, sig : BOOLEAN, code : ExitCode]

ReachTypes ==
    /\ watch \in [Consent -> WatchRow]
    /\ service \in [Process -> ServeRow]
    /\ runner \in [Key -> RunnerRow]
    /\ cloud \subseteq Key /\ loose \subseteq cloud /\ saved \in Ticket \cup {Nothing}

\* Parent and child know each other until one of them is gone.
WithChild == {"wait", "stop"}
WatchHas == \A w \in Consent :
    IF watch[w].at \in WithChild
    THEN /\ watch[w].child \in Process
         /\ service[watch[w].child].parent = w /\ service[watch[w].child].at # "off"
    ELSE watch[w].child = Nothing
ServeKnown == \A s \in Process :
    service[s].parent \in Consent => watch[service[s].parent].child = s

Looking == {"looked", "stopping"}
Fronting == {"up", "looked", "stopping"}
ServeHas == \A s \in Process : service[s].child # Nothing =>
    /\ service[s].at \in Fronting /\ service[s].kind = "remote"
    /\ runner[service[s].child].parent = s /\ runner[service[s].child].at # "off"
RunnerKnown == \A r \in Key :
    runner[r].parent \in Process => service[runner[r].parent].child = r

\* A service that looked for descendants knows of the connector of its runner, or it is loose.
Stopping == \A s \in Process :
    /\ service[s].seen => service[s].at \in Looking
    /\ service[s].at \in Looking =>
        /\ service[s].child # Nothing
        /\ service[s].child \in cloud => service[s].seen \/ service[s].child \in loose

\* Who holds the two locks that others look at, and what they keep as it is.
ServerLock == \A s \in Process :
    service[s].at \in Fronting \cup {"closing"} => locks["server"] = s
Connecting == {"handing", "run"}
Tokened == Connecting \cup {"starting"}
Over == {"off", "exited"}
TunnelLock == \A r \in Key :
    /\ runner[r].at \in Tokened \cup {"loop"} => locks["tunnel"] = r
    /\ runner[r].at \in Tokened => runner[r].token = saved
Seen(r) == \E s \in Process : service[s].child = r /\ service[s].seen
CloudRun == \A r \in cloud :
    \/ runner[r].at \in Connecting
    \/ runner[r].at \in Over /\ (r \in loose \/ Seen(r))

ReachInv ==
    /\ ReachTypes /\ WatchHas /\ ServeKnown /\ ServeHas /\ RunnerKnown
    /\ Stopping /\ ServerLock /\ TunnelLock /\ CloudRun

\* The locks that services and runners hold stay theirs.
Kept == \A l \in Reach!Locks, q \in Process \cup Key : locks[l] = q => locks'[l] = q
KeptBut(p) == \A l \in Reach!Locks, q \in Process \cup Key :
    q # p /\ locks[l] = q => locks'[l] = q

\* Locks are taken when they are free, and dropped by whoever holds them.
LEMMA TakeKeeps ==
  ASSUME NEW ls, NEW p, Reach!Open(ls), locks' = Reach!Take(ls, p)
  PROVE  Kept /\ \A l \in Reach!Locks \cap ls : locks'[l] = p
  BY ReachAssumption DEF Kept, Reach!Open, Reach!Take

\* Dropping a lock disturbs only its holder.
LEMMA DropKeeps ==
  ASSUME NEW ls, NEW p, locks' = Reach!Drop(ls, p)
  PROVE  KeptBut(p)
  BY DEF KeptBut, Reach!Drop

\* A supervisor holds no lock of a service or a runner.
LEMMA WatchDrops ==
  ASSUME NEW ls, NEW w \in Consent, locks' = Reach!Drop(ls, w)
  PROVE  Kept
  BY DropKeeps, ReachAssumption DEF Kept, KeptBut

\* What a service saw stays seen, and what runs keeps its runner.
LEMMA SeenKeeps ==
  ASSUME ReachTypes, CloudRun, UNCHANGED <<runner, cloud, loose>>,
         \A t \in Process : service[t].seen =>
             service'[t].seen /\ service'[t].child = service[t].child
  PROVE  CloudRun'
<1>1. \A r \in Key : Seen(r) => Seen(r)'
  BY DEF Seen
<1>2. QED
  BY <1>1 DEF CloudRun, ReachTypes

\* A supervisor without a child goes on.
LEMMA IdleKeeps ==
  ASSUME ReachInv, NEW w \in Consent, watch[w].at \notin WithChild, Kept,
         NEW rec \in WatchRow, rec.child = Nothing, rec.at \notin WithChild,
         Reach!OnlyWatch(w, rec)
  PROVE  ReachInv'
<1> USE ReachAssumption DEF Reach!OnlyWatch, ReachInv, ReachTypes
<1>1. /\ watch' = [watch EXCEPT ![w] = rec] /\ watch'[w] = rec
      /\ UNCHANGED <<service, runner, cloud, loose, saved>>
  OBVIOUS
<1>2. \A v \in Consent : v # w => watch'[v] = watch[v]
  BY <1>1
<1>3. \A s \in Process : service[s].parent # w
  BY DEF WatchHas, ServeKnown
<1>4. ReachTypes' /\ WatchHas'
  BY <1>1, <1>2 DEF WatchHas
<1>5. ServeKnown' /\ ServeHas' /\ RunnerKnown' /\ Stopping' /\ CloudRun'
  <2>1. CloudRun'
    BY <1>1, SeenKeeps
  <2>2. ServeKnown' /\ ServeHas' /\ RunnerKnown' /\ Stopping'
    BY <1>1, <1>2, <1>3 DEF ServeKnown, ServeHas, RunnerKnown, Stopping
  <2>3. QED
    BY <2>1, <2>2
<1>6. ServerLock' /\ TunnelLock'
  BY <1>1 DEF ServerLock, TunnelLock, Kept, Reach!Locks, Reach!Startup
<1>7. QED
  BY <1>4, <1>5, <1>6

\* A supervisor leaves a run without a child, or ends it.
LEMMA LeaveKeeps ==
  ASSUME ReachInv, NEW w \in Consent, watch[w].at \notin WithChild,
         NEW at \in {"blocked", "begin"}, Reach!Leave(w, at)
  PROVE  ReachInv'
<1>1. /\ [Reach!NoWatch EXCEPT !.kind = "persistent", !.at = at] \in WatchRow
      /\ Reach!NoWatch \in WatchRow
  BY DEF WatchRow, Reach!NoWatch
<1>2. Kept
  BY WatchDrops DEF Reach!Leave
<1>3. CASE watch[w].kind = "persistent"
  BY <1>1, <1>2, <1>3, IdleKeeps DEF Reach!Leave, Reach!NoWatch, WithChild
<1>4. CASE watch[w].kind # "persistent"
  BY <1>1, <1>2, <1>4, IdleKeeps DEF Reach!Leave, Reach!NoWatch, WithChild
<1>5. QED
  BY <1>3, <1>4

\* The steps of a supervisor that has no child.
LEMMA WatchAloneKeeps ==
  ASSUME ReachInv, NEW w \in Consent,
         \/ Reach!StartWatch(w) \/ Reach!Begin(w) \/ Reach!ReadCredentials(w)
         \/ Reach!Interrupt(w) /\ watch[w].at # "wait"
  PROVE  ReachInv'
<1> USE DEF WithChild
<1> DEFINE row == watch[w]
<1>0. row \in WatchRow /\ Reach!NoWatch \in WatchRow
  BY DEF ReachInv, ReachTypes, WatchRow, Reach!NoWatch
<1>a. ASSUME UNCHANGED locks PROVE Kept
  BY <1>a DEF Kept
<1>1. CASE Reach!StartWatch(w)
  <2>1. watch[w].at \notin WithChild
    BY <1>1 DEF Reach!StartWatch, Reach!LiveWatch
  <2>2. \A k \in {"persistent", "remote", "http"}, at \in {"begin", "launch"} :
           LET rec == [Reach!NoWatch EXCEPT !.kind = k, !.at = at]
           IN rec \in WatchRow /\ rec.child = Nothing /\ rec.at \notin WithChild
    BY DEF WatchRow, Reach!NoWatch
  <2>3. Kept
    <3>1. \/ Reach!Open({"persistent"}) /\ locks' = Reach!Take({"persistent"}, w)
          \/ Reach!Open({"httpWatch"}) /\ locks' = Reach!Take({"httpWatch"}, w)
          \/ UNCHANGED locks
      BY <1>1 DEF Reach!StartWatch, Reach!Open
    <3>2. QED
      BY <3>1, <1>a, TakeKeeps
  <2>4. QED
    BY <1>1, <2>1, <2>2, <2>3, IdleKeeps DEF Reach!StartWatch
<1>2. CASE Reach!Begin(w)
  <2>1. watch[w].at \notin WithChild
    BY <1>2 DEF Reach!Begin
  <2>2. CASE Reach!Leave(w, "blocked")
    BY <2>1, <2>2, LeaveKeeps
  <2>3. CASE /\ Reach!Open(Reach!Startup \cup {"remote"})
             /\ locks' = Reach!Take(Reach!Startup \cup {"remote"}, w)
             /\ Reach!OnlyWatch(w, [watch[w] EXCEPT !.at = "reading", !.reads = 1])
    <3> DEFINE rec == [watch[w] EXCEPT !.at = "reading", !.reads = 1]
    <3>1. rec \in WatchRow /\ rec.child = Nothing /\ rec.at \notin WithChild
      BY <1>0, <2>1 DEF WatchRow, ReachInv, WatchHas
    <3>2. QED
      BY <2>1, <2>3, <3>1, TakeKeeps, IdleKeeps
  <2>4. QED
    BY <1>2, <2>2, <2>3 DEF Reach!Begin
<1>3. CASE Reach!ReadCredentials(w)
  <2>1. watch[w].at \notin WithChild /\ watch[w].child = Nothing
    BY <1>3 DEF Reach!ReadCredentials, ReachInv, WatchHas
  <2>2. CASE /\ locks' = Reach!Drop(Reach!Startup, w)
             /\ Reach!OnlyWatch(w, [watch[w] EXCEPT !.at = "launch", !.reads = 0])
    <3> DEFINE rec == [watch[w] EXCEPT !.at = "launch", !.reads = 0]
    <3>1. rec \in WatchRow /\ rec.child = Nothing /\ rec.at \notin WithChild
      BY <1>0, <2>1 DEF WatchRow
    <3>2. QED
      BY <2>1, <2>2, <3>1, WatchDrops, IdleKeeps
  <2>3. CASE Reach!OnlyWatch(w, [watch[w] EXCEPT !.reads = @ + 1]) /\ UNCHANGED locks
    <3> DEFINE rec == [watch[w] EXCEPT !.reads = watch[w].reads + 1]
    <3>1. rec \in WatchRow /\ rec.child = Nothing /\ rec.at \notin WithChild
      BY <1>0, <1>3, <2>1 DEF WatchRow, Reach!ReadCredentials
    <3>2. QED
      BY <1>a, <2>1, <2>3, <3>1, IdleKeeps
  <2>4. QED
    BY <1>3, <2>1, <2>2, <2>3, LeaveKeeps DEF Reach!ReadCredentials
<1>4. CASE Reach!Interrupt(w) /\ watch[w].at # "wait"
  <2>1. watch[w].at \notin WithChild /\ Kept /\ Reach!OnlyWatch(w, Reach!NoWatch)
    BY <1>4, WatchDrops DEF Reach!Interrupt
  <2>2. QED
    BY <1>0, <2>1, IdleKeeps DEF Reach!NoWatch
<1>5. QED
  BY <1>1, <1>2, <1>3, <1>4

\* A supervisor and its child start, and part.
LEMMA LaunchKeeps ==
  ASSUME ReachInv, NEW w \in Consent, Reach!Launch(w)
  PROVE  ReachInv'
<1> USE DEF WithChild
<1>1. CASE Reach!Leave(w, "blocked")
  BY <1>1, LeaveKeeps DEF Reach!Launch
<1>2. ASSUME NEW s \in Process, service[s].at = "off",
             service' = [service EXCEPT ![s] = [Reach!NoServe EXCEPT
                 !.kind = IF watch[w].kind = "http" THEN "http" ELSE "remote",
                 !.at = "start", !.parent = w]],
             watch' = [watch EXCEPT ![w].at = "wait", ![w].child = s],
             UNCHANGED <<locks, runner, cloud, loose, saved>>
      PROVE  ReachInv'
  <2> DEFINE rec == [Reach!NoServe EXCEPT
                 !.kind = IF watch[w].kind = "http" THEN "http" ELSE "remote",
                 !.at = "start", !.parent = w]
             row == [watch[w] EXCEPT !.at = "wait", !.child = s]
  <2>1. /\ rec \in ServeRow /\ rec.child = Nothing /\ rec.at = "start" /\ rec.parent = w
        /\ row \in WatchRow /\ row.at = "wait" /\ row.child = s /\ rec.seen = FALSE
    <3>1. /\ rec \in ServeRow /\ rec.child = Nothing /\ rec.at = "start"
          /\ rec.parent = w /\ rec.seen = FALSE
      BY DEF ServeRow, ExitCode, Reach!NoServe
    <3>2. row \in WatchRow /\ row.at = "wait" /\ row.child = s
      BY DEF WatchRow, ReachInv, ReachTypes
    <3>3. QED
      BY <3>1, <3>2
  <2>2. /\ service' = [service EXCEPT ![s] = rec] /\ watch' = [watch EXCEPT ![w] = row]
    BY <1>2 DEF ReachInv, ReachTypes
  <2> HIDE DEF rec, row
  <2>3. /\ ReachTypes' /\ service'[s] = rec /\ watch'[w] = row
        /\ \A v \in Consent : v # w => watch'[v] = watch[v]
        /\ \A t \in Process : t # s => service'[t] = service[t]
    <3>1. watch \in [Consent -> WatchRow] /\ service \in [Process -> ServeRow]
      BY DEF ReachInv, ReachTypes
    <3>2. /\ watch' \in [Consent -> WatchRow] /\ watch'[w] = row
          /\ \A v \in Consent : v # w => watch'[v] = watch[v]
      BY <2>1, <2>2, <3>1
    <3>3. /\ service' \in [Process -> ServeRow] /\ service'[s] = rec
          /\ \A t \in Process : t # s => service'[t] = service[t]
      BY <2>1, <2>2, <3>1
    <3>4. QED
      BY <1>2, <3>2, <3>3 DEF ReachInv, ReachTypes
  <2>4. /\ watch[w].at \notin WithChild /\ service[s].child = Nothing
        /\ \A v \in Consent : watch[v].at \in WithChild => watch[v].child # s
        /\ \A t \in Process : service[t].parent # w
        /\ \A r \in Key : runner[r].parent # s
    BY <1>2, ReachAssumption
       DEF Reach!Launch, ReachInv, WatchHas, ServeKnown, ServeHas, RunnerKnown, Fronting
  <2>5. WatchHas' /\ ServeKnown'
    <3>1. WatchHas /\ ServeKnown
      BY DEF ReachInv
    <3>2. WatchHas'
      BY <2>1, <2>3, <2>4, <3>1 DEF WatchHas
    <3>3. ServeKnown'
      BY <2>1, <2>3, <2>4, <3>1 DEF ServeKnown
    <3>4. QED
      BY <3>2, <3>3
  <2>6. ServeHas' /\ RunnerKnown' /\ Stopping' /\ ServerLock' /\ TunnelLock' /\ CloudRun'
    <3>0. ServeHas /\ RunnerKnown
      BY DEF ReachInv
    <3>a. ServeHas'
      <4> SUFFICES ASSUME NEW t \in Process, service'[t].child # Nothing
                   PROVE  /\ service'[t].at \in Fronting /\ service'[t].kind = "remote"
                          /\ runner'[service'[t].child].parent = t
                          /\ runner'[service'[t].child].at # "off"
        BY DEF ServeHas
      <4>1. service'[t] = service[t] /\ runner' = runner
        BY <1>2, <2>1, <2>3
      <4>2. QED
        BY <3>0, <4>1 DEF ServeHas
    <3>b. RunnerKnown'
      BY <1>2, <2>3, <2>4, <3>0 DEF RunnerKnown
    <3>1. ServeHas' /\ RunnerKnown'
      BY <3>a, <3>b
    <3>2. Stopping' /\ CloudRun'
      <4>1. ~service[s].seen
        BY <1>2 DEF ReachInv, Stopping, Looking
      <4>2. CloudRun'
        BY <1>2, <2>3, <4>1, SeenKeeps DEF ReachInv
      <4>3. Stopping'
        <5> SUFFICES ASSUME NEW t \in Process
                     PROVE  /\ service'[t].seen => service'[t].at \in Looking
                            /\ service'[t].at \in Looking =>
                                /\ service'[t].child # Nothing
                                /\ service'[t].child \in cloud' =>
                                       service'[t].seen \/ service'[t].child \in loose'
          BY DEF Stopping
        <5>1. CASE t = s
          BY <2>1, <2>3, <5>1 DEF Looking
        <5>2. CASE t # s
          BY <1>2, <2>3, <5>2 DEF ReachInv, Stopping
        <5>3. QED
          BY <5>1, <5>2
      <4>4. QED
        BY <4>2, <4>3
    <3>3. ServerLock' /\ TunnelLock'
      BY <1>2, <2>1, <2>3 DEF ReachInv, ServerLock, TunnelLock, Fronting
    <3>4. QED
      BY <3>1, <3>2, <3>3
  <2>7. QED
    BY <2>3, <2>5, <2>6 DEF ReachInv
<1>3. QED
  BY <1>1, <1>2 DEF Reach!Launch

\* The supervisor parts from its child s, whose record is cleared.
LEMMA PartKeeps ==
  ASSUME ReachInv, NEW w \in Consent, NEW s \in Process,
         watch[w].at \in WithChild, watch[w].child = s, service[s].child = Nothing,
         NEW row \in WatchRow, row.child = Nothing, row.at \notin WithChild,
         watch' = [watch EXCEPT ![w] = row], service' = [service EXCEPT ![s] = Reach!NoServe],
         KeptBut(s), UNCHANGED <<runner, cloud, loose, saved>>
  PROVE  ReachInv'
<1> USE DEF WithChild
<1> DEFINE rec == Reach!NoServe
<1>1. /\ rec \in ServeRow /\ rec.child = Nothing /\ rec.at = "off" /\ rec.parent = Nothing
      /\ rec.seen = FALSE
  BY DEF ServeRow, ExitCode, Reach!NoServe
<1> HIDE DEF rec
<1>2. service' = [service EXCEPT ![s] = rec]
  BY DEF rec
<1>3. /\ ReachTypes' /\ service'[s] = rec /\ watch'[w] = row
      /\ \A v \in Consent : v # w => watch'[v] = watch[v]
      /\ \A t \in Process : t # s => service'[t] = service[t]
  BY <1>1, <1>2 DEF ReachInv, ReachTypes
<1>4. /\ \A v \in Consent \ {w} : watch[v].at \in WithChild => watch[v].child # s
      /\ \A t \in Process \ {s} : service[t].parent # w
      /\ \A r \in Key : runner[r].parent # s
  BY ReachAssumption DEF ReachInv, WatchHas, ServeKnown, ServeHas, RunnerKnown
<1>5. WatchHas' /\ ServeKnown'
  BY <1>1, <1>3, <1>4, ReachAssumption DEF ReachInv, WatchHas, ServeKnown
<1>6. ServeHas' /\ RunnerKnown' /\ Stopping' /\ CloudRun'
  <2>1. ~service[s].seen
    BY DEF ReachInv, Stopping
  <2>2. CloudRun'
    BY <1>3, <2>1, SeenKeeps DEF ReachInv
  <2>3. Stopping'
    BY <1>1, <1>3 DEF ReachInv, Stopping, Looking
  <2>4. ServeHas' /\ RunnerKnown'
    BY <1>1, <1>3, <1>4 DEF ReachInv, ServeHas, RunnerKnown, Fronting
  <2>5. QED
    BY <2>2, <2>3, <2>4
<1>7. ServerLock' /\ TunnelLock'
  BY <1>1, <1>3, ReachAssumption
     DEF ReachInv, ServerLock, TunnelLock, KeptBut, Reach!Locks, Reach!Startup, Fronting
<1>8. QED
  BY <1>3, <1>5, <1>6, <1>7 DEF ReachInv

\* The steps that clear a child which ended or was told to end.
LEMMA ReapKeeps ==
  ASSUME ReachInv, NEW w \in Consent, Reach!Reap(w) \/ Reach!Stopped(w)
  PROVE  ReachInv'
<1> USE DEF WithChild
<1> DEFINE s == watch[w].child
<1>1. /\ watch[w].at \in WithChild /\ s \in Process /\ service[s].at = "exited"
      /\ service[s].child = Nothing
  BY DEF Reach!Reap, Reach!Stopped, ReachInv, WatchHas, ServeHas, Fronting
<1>2. /\ service' = [service EXCEPT ![s] = Reach!NoServe]
      /\ UNCHANGED <<runner, cloud, loose, saved>>
  BY DEF Reach!Reap, Reach!Stopped
<1>3. KeptBut(s)
  BY WatchDrops DEF Reach!Reap, Reach!Stopped, Kept, KeptBut
<1>4. \E row \in WatchRow : /\ row.child = Nothing /\ row.at \notin WithChild
                            /\ watch' = [watch EXCEPT ![w] = row]
  <2>1. watch \in [Consent -> WatchRow] /\ watch[w] \in WatchRow
    BY DEF ReachInv, ReachTypes
  <2>2. /\ Reach!NoWatch \in WatchRow /\ Reach!NoWatch.child = Nothing
        /\ Reach!NoWatch.at = "off"
    BY DEF WatchRow, Reach!NoWatch
  <2>3. LET row == [Reach!NoWatch EXCEPT !.kind = "persistent", !.at = "begin"]
        IN row \in WatchRow /\ row.child = Nothing /\ row.at = "begin"
    BY DEF WatchRow, Reach!NoWatch
  <2>4. ASSUME NEW n \in {0, watch[w].failures},
               watch' = [watch EXCEPT ![w].at = "launch", ![w].failures = n + 1,
                                      ![w].child = Nothing]
        PROVE  \E row \in WatchRow : /\ row.child = Nothing /\ row.at \notin WithChild
                                     /\ watch' = [watch EXCEPT ![w] = row]
    <3> DEFINE row == [watch[w] EXCEPT !.at = "launch", !.failures = n + 1, !.child = Nothing]
    <3>1. row \in WatchRow /\ row.child = Nothing /\ row.at = "launch"
      <4>1. n + 1 \in Nat
        BY <2>1 DEF WatchRow
      <4>2. QED
        BY <2>1, <4>1 DEF WatchRow
    <3>2. watch' = [watch EXCEPT ![w] = row]
      BY <2>1, <2>4
    <3>3. QED
      BY <3>1, <3>2
  <2>5. QED
    BY <2>2, <2>3, <2>4 DEF Reach!Reap, Reach!Stopped
<1>5. QED
  BY <1>1, <1>2, <1>3, <1>4, PartKeeps

\* A child is told to end.
LEMMA InterruptKeeps ==
  ASSUME ReachInv, NEW w \in Consent, Reach!Interrupt(w), watch[w].at = "wait"
  PROVE  ReachInv'
<1> USE DEF WithChild
<1> DEFINE s == watch[w].child
           row == [watch[w] EXCEPT !.at = "stop"]
           rec == [service[s] EXCEPT !.sig = TRUE]
<1>0. watch \in [Consent -> WatchRow] /\ service \in [Process -> ServeRow] /\ s \in Process
  BY DEF ReachInv, ReachTypes, WatchHas
<1>1. /\ watch' = [watch EXCEPT ![w] = row] /\ service' = [service EXCEPT ![s] = rec]
      /\ UNCHANGED <<locks, runner, cloud, loose, saved>>
  BY <1>0 DEF Reach!Interrupt
<1>2. row \in WatchRow /\ row.at = "stop" /\ row.child = s
  BY <1>0 DEF WatchRow
<1>3. /\ rec \in ServeRow /\ rec.at = service[s].at /\ rec.child = service[s].child
      /\ rec.parent = service[s].parent /\ rec.kind = service[s].kind
      /\ rec.seen = service[s].seen
  <2>1. service[s] \in ServeRow
    BY <1>0
  <2>2. QED
    BY <2>1 DEF ServeRow
<1> HIDE DEF row, rec
<1>4. /\ watch' \in [Consent -> WatchRow] /\ watch'[w] = row
      /\ \A v \in Consent : v # w => watch'[v] = watch[v]
  BY <1>0, <1>1, <1>2
<1>5. /\ service' \in [Process -> ServeRow] /\ service'[s] = rec
      /\ \A t \in Process : t # s => service'[t] = service[t]
  BY <1>0, <1>1, <1>3
<1>6. \A v \in Consent : /\ watch'[v].child = watch[v].child
                          /\ (watch'[v].at \in WithChild) = (watch[v].at \in WithChild)
  BY <1>2, <1>4
<1>7. \A t \in Process :
         /\ service'[t].at = service[t].at /\ service'[t].child = service[t].child
         /\ service'[t].parent = service[t].parent /\ service'[t].kind = service[t].kind
         /\ service'[t].seen = service[t].seen
  BY <1>3, <1>5
<1> HIDE DEF s
<1>8. ReachTypes'
  BY <1>1, <1>4, <1>5 DEF ReachInv, ReachTypes
<1>9. WatchHas' /\ ServeKnown'
  <2>1. WatchHas /\ ServeKnown
    BY DEF ReachInv
  <2>2. WatchHas'
    <3> SUFFICES ASSUME NEW v \in Consent
                 PROVE  IF watch'[v].at \in WithChild
                        THEN /\ watch'[v].child \in Process
                             /\ service'[watch'[v].child].parent = v
                             /\ service'[watch'[v].child].at # "off"
                        ELSE watch'[v].child = Nothing
      BY DEF WatchHas
    <3>1. /\ watch'[v].child = watch[v].child
          /\ (watch'[v].at \in WithChild) = (watch[v].at \in WithChild)
      BY <1>6
    <3>2. CASE watch[v].at \in WithChild
      BY <1>7, <2>1, <3>1, <3>2 DEF WatchHas
    <3>3. CASE watch[v].at \notin WithChild
      BY <2>1, <3>1, <3>3 DEF WatchHas
    <3>4. QED
      BY <3>2, <3>3
  <2>3. ServeKnown'
    <3> SUFFICES ASSUME NEW t \in Process, service'[t].parent \in Consent
                 PROVE  watch'[service'[t].parent].child = t
      BY DEF ServeKnown
    <3>1. service'[t].parent = service[t].parent
      BY <1>7
    <3>2. watch[service[t].parent].child = t
      BY <2>1, <3>1 DEF ServeKnown
    <3>3. QED
      BY <1>6, <3>1, <3>2
  <2>4. QED
    BY <2>2, <2>3
<1>10. ServeHas' /\ RunnerKnown' /\ Stopping'
  BY <1>1, <1>7 DEF ReachInv, ServeHas, RunnerKnown, Stopping
<1>11. ServerLock' /\ TunnelLock' /\ CloudRun'
  <2>1. CloudRun'
    BY <1>1, <1>7, SeenKeeps DEF ReachInv
  <2>2. ServerLock' /\ TunnelLock'
    BY <1>1, <1>7 DEF ReachInv, ServerLock, TunnelLock
  <2>3. QED
    BY <2>1, <2>2
<1>12. QED
  BY <1>8, <1>9, <1>10, <1>11 DEF ReachInv

\* A supervisor that is killed leaves its child without a parent.
LEMMA KillWatchKeeps ==
  ASSUME ReachInv, NEW w \in Consent, Reach!KillWatch(w)
  PROVE  ReachInv'
<1> USE DEF WithChild
<1>0. /\ watch \in [Consent -> WatchRow] /\ service \in [Process -> ServeRow]
      /\ watch' = [watch EXCEPT ![w] = Reach!NoWatch]
      /\ UNCHANGED <<runner, cloud, loose, saved>>
  BY DEF ReachInv, ReachTypes, Reach!KillWatch
<1>1. Kept
  BY WatchDrops DEF Reach!KillWatch
<1>2. /\ Reach!NoWatch \in WatchRow /\ Reach!NoWatch.child = Nothing
      /\ Reach!NoWatch.at = "off"
  BY DEF WatchRow, Reach!NoWatch
<1>3. /\ Reach!NoServe \in ServeRow /\ Reach!NoServe.child = Nothing
      /\ Reach!NoServe.at = "off" /\ Reach!NoServe.parent = Nothing
      /\ Reach!NoServe.seen = FALSE
  BY DEF ServeRow, ExitCode, Reach!NoServe
<1>4. /\ watch' \in [Consent -> WatchRow] /\ watch'[w] = Reach!NoWatch
      /\ \A v \in Consent : v # w => watch'[v] = watch[v]
  BY <1>0, <1>2
<1>5. \A t \in Process : \/ service[t].parent # w /\ service'[t] = service[t]
                         \/ service[t].at = "exited" /\ service'[t] = Reach!NoServe
                         \/ service'[t] = [service[t] EXCEPT !.parent = "lost"]
  BY DEF Reach!KillWatch
<1>6. \A t \in Process :
         LET rec == [service[t] EXCEPT !.parent = "lost"]
         IN /\ rec \in ServeRow /\ rec.at = service[t].at /\ rec.child = service[t].child
            /\ rec.kind = service[t].kind /\ rec.parent = "lost" /\ rec.seen = service[t].seen
  BY <1>0 DEF ServeRow
<1>7. service' \in [Process -> ServeRow]
  <2>1. \A t \in Process : service'[t] \in ServeRow
    BY <1>0, <1>3, <1>5, <1>6
  <2>2. service' = [t \in Process |-> service'[t]]
    BY DEF Reach!KillWatch
  <2>3. QED
    BY <2>1, <2>2
<1>8. \A t \in Process : service[t].child # Nothing => service[t].at # "exited"
  BY DEF ReachInv, ServeHas, Fronting
<1>9. \A t \in Process :
         \/ /\ service'[t].child = Nothing /\ service[t].child = Nothing
            /\ service'[t].at = "off" /\ service'[t].parent = Nothing
            /\ service'[t].seen = FALSE
         \/ /\ service'[t].at = service[t].at /\ service'[t].child = service[t].child
            /\ service'[t].kind = service[t].kind /\ service'[t].seen = service[t].seen
            /\ \/ service[t].parent # w /\ service'[t].parent = service[t].parent
               \/ service'[t].parent = "lost"
  BY <1>3, <1>5, <1>6, <1>8
<1>10. ReachTypes'
  BY <1>0, <1>4, <1>7 DEF ReachInv, ReachTypes
<1>11. WatchHas'
  <2> SUFFICES ASSUME NEW v \in Consent, v # w, watch[v].at \in WithChild
               PROVE  /\ watch[v].child \in Process
                      /\ service'[watch[v].child].parent = v
                      /\ service'[watch[v].child].at # "off"
    BY <1>2, <1>4 DEF ReachInv, WatchHas
  <2>1. /\ watch[v].child \in Process /\ service[watch[v].child].parent = v
        /\ service[watch[v].child].at # "off"
    BY DEF ReachInv, WatchHas
  <2>2. service'[watch[v].child] = service[watch[v].child]
    BY <2>1 DEF Reach!KillWatch
  <2>3. QED
    BY <2>1, <2>2
<1>12. ServeKnown'
  BY <1>4, <1>9, ReachAssumption DEF ReachInv, ServeKnown
<1>13. ServeHas' /\ RunnerKnown' /\ Stopping'
  <2>1. ServeHas /\ RunnerKnown /\ Stopping
    BY DEF ReachInv
  <2>2. ServeHas'
    BY <1>0, <1>9, <2>1 DEF ServeHas
  <2>3. RunnerKnown'
    BY <1>0, <1>9, <2>1 DEF RunnerKnown, ServeHas
  <2>4. Stopping'
    BY <1>0, <1>9, <2>1 DEF Stopping, Looking
  <2>5. QED
    BY <2>2, <2>3, <2>4
<1>14. ServerLock' /\ TunnelLock' /\ CloudRun'
  <2>1. ServerLock /\ TunnelLock /\ CloudRun
    BY DEF ReachInv
  <2>2. ServerLock'
    BY <1>1, <1>9, <2>1 DEF ServerLock, Kept, Fronting, Reach!Locks, Reach!Startup
  <2>3. TunnelLock'
    BY <1>0, <1>1, <2>1 DEF TunnelLock, Kept, Reach!Locks, Reach!Startup
  <2>4. CloudRun'
    <3>1. \A t \in Process : service[t].seen => service[t].child # Nothing
      BY DEF ReachInv, Stopping
    <3>2. QED
      BY <1>0, <1>9, <3>1, SeenKeeps DEF ReachInv
  <2>5. QED
    BY <2>2, <2>3, <2>4
<1>15. QED
  BY <1>10, <1>11, <1>12, <1>13, <1>14 DEF ReachInv

\* What becomes of the runner when its service is killed.
LEMMA DeadRunners ==
  ASSUME ReachInv, NEW s \in Process, Reach!DeadServe(s)
  PROVE  /\ runner' \in [Key -> RunnerRow] /\ UNCHANGED <<cloud, saved>>
         /\ loose' = loose \cup {r \in cloud : runner[r].parent = s /\ runner[r].at = "exited"}
         /\ \A r \in Key :
              IF runner[r].parent # s THEN runner'[r] = runner[r]
              ELSE /\ runner'[r].parent \in {"lost", Nothing}
                   /\ \/ runner[r].at = "exited" /\ runner'[r].at = "off"
                      \/ runner'[r].at = runner[r].at /\ runner'[r].token = runner[r].token
<1>1. runner \in [Key -> RunnerRow]
  BY DEF ReachInv, ReachTypes
<1>2. /\ Reach!NoRunner \in RunnerRow /\ Reach!NoRunner.parent = Nothing
      /\ Reach!NoRunner.at = "off"
  BY DEF RunnerRow, ExitCode, Reach!NoRunner
<1>3. \A r \in Key : LET rec == [runner[r] EXCEPT !.parent = "lost"]
                     IN /\ rec \in RunnerRow /\ rec.parent = "lost"
                        /\ rec.at = runner[r].at /\ rec.token = runner[r].token
  BY <1>1 DEF RunnerRow
<1>4. \A r \in Key :
         runner'[r] = IF runner[r].parent # s THEN runner[r]
                      ELSE IF runner[r].at = "exited" THEN Reach!NoRunner
                      ELSE [runner[r] EXCEPT !.parent = "lost"]
  BY DEF Reach!DeadServe
<1>5. \A r \in Key : runner'[r] \in RunnerRow
  BY <1>1, <1>2, <1>3, <1>4
<1>6. runner' = [r \in Key |-> runner'[r]]
  BY DEF Reach!DeadServe
<1>7. runner' \in [Key -> RunnerRow]
  BY <1>5, <1>6
<1>8. QED
  BY <1>2, <1>3, <1>4, <1>7 DEF Reach!DeadServe

\* A service is killed.
LEMMA DeadKeeps ==
  ASSUME ReachInv, NEW s \in Process, Reach!DeadServe(s), KeptBut(s),
         NEW rec \in ServeRow, rec.child = Nothing, rec.at \in {"off", "exited"}, ~rec.seen,
         service' = [service EXCEPT ![s] = rec],
         watch' \in [Consent -> WatchRow], WatchHas', ServeKnown'
  PROVE  ReachInv'
<1>1. /\ service' \in [Process -> ServeRow] /\ service'[s] = rec
      /\ \A t \in Process : t # s => service'[t] = service[t]
  BY DEF ReachInv, ReachTypes
<1>2. /\ runner' \in [Key -> RunnerRow] /\ UNCHANGED <<cloud, saved>>
      /\ loose' = loose \cup {r \in cloud : runner[r].parent = s /\ runner[r].at = "exited"}
      /\ \A r \in Key :
           IF runner[r].parent # s THEN runner'[r] = runner[r]
           ELSE /\ runner'[r].parent \in {"lost", Nothing}
                /\ \/ runner[r].at = "exited" /\ runner'[r].at = "off"
                   \/ runner'[r].at = runner[r].at /\ runner'[r].token = runner[r].token
  BY DeadRunners
<1>3. ServeHas /\ RunnerKnown /\ Stopping /\ ServerLock /\ TunnelLock /\ CloudRun
  BY DEF ReachInv
<1>4. ReachTypes'
  BY <1>1, <1>2 DEF ReachInv, ReachTypes
<1>5. \A t \in Process : service'[t].child # Nothing =>
         /\ t # s /\ service'[t] = service[t] /\ service[t].child \in Key
         /\ runner'[service[t].child] = runner[service[t].child]
  <2> SUFFICES ASSUME NEW t \in Process, service'[t].child # Nothing
               PROVE  /\ t # s /\ service'[t] = service[t] /\ service[t].child \in Key
                      /\ runner'[service[t].child] = runner[service[t].child]
    OBVIOUS
  <2>1. t # s /\ service'[t] = service[t]
    BY <1>1
  <2>2. service[t].child \in Key
    BY <1>1, <2>1 DEF ServeRow
  <2>3. runner[service[t].child].parent = t
    BY <1>3, <2>1 DEF ServeHas
  <2>4. QED
    BY <1>2, <2>1, <2>2, <2>3
<1>6. ServeHas'
  <2> SUFFICES ASSUME NEW t \in Process, service'[t].child # Nothing
               PROVE  /\ service'[t].at \in Fronting /\ service'[t].kind = "remote"
                      /\ runner'[service'[t].child].parent = t
                      /\ runner'[service'[t].child].at # "off"
    BY DEF ServeHas
  <2>1. QED
    BY <1>3, <1>5 DEF ServeHas
<1>7. RunnerKnown'
  <2> SUFFICES ASSUME NEW r \in Key, runner'[r].parent \in Process
               PROVE  service'[runner'[r].parent].child = r
    BY DEF RunnerKnown
  <2>1. runner[r].parent # s /\ runner'[r] = runner[r]
    BY <1>2, ReachAssumption
  <2>2. QED
    BY <1>1, <1>3, <2>1 DEF RunnerKnown
<1>8. Stopping'
  <2> SUFFICES ASSUME NEW t \in Process
               PROVE  /\ service'[t].seen => service'[t].at \in Looking
                      /\ service'[t].at \in Looking =>
                          /\ service'[t].child # Nothing
                          /\ service'[t].child \in cloud' =>
                                 service'[t].seen \/ service'[t].child \in loose'
    BY DEF Stopping
  <2>1. CASE t = s
    BY <1>1, <2>1 DEF Looking
  <2>2. CASE t # s
    BY <1>1, <1>2, <1>3, <2>2 DEF Stopping
  <2>3. QED
    BY <2>1, <2>2
<1>9. ServerLock'
  BY <1>1, <1>3 DEF ServerLock, Fronting, KeptBut, Reach!Locks, Reach!Startup
<1>10. TunnelLock'
  <2> SUFFICES ASSUME NEW r \in Key, runner'[r].at \in Tokened \cup {"loop"}
               PROVE  /\ locks'["tunnel"] = r
                      /\ runner'[r].at \in Tokened => runner'[r].token = saved'
    BY DEF TunnelLock
  <2>1. runner'[r].at = runner[r].at /\ runner'[r].token = runner[r].token
    BY <1>2 DEF Connecting, Tokened
  <2>2. locks["tunnel"] = r /\ (runner[r].at \in Tokened => runner[r].token = saved)
    BY <1>3, <2>1 DEF TunnelLock
  <2>3. r # s
    BY ReachAssumption
  <2>4. QED
    BY <1>2, <2>1, <2>2, <2>3 DEF KeptBut, Reach!Locks, Reach!Startup
<1>11. CloudRun'
  <2>0. cloud' = cloud
    BY <1>2
  <2> SUFFICES ASSUME NEW r \in cloud
               PROVE  \/ runner'[r].at \in Connecting
                      \/ /\ runner'[r].at \in Over
                         /\ r \in loose' \/ \E t \in Process : /\ service'[t].child = r
                                                               /\ service'[t].seen
    BY <2>0 DEF CloudRun, Seen
  <2>1. /\ r \in Key
        /\ \/ runner[r].at \in Connecting
           \/ runner[r].at \in Over /\ (r \in loose \/ Seen(r))
    BY <1>3 DEF CloudRun, ReachInv, ReachTypes
  <2>2. CASE runner[r].at \in Connecting
    BY <1>2, <2>1, <2>2 DEF Connecting
  <2>3. CASE runner[r].at \in Over
    <3>1. runner'[r].at \in Over
      BY <1>2, <2>1, <2>3 DEF Over
    <3>2. CASE r \in loose
      BY <1>2, <3>1, <3>2
    <3>3. ASSUME NEW t \in Process, service[t].child = r, service[t].seen
          PROVE  r \in loose' \/ \E u \in Process : service'[u].child = r /\ service'[u].seen
      <4>1. runner[r].parent = t /\ runner[r].at = "exited"
        BY <1>3, <2>1, <2>3, <3>3, ReachAssumption DEF ServeHas, Over
      <4>2. CASE t = s
        BY <1>2, <4>1, <4>2
      <4>3. CASE t # s
        BY <1>1, <3>3, <4>3
      <4>4. QED
        BY <4>2, <4>3
    <3>4. QED
      BY <2>1, <2>3, <3>1, <3>2, <3>3 DEF Seen, Connecting, Over
  <2>4. QED
    BY <2>1, <2>2, <2>3
<1>12. QED
  BY <1>4, <1>6, <1>7, <1>8, <1>9, <1>10, <1>11 DEF ReachInv

\* The record an ended service leaves.
LEMMA EndedRow ==
  ASSUME ReachInv, NEW s \in Process, NEW code \in ExitCode
  PROVE  LET rec == Reach!EndedServe(s, code)
         IN /\ rec \in ServeRow /\ rec.child = Nothing /\ rec.at \in {"off", "exited"}
            /\ rec.seen = FALSE
            /\ service[s].parent \in Consent => rec.parent = service[s].parent /\ rec.at = "exited"
            /\ service[s].parent \notin Consent => rec.parent = Nothing
<1>1. service[s] \in ServeRow
  BY DEF ReachInv, ReachTypes
<1>2. CASE service[s].parent \in Consent
  <2> DEFINE rec == [Reach!NoServe EXCEPT !.at = "exited", !.code = code,
                                          !.parent = service[s].parent]
  <2>1. /\ rec \in ServeRow /\ rec.child = Nothing /\ rec.at = "exited"
        /\ rec.parent = service[s].parent /\ rec.seen = FALSE
    BY <1>1 DEF ServeRow, ExitCode, Reach!NoServe
  <2>2. QED
    BY <1>2, <2>1 DEF Reach!EndedServe
<1>3. CASE service[s].parent \notin Consent
  <2>1. /\ Reach!NoServe \in ServeRow /\ Reach!NoServe.child = Nothing
        /\ Reach!NoServe.at = "off" /\ Reach!NoServe.parent = Nothing
        /\ Reach!NoServe.seen = FALSE
    BY DEF ServeRow, ExitCode, Reach!NoServe
  <2>2. QED
    BY <1>3, <2>1 DEF Reach!EndedServe
<1>4. QED
  BY <1>2, <1>3

\* A step of a service that leaves its parent as it is, or forgets one that is gone.
LEMMA ParentsKeep ==
  ASSUME ReachInv, NEW s \in Process, NEW rec \in ServeRow,
         service' = [service EXCEPT ![s] = rec], UNCHANGED watch,
         service[s].parent \in Consent \/ rec.parent \in Consent =>
             rec.parent = service[s].parent /\ rec.at # "off"
  PROVE  WatchHas' /\ ServeKnown'
<1>1. /\ service'[s] = rec
      /\ \A t \in Process : t # s => service'[t] = service[t]
  BY DEF ReachInv, ReachTypes
<1>2. WatchHas'
  <2> SUFFICES ASSUME NEW v \in Consent, watch[v].at \in WithChild
               PROVE  /\ watch[v].child \in Process
                      /\ service'[watch[v].child].parent = v
                      /\ service'[watch[v].child].at # "off"
    BY DEF ReachInv, WatchHas
  <2>1. /\ watch[v].child \in Process /\ service[watch[v].child].parent = v
        /\ service[watch[v].child].at # "off"
    BY DEF ReachInv, WatchHas
  <2>2. QED
    BY <1>1, <2>1
<1>3. ServeKnown'
  <2> SUFFICES ASSUME NEW t \in Process, service'[t].parent \in Consent
               PROVE  watch[service'[t].parent].child = t
    BY DEF ServeKnown
  <2>1. service[t].parent = service'[t].parent
    BY <1>1
  <2>2. QED
    BY <2>1 DEF ReachInv, ServeKnown
<1>4. QED
  BY <1>2, <1>3

\* The kill of a service, by anybody or by its supervisor.
LEMMA KillServeKeeps ==
  ASSUME ReachInv, NEW s \in Process, Reach!KillServe(s)
  PROVE  ReachInv'
<1>1. PICK rec : rec = Reach!EndedServe(s, "bad")
  OBVIOUS
<1>2. /\ rec \in ServeRow /\ rec.child = Nothing /\ rec.at \in {"off", "exited"}
      /\ rec.seen = FALSE
      /\ service[s].parent \in Consent => rec.parent = service[s].parent /\ rec.at = "exited"
      /\ service[s].parent \notin Consent => rec.parent = Nothing
  BY <1>1, EndedRow DEF ExitCode
<1>3. /\ service' = [service EXCEPT ![s] = rec] /\ UNCHANGED watch
      /\ Reach!DeadServe(s) /\ locks' = Reach!Drop(Reach!Locks, s)
  BY <1>1 DEF Reach!KillServe
<1>4. WatchHas' /\ ServeKnown'
  BY <1>2, <1>3, ParentsKeep, ReachAssumption
<1>5. watch' \in [Consent -> WatchRow]
  BY <1>3 DEF ReachInv, ReachTypes
<1>6. QED
  BY <1>2, <1>3, <1>4, <1>5, DropKeeps, DeadKeeps

LEMMA KillChildKeeps ==
  ASSUME ReachInv, NEW w \in Consent, Reach!KillChild(w)
  PROVE  ReachInv'
<1>1. PICK s : s = watch[w].child
  OBVIOUS
<1>2. /\ watch[w].at \in WithChild /\ s \in Process
      /\ watch' = [watch EXCEPT ![w] = Reach!NoWatch]
      /\ service' = [service EXCEPT ![s] = Reach!NoServe] /\ Reach!DeadServe(s)
      /\ locks' = [l \in Reach!Locks |-> IF locks[l] \in {w, s} THEN Nothing ELSE locks[l]]
  BY <1>1 DEF Reach!KillChild, ReachInv, WatchHas, WithChild
<1>3. /\ Reach!NoWatch \in WatchRow /\ Reach!NoWatch.child = Nothing
      /\ Reach!NoWatch.at = "off"
  BY DEF WatchRow, Reach!NoWatch
<1>4. /\ Reach!NoServe \in ServeRow /\ Reach!NoServe.child = Nothing
      /\ Reach!NoServe.at = "off" /\ Reach!NoServe.parent = Nothing
      /\ Reach!NoServe.seen = FALSE
  BY DEF ServeRow, ExitCode, Reach!NoServe
<1>5. /\ watch' \in [Consent -> WatchRow] /\ watch'[w] = Reach!NoWatch
      /\ \A v \in Consent : v # w => watch'[v] = watch[v]
  BY <1>2, <1>3 DEF ReachInv, ReachTypes
<1>6. /\ service'[s] = Reach!NoServe
      /\ \A t \in Process : t # s => service'[t] = service[t]
  BY <1>2 DEF ReachInv, ReachTypes
<1>7. KeptBut(s)
  BY <1>2, ReachAssumption DEF KeptBut
<1>8. WatchHas'
  <2> SUFFICES ASSUME NEW v \in Consent, v # w, watch[v].at \in WithChild
               PROVE  /\ watch[v].child \in Process
                      /\ service'[watch[v].child].parent = v
                      /\ service'[watch[v].child].at # "off"
    BY <1>3, <1>5 DEF ReachInv, WatchHas, WithChild
  <2>1. /\ watch[v].child \in Process /\ service[watch[v].child].parent = v
        /\ service[watch[v].child].at # "off"
    BY DEF ReachInv, WatchHas
  <2>2. service[s].parent = w
    BY <1>1, <1>2 DEF ReachInv, WatchHas
  <2>3. QED
    BY <1>6, <2>1, <2>2
<1>9. ServeKnown'
  <2> SUFFICES ASSUME NEW t \in Process, service'[t].parent \in Consent
               PROVE  watch'[service'[t].parent].child = t
    BY DEF ServeKnown
  <2>1. t # s /\ service'[t] = service[t]
    BY <1>4, <1>6, ReachAssumption
  <2>2. watch[service[t].parent].child = t
    BY <2>1 DEF ReachInv, ServeKnown
  <2>3. service[t].parent # w
    BY <1>1, <2>1, <2>2
  <2>4. QED
    BY <1>5, <2>1, <2>2, <2>3
<1>10. QED
  BY <1>2, <1>4, <1>5, <1>7, <1>8, <1>9, DeadKeeps

\* A service without a runner goes on.
LEMMA ServeAloneKeeps ==
  ASSUME ReachInv, NEW s \in Process, service[s].child = Nothing,
         NEW rec \in ServeRow, rec.child = Nothing, rec.at \notin Looking, ~rec.seen,
         Reach!OnlyServe(s, rec), KeptBut(s),
         service[s].parent \in Consent \/ rec.parent \in Consent =>
             rec.parent = service[s].parent /\ rec.at # "off",
         rec.at \in {"up", "closing"} => locks'["server"] = s
  PROVE  ReachInv'
<1>1. /\ service' = [service EXCEPT ![s] = rec]
      /\ UNCHANGED <<watch, runner, cloud, loose, saved>>
  BY DEF Reach!OnlyServe
<1>2. /\ service' \in [Process -> ServeRow] /\ service'[s] = rec
      /\ \A t \in Process : t # s => service'[t] = service[t]
  BY <1>1 DEF ReachInv, ReachTypes
<1>3. ServeHas /\ RunnerKnown /\ Stopping /\ ServerLock /\ TunnelLock /\ CloudRun
  BY DEF ReachInv
<1>4. ReachTypes' /\ WatchHas' /\ ServeKnown'
  BY <1>1, <1>2, ParentsKeep DEF ReachInv, ReachTypes
<1>5. ServeHas'
  BY <1>1, <1>2, <1>3 DEF ServeHas
<1>6. \A r \in Key : runner[r].parent # s
  BY <1>3, ReachAssumption DEF RunnerKnown
<1>7. RunnerKnown'
  BY <1>1, <1>2, <1>3, <1>6 DEF RunnerKnown
<1>8. Stopping'
  BY <1>1, <1>2, <1>3 DEF Stopping
<1>9. ServerLock'
  BY <1>1, <1>2, <1>3 DEF ServerLock, Fronting, Looking, KeptBut, Reach!Locks, Reach!Startup
<1>10. TunnelLock'
  BY <1>1, <1>3, ReachAssumption
     DEF TunnelLock, KeptBut, Reach!Locks, Reach!Startup
<1>11. CloudRun'
  <2>1. ~service[s].seen
    BY <1>3 DEF Stopping
  <2>2. QED
    BY <1>1, <1>2, <2>1, SeenKeeps DEF ReachInv
<1>12. QED
  BY <1>4, <1>5, <1>7, <1>8, <1>9, <1>10, <1>11 DEF ReachInv

\* A service without a runner ends.
LEMMA ExitKeeps ==
  ASSUME ReachInv, NEW s \in Process, service[s].child = Nothing,
         NEW code \in ExitCode, Reach!ServeExits(s, code)
  PROVE  ReachInv'
<1>1. PICK rec : rec = Reach!EndedServe(s, code)
  OBVIOUS
<1>2. /\ rec \in ServeRow /\ rec.child = Nothing /\ rec.at \in {"off", "exited"}
      /\ rec.seen = FALSE
      /\ service[s].parent \in Consent => rec.parent = service[s].parent /\ rec.at = "exited"
      /\ service[s].parent \notin Consent => rec.parent = Nothing
  BY <1>1, EndedRow
<1>3. Reach!OnlyServe(s, rec) /\ KeptBut(s)
  BY <1>1, DropKeeps DEF Reach!ServeExits
<1>4. QED
  BY <1>2, <1>3, ServeAloneKeeps, ReachAssumption DEF Looking

\* The steps of a service that has no runner.
LEMMA ServeStepsAlone ==
  ASSUME ReachInv, NEW s \in Process,
         \/ Reach!ServeByHand(s) \/ Reach!EnterServe(s) \/ Reach!Preflight(s)
         \/ Reach!Bind(s) \/ Reach!Unwind(s) \/ Reach!CloseService(s)
  PROVE  ReachInv'
<1>0. service[s] \in ServeRow
  BY DEF ReachInv, ReachTypes
<1>a. ASSUME UNCHANGED locks PROVE KeptBut(s)
  BY <1>a DEF KeptBut
<1>b. ASSUME Reach!Open({"httpWatch"}), locks' = Reach!Take({"httpWatch"}, s) PROVE KeptBut(s)
  BY <1>b, TakeKeeps DEF Kept, KeptBut
<1>1. CASE Reach!ServeByHand(s)
  <2>1. PICK k \in {"remote", "http"} :
           Reach!OnlyServe(s, [Reach!NoServe EXCEPT !.kind = k, !.at = "start", !.parent = "hand"])
    BY <1>1 DEF Reach!ServeByHand
  <2> DEFINE rec == [Reach!NoServe EXCEPT !.kind = k, !.at = "start", !.parent = "hand"]
  <2>2. /\ rec \in ServeRow /\ rec.child = Nothing /\ rec.at = "start"
        /\ rec.parent = "hand" /\ rec.seen = FALSE
    BY DEF ServeRow, ExitCode, Reach!NoServe
  <2>3. service[s].child = Nothing /\ service[s].at = "off" /\ KeptBut(s)
    BY <1>1, <1>a DEF Reach!ServeByHand, ReachInv, ServeHas, Fronting
  <2>4. service[s].parent \notin Consent
    BY <2>3, ReachAssumption DEF ReachInv, ServeKnown, WatchHas
  <2> HIDE DEF rec
  <2>5. QED
    BY <2>1, <2>2, <2>3, <2>4, ServeAloneKeeps, ReachAssumption DEF rec, Looking
<1>2. ASSUME service[s].child = Nothing, service[s].at # "off", KeptBut(s),
             NEW at \in {"preflight", "bind", "up"}, at = "up" => locks'["server"] = s,
             Reach!OnlyServe(s, [service[s] EXCEPT !.at = at])
      PROVE  ReachInv'
  <2> DEFINE rec == [service[s] EXCEPT !.at = at]
  <2>1. /\ rec \in ServeRow /\ rec.child = Nothing /\ rec.at = at
        /\ rec.parent = service[s].parent /\ rec.seen = service[s].seen
    BY <1>0, <1>2 DEF ServeRow
  <2>2. ~service[s].seen
    BY <1>2 DEF ReachInv, Stopping
  <2>3. QED
    BY <1>2, <2>1, <2>2, ServeAloneKeeps DEF Looking
<1>3. CASE Reach!EnterServe(s)
  <2>1. service[s].child = Nothing /\ service[s].at # "off"
    BY <1>3 DEF Reach!EnterServe, ReachInv, ServeHas, Fronting
  <2>2. QED
    BY <1>3, <1>2, <1>a, <1>b, <2>1, ExitKeeps DEF Reach!EnterServe, ExitCode
<1>4. CASE Reach!Preflight(s)
  <2>1. service[s].child = Nothing /\ service[s].at # "off"
    BY <1>4 DEF Reach!Preflight, ReachInv, ServeHas, Fronting
  <2>2. QED
    BY <1>4, <1>2, <1>a, <2>1, ExitKeeps DEF Reach!Preflight, ExitCode
<1>5. CASE Reach!Bind(s)
  <2>1. service[s].child = Nothing /\ service[s].at # "off"
    BY <1>5 DEF Reach!Bind, ReachInv, ServeHas, Fronting
  <2>2. ASSUME Reach!Open({"server"}), locks' = Reach!Take({"server"}, s)
        PROVE  KeptBut(s) /\ locks'["server"] = s
    BY <2>2, TakeKeeps DEF Kept, KeptBut, Reach!Locks, Reach!Startup
  <2>3. QED
    BY <1>5, <1>2, <2>1, <2>2, ExitKeeps DEF Reach!Bind, ExitCode
<1>6. CASE Reach!Unwind(s) \/ Reach!CloseService(s)
  <2>1. service[s].child = Nothing
    BY <1>6 DEF Reach!Unwind, Reach!CloseService, ReachInv, ServeHas, Fronting
  <2>2. service[s].code \in ExitCode /\ "ok" \in ExitCode
    BY <1>0 DEF ServeRow, ExitCode
  <2>3. QED
    BY <1>6, <2>1, <2>2, ExitKeeps DEF Reach!Unwind, Reach!CloseService
<1>7. QED
  BY <1>1, <1>3, <1>4, <1>5, <1>6

\* A service and its runner change together.
LEMMA PairKeeps ==
  ASSUME ReachInv, NEW s \in Process, NEW r \in Key,
         NEW rec \in ServeRow, NEW row \in RunnerRow,
         service' = [service EXCEPT ![s] = rec], runner' = [runner EXCEPT ![r] = row],
         service[s].at \in Fronting, service[s].child \in {r, Nothing},
         runner[r].parent \in Process => runner[r].parent = s,
         rec.at \in Fronting \cup {"closing"}, rec.parent = service[s].parent,
         IF rec.child = Nothing THEN row.parent \notin Process /\ rec.at \notin Looking
         ELSE /\ rec.child = r /\ rec.at \in Fronting /\ rec.kind = "remote"
              /\ row.parent = s /\ row.at # "off",
         rec.seen => rec.at \in Looking,
         rec.at \in Looking /\ r \in cloud => rec.seen \/ r \in loose,
         row.at \in Tokened \cup {"loop"} =>
             row.at = runner[r].at /\ row.token = runner[r].token,
         r \in cloud' => \/ row.at \in Connecting
                         \/ row.at \in Over /\ (r \in loose \/ (rec.child = r /\ rec.seen)),
         cloud' \subseteq cloud, loose \subseteq cloud', KeptBut(r),
         row.at = runner[r].at \/ row.at \in Over \cup {"start"},
         UNCHANGED <<watch, loose, saved>>, locks'["tunnel"] = locks["tunnel"] \/ row.at \in Over
  PROVE  ReachInv'
<1>1. /\ service' \in [Process -> ServeRow] /\ service'[s] = rec
      /\ \A t \in Process : t # s => service'[t] = service[t]
  BY DEF ReachInv, ReachTypes
<1>2. /\ runner' \in [Key -> RunnerRow] /\ runner'[r] = row
      /\ \A q \in Key : q # r => runner'[q] = runner[q]
  BY DEF ReachInv, ReachTypes
<1>3. ServeHas /\ RunnerKnown /\ Stopping /\ ServerLock /\ TunnelLock /\ CloudRun
  BY DEF ReachInv
<1>4. ReachTypes'
  BY <1>1, <1>2 DEF ReachInv, ReachTypes
<1>5. WatchHas' /\ ServeKnown'
  BY ParentsKeep DEF Fronting
<1>6. \A t \in Process : t # s /\ service[t].child # Nothing =>
         service[t].child \in Key /\ service[t].child # r
  <2> SUFFICES ASSUME NEW t \in Process, t # s, service[t].child # Nothing
               PROVE  service[t].child \in Key /\ service[t].child # r
    OBVIOUS
  <2>1. runner[service[t].child].parent = t
    BY <1>3 DEF ServeHas
  <2>2. service[t].child \in Key
    BY DEF ReachInv, ReachTypes, ServeRow
  <2>3. QED
    BY <2>1, <2>2
<1>7. ServeHas'
  <2> SUFFICES ASSUME NEW t \in Process, service'[t].child # Nothing
               PROVE  /\ service'[t].at \in Fronting /\ service'[t].kind = "remote"
                      /\ runner'[service'[t].child].parent = t
                      /\ runner'[service'[t].child].at # "off"
    BY DEF ServeHas
  <2>1. CASE t = s
    BY <1>1, <1>2, <2>1
  <2>2. CASE t # s
    BY <1>1, <1>2, <1>3, <1>6, <2>2 DEF ServeHas
  <2>3. QED
    BY <2>1, <2>2
<1>8. RunnerKnown'
  <2> SUFFICES ASSUME NEW q \in Key, runner'[q].parent \in Process
               PROVE  service'[runner'[q].parent].child = q
    BY DEF RunnerKnown
  <2>1. CASE q = r
    BY <1>1, <1>2, <2>1
  <2>2. CASE q # r
    <3>1. runner'[q] = runner[q] /\ service[runner[q].parent].child = q
      BY <1>2, <1>3, <2>2 DEF RunnerKnown
    <3>2. runner[q].parent # s
      BY <3>1, <2>2, ReachAssumption
    <3>3. QED
      BY <1>1, <3>1, <3>2
  <2>3. QED
    BY <2>1, <2>2
<1>9. Stopping'
  <2> SUFFICES ASSUME NEW t \in Process
               PROVE  /\ service'[t].seen => service'[t].at \in Looking
                      /\ service'[t].at \in Looking =>
                          /\ service'[t].child # Nothing
                          /\ service'[t].child \in cloud' =>
                                 service'[t].seen \/ service'[t].child \in loose'
    BY DEF Stopping
  <2>1. CASE t = s
    BY <1>1, <2>1
  <2>2. CASE t # s
    BY <1>1, <1>3, <1>6, <2>2 DEF Stopping
  <2>3. QED
    BY <2>1, <2>2
<1>10. ServerLock'
  <2>1. \A t \in Process : service'[t].at \in Fronting \cup {"closing"} =>
           service[t].at \in Fronting \cup {"closing"} /\ t # r
    BY <1>1, ReachAssumption
  <2>2. QED
    BY <1>3, <2>1 DEF ServerLock, KeptBut, Reach!Locks, Reach!Startup
<1>11. TunnelLock'
  <2> SUFFICES ASSUME NEW q \in Key, runner'[q].at \in Tokened \cup {"loop"}
               PROVE  /\ locks'["tunnel"] = q
                      /\ runner'[q].at \in Tokened => runner'[q].token = saved
    BY DEF TunnelLock
  <2>1. CASE q = r
    BY <1>2, <1>3, <2>1 DEF TunnelLock, Tokened, Connecting, Over
  <2>2. CASE q # r
    BY <1>2, <1>3, <2>2 DEF TunnelLock, KeptBut, Reach!Locks, Reach!Startup
  <2>3. QED
    BY <2>1, <2>2
<1>12. CloudRun'
  <2> SUFFICES ASSUME NEW q \in Key, q \in cloud'
               PROVE  \/ runner'[q].at \in Connecting
                      \/ /\ runner'[q].at \in Over
                         /\ q \in loose' \/ \E t \in Process : /\ service'[t].child = q
                                                               /\ service'[t].seen
    BY <1>4 DEF CloudRun, Seen, ReachTypes
  <2>1. CASE q = r
    BY <1>1, <1>2, <2>1
  <2>2. CASE q # r
    <3>1. /\ q \in cloud /\ runner'[q] = runner[q]
          /\ \/ runner[q].at \in Connecting
             \/ runner[q].at \in Over /\ (q \in loose \/ Seen(q))
      BY <1>2, <1>3, <2>2 DEF CloudRun
    <3>2. \A t \in Process : service[t].child = q => service'[t] = service[t]
      BY <1>1, <2>2, ReachAssumption
    <3>3. QED
      BY <3>1, <3>2 DEF Seen
  <2>3. QED
    BY <2>1, <2>2
<1>13. QED
  BY <1>4, <1>5, <1>7, <1>8, <1>9, <1>10, <1>11, <1>12 DEF ReachInv

\* The steps of a service and its runner.
LEMMA PairStepsKeep ==
  ASSUME ReachInv, NEW s \in Process,
         \/ Reach!SpawnRunner(s) \/ Reach!RunnerEnded(s)
         \/ Reach!LookUp(s) \/ Reach!StopConnector(s)
         \/ Reach!KillStuck(s) \/ Reach!EndDescendants(s)
  PROVE  ReachInv'
<1> USE DEF Fronting
<1>0. /\ service \in [Process -> ServeRow] /\ service[s] \in ServeRow
      /\ runner \in [Key -> RunnerRow]
  BY DEF ReachInv, ReachTypes
<1>a. /\ Reach!NoRunner \in RunnerRow /\ Reach!NoRunner.parent = Nothing
      /\ Reach!NoRunner.at = "off"
  BY DEF RunnerRow, ExitCode, Reach!NoRunner
<1>b. UNCHANGED locks => \A r \in Key : KeptBut(r)
  BY DEF KeptBut
<1>1. CASE Reach!SpawnRunner(s)
  <2>1. /\ service[s].at = "up" /\ service[s].kind = "remote" /\ service[s].child = Nothing
        /\ ~service[s].seen
    BY <1>1 DEF Reach!SpawnRunner, ReachInv, Stopping, Looking
  <2>2. ASSUME NEW r \in Key, runner[r].at = "off", r \notin cloud,
               runner' = [runner EXCEPT ![r] =
                   [Reach!NoRunner EXCEPT !.at = "start", !.parent = s]],
               service' = [service EXCEPT ![s].child = r],
               UNCHANGED <<locks, watch, cloud, loose, saved>>
        PROVE  ReachInv'
    <3> DEFINE row == [Reach!NoRunner EXCEPT !.at = "start", !.parent = s]
               rec == [service[s] EXCEPT !.child = r]
    <3>1. row \in RunnerRow /\ row.parent = s /\ row.at = "start"
      BY DEF RunnerRow, ExitCode, Reach!NoRunner
    <3>2. /\ rec \in ServeRow /\ rec.child = r /\ rec.at = "up" /\ rec.kind = "remote"
          /\ rec.parent = service[s].parent /\ rec.seen = service[s].seen
      BY <1>0, <2>1 DEF ServeRow
    <3>3. /\ service' = [service EXCEPT ![s] = rec] /\ runner' = [runner EXCEPT ![r] = row]
          /\ locks' = locks /\ watch' = watch /\ cloud' = cloud /\ saved' = saved
          /\ loose' = loose
      BY <1>0, <2>2
    <3> HIDE DEF row, rec
    <3>4. runner[r].parent \notin Process /\ r # Nothing /\ loose \subseteq cloud
      BY <2>2, ReachAssumption DEF ReachInv, ReachTypes, RunnerKnown, ServeHas
    <3>5. KeptBut(r)
      BY <1>b, <2>2
    <3>6. ~rec.seen /\ row.at = "start" /\ row.at \notin Tokened \cup {"loop"}
      BY <2>1, <3>1, <3>2 DEF Connecting, Tokened
    <3>7. r \notin cloud /\ r \notin cloud'
      BY <2>2, <3>3
    <3>8. rec.at \in Fronting \cup {"closing"} /\ rec.at \notin Looking
      BY <3>2 DEF Looking
    <3>9. row.at \in Over \cup {"start"} /\ cloud' \subseteq cloud /\ loose \subseteq cloud'
      BY <3>1, <3>3, <3>4
    <3>10. QED
      BY <2>1, <3>1, <3>2, <3>3, <3>4, <3>5, <3>6, <3>7, <3>8, <3>9, PairKeeps
  <2>3. ASSUME Reach!OnlyServe(s, [service[s] EXCEPT !.at = "closing", !.code = "bad"]),
               UNCHANGED locks
        PROVE  ReachInv'
    <3> DEFINE rec == [service[s] EXCEPT !.at = "closing", !.code = "bad"]
    <3>1. /\ rec \in ServeRow /\ rec.child = Nothing /\ rec.at = "closing"
          /\ rec.parent = service[s].parent /\ rec.seen = service[s].seen
      BY <1>0, <2>1 DEF ServeRow, ExitCode
    <3>2. locks'["server"] = s /\ KeptBut(s)
      BY <2>1, <2>3 DEF ReachInv, ServerLock, KeptBut
    <3>3. QED
      BY <2>1, <2>3, <3>1, <3>2, ServeAloneKeeps DEF Looking
  <2>4. QED
    BY <1>1, <2>2, <2>3 DEF Reach!SpawnRunner
<1>2. CASE Reach!RunnerEnded(s)
  <2>1. PICK r \in Key : r = service[s].child
    BY <1>0, <1>2 DEF Reach!RunnerEnded, ServeRow
  <2>2. /\ service[s].at = "up" /\ ~service[s].seen /\ r # Nothing /\ runner[r].at = "exited"
        /\ UNCHANGED <<locks, watch, cloud, loose, saved>>
    BY <1>2, <2>1 DEF Reach!RunnerEnded, ReachInv, Stopping, Looking
  <2> DEFINE rec == [service[s] EXCEPT !.at = "closing", !.code = runner[r].code,
                                       !.child = Nothing]
             row == Reach!NoRunner
  <2>3. /\ rec \in ServeRow /\ rec.child = Nothing /\ rec.at = "closing"
        /\ rec.parent = service[s].parent /\ rec.seen = service[s].seen
    BY <1>0 DEF ServeRow, RunnerRow
  <2>4. service' = [service EXCEPT ![s] = rec] /\ runner' = [runner EXCEPT ![r] = row]
    BY <1>0, <1>2, <2>1 DEF Reach!RunnerEnded
  <2>5. /\ runner[r].parent = s /\ row.parent \notin Process /\ loose \subseteq cloud
        /\ r \in cloud => r \in loose
    <3>1. /\ runner[r].parent = s /\ row.parent \notin Process /\ loose \subseteq cloud
      BY <1>a, <2>1, <2>2, ReachAssumption DEF ReachInv, ReachTypes, ServeHas
    <3>2. ~Seen(r)
      BY <2>1, <2>2, <3>1 DEF ReachInv, ServeHas, Seen
    <3>3. r \in cloud => r \in loose
      BY <2>2, <3>2 DEF ReachInv, CloudRun, Connecting
    <3>4. QED
      BY <3>1, <3>3
  <2>6. KeptBut(r)
    BY <1>b, <2>2
  <2> HIDE DEF rec, row
  <2>7. row \in RunnerRow /\ row.at = "off"
    BY <1>a DEF row
  <2>8. QED
    BY <2>1, <2>2, <2>3, <2>4, <2>5, <2>6, <2>7, PairKeeps
       DEF Connecting, Tokened, Looking, Over
<1>3. CASE Reach!LookUp(s)
  <2>1. PICK r \in Key : r = service[s].child
    BY <1>0, <1>3 DEF Reach!LookUp, ServeRow
  <2>2. /\ service[s].at = "up" /\ ~service[s].seen /\ r # Nothing
        /\ UNCHANGED <<locks, watch, runner, cloud, loose, saved>>
    BY <1>3, <2>1 DEF Reach!LookUp, ReachInv, Stopping, Looking
  <2>b. PICK b \in BOOLEAN : b = (Reach!LiveRunner(r) /\ r \in cloud)
    <3>1. CASE Reach!LiveRunner(r) /\ r \in cloud
      BY <3>1, TRUE = (Reach!LiveRunner(r) /\ r \in cloud)
    <3>2. CASE ~(Reach!LiveRunner(r) /\ r \in cloud)
      BY <3>2, FALSE = (Reach!LiveRunner(r) /\ r \in cloud)
    <3>3. QED
      BY <3>1, <3>2
  <2> DEFINE rec == [service[s] EXCEPT !.at = "looked", !.seen = b, !.code = "ok"]
             row == runner[r]
  <2>3. /\ rec \in ServeRow /\ rec.child = r /\ rec.at = "looked"
        /\ rec.parent = service[s].parent /\ rec.kind = service[s].kind
        /\ rec.seen = b
    BY <1>0, <2>1 DEF ServeRow, ExitCode
  <2>4. row \in RunnerRow
    BY <1>0
  <2>5. service' = [service EXCEPT ![s] = rec] /\ runner' = [runner EXCEPT ![r] = row]
    BY <1>0, <1>3, <2>1, <2>2, <2>b DEF Reach!LookUp
  <2>6. /\ runner[r].parent = s /\ runner[r].at # "off" /\ service[s].kind = "remote"
        /\ loose \subseteq cloud
    BY <2>1, <2>2 DEF ReachInv, ReachTypes, ServeHas
  <2>7. r \in cloud => \/ runner[r].at \in Connecting /\ b
                       \/ runner[r].at \in Over /\ r \in loose
    <3>1. ~Seen(r)
      BY <2>1, <2>2, <2>6 DEF ReachInv, ServeHas, Seen
    <3>2. r \in cloud => \/ runner[r].at \in Connecting
                         \/ runner[r].at \in Over /\ r \in loose
      BY <3>1 DEF ReachInv, CloudRun
    <3>3. QED
      BY <2>b, <3>2 DEF Reach!LiveRunner, Connecting
  <2>8. KeptBut(r)
    BY <1>b, <2>2
  <2> HIDE DEF rec
  <2>9. QED
    BY <2>1, <2>2, <2>3, <2>4, <2>5, <2>6, <2>7, <2>8, PairKeeps DEF Looking
<1>4. ASSUME service[s].at \in Looking
      PROVE  /\ service[s].child \in Key /\ service[s].child # Nothing
             /\ runner[service[s].child].parent = s /\ runner[service[s].child].at # "off"
             /\ service[s].kind = "remote" /\ loose \subseteq cloud
             /\ service[s].child \in cloud => \/ service[s].seen
                                              \/ service[s].child \in loose
  BY <1>0, <1>4 DEF ReachInv, ReachTypes, Stopping, ServeHas, ServeRow
<1>5. CASE Reach!StopConnector(s)
  <2>1. service[s].at = "looked" /\ UNCHANGED <<locks, watch, cloud, loose, saved>>
    BY <1>5 DEF Reach!StopConnector
  <2>2. PICK r \in Key : r = service[s].child
    BY <1>4, <2>1 DEF Looking
  <2>b. PICK b \in BOOLEAN : b = (runner[r].sig \/ Reach!LiveRunner(r))
    <3>1. CASE runner[r].sig \/ Reach!LiveRunner(r)
      BY <3>1, TRUE = (runner[r].sig \/ Reach!LiveRunner(r))
    <3>2. CASE ~(runner[r].sig \/ Reach!LiveRunner(r))
      BY <3>2, FALSE = (runner[r].sig \/ Reach!LiveRunner(r))
    <3>3. QED
      BY <3>1, <3>2
  <2> DEFINE rec == [service[s] EXCEPT !.at = "stopping"]
             row == [runner[r] EXCEPT !.sig = b]
  <2>3. /\ rec \in ServeRow /\ rec.child = r /\ rec.at = "stopping"
        /\ rec.parent = service[s].parent /\ rec.kind = service[s].kind
        /\ rec.seen = service[s].seen
    BY <1>0, <2>2 DEF ServeRow
  <2>4. /\ row \in RunnerRow /\ row.at = runner[r].at
        /\ row.parent = runner[r].parent /\ row.token = runner[r].token
    BY <1>0 DEF RunnerRow
  <2>5. service' = [service EXCEPT ![s] = rec] /\ runner' = [runner EXCEPT ![r] = row]
    BY <1>0, <1>5, <2>2, <2>b DEF Reach!StopConnector
  <2>6. /\ runner[r].parent = s /\ runner[r].at # "off" /\ service[s].kind = "remote"
        /\ r # Nothing /\ loose \subseteq cloud
        /\ r \in cloud => service[s].seen \/ r \in loose
    BY <1>4, <2>1, <2>2 DEF Looking
  <2>7. r \in cloud => runner[r].at \in Connecting \cup Over
    BY DEF ReachInv, CloudRun
  <2>8. KeptBut(r)
    BY <1>b, <2>1
  <2> HIDE DEF rec, row
  <2>9. QED
    BY <2>1, <2>2, <2>3, <2>4, <2>5, <2>6, <2>7, <2>8, PairKeeps DEF Looking
<1>6. CASE Reach!KillStuck(s)
  <2>1. /\ service[s].at = "stopping" /\ UNCHANGED <<watch, service, cloud, loose, saved>>
        /\ locks' = Reach!Drop(Reach!Locks, service[s].child)
    BY <1>6 DEF Reach!KillStuck
  <2>2. PICK r \in Key : r = service[s].child
    BY <1>4, <2>1 DEF Looking
  <2>3. /\ runner[r].parent = s /\ service[s].kind = "remote" /\ r # Nothing
        /\ loose \subseteq cloud
        /\ r \in cloud => service[s].seen \/ r \in loose
    BY <1>4, <2>1, <2>2 DEF Looking
  <2> DEFINE rec == service[s]
             row == [Reach!NoRunner EXCEPT !.at = "exited", !.code = "bad", !.parent = s]
  <2>4. row \in RunnerRow /\ row.at = "exited" /\ row.parent = s
    BY DEF RunnerRow, ExitCode, Reach!NoRunner
  <2>5. service' = [service EXCEPT ![s] = rec] /\ runner' = [runner EXCEPT ![r] = row]
    BY <1>0, <1>6, <2>1, <2>2, <2>3 DEF Reach!KillStuck, Reach!EndedRunner
  <2>6. KeptBut(r)
    BY <2>1, <2>2, DropKeeps
  <2>7. rec \in ServeRow /\ rec.at = "stopping" /\ rec.child = r
    BY <1>0, <2>1, <2>2
  <2> HIDE DEF row
  <2>8. QED
    BY <2>1, <2>2, <2>3, <2>4, <2>5, <2>6, <2>7, PairKeeps
       DEF Looking, Tokened, Connecting, Over
<1>7. CASE Reach!EndDescendants(s)
  <2>1. /\ service[s].at = "stopping" /\ UNCHANGED <<locks, watch, loose, saved>>
    BY <1>7 DEF Reach!EndDescendants
  <2>2. PICK r \in Key : r = service[s].child
    BY <1>4, <2>1 DEF Looking
  <2> DEFINE rec == [service[s] EXCEPT !.at = "closing", !.child = Nothing, !.seen = FALSE]
             row == Reach!NoRunner
  <2>3. /\ rec \in ServeRow /\ rec.child = Nothing /\ rec.at = "closing"
        /\ rec.parent = service[s].parent /\ rec.seen = FALSE
    BY <1>0 DEF ServeRow
  <2>4. /\ service' = [service EXCEPT ![s] = rec] /\ runner' = [runner EXCEPT ![r] = row]
        /\ cloud' = cloud \ Reach!Descendants(s)
    BY <1>0, <1>7, <2>2 DEF Reach!EndDescendants
  <2>5. /\ runner[r].parent = s /\ row \in RunnerRow /\ row.at = "off"
        /\ row.parent \notin Process
        /\ loose \subseteq cloud
        /\ r \in cloud => service[s].seen \/ r \in loose
    BY <1>4, <1>a, <2>1, <2>2, ReachAssumption DEF Looking
  <2>6. /\ r \in cloud' => r \in loose
        /\ cloud' \subseteq cloud /\ loose \subseteq cloud'
    BY <2>2, <2>4, <2>5 DEF Reach!Descendants
  <2>7. KeptBut(r)
    BY <1>b, <2>1
  <2> HIDE DEF rec, row
  <2>8. QED
    BY <2>1, <2>2, <2>3, <2>4, <2>5, <2>6, <2>7, PairKeeps
       DEF Looking, Tokened, Connecting, Over
<1>8. QED
  BY <1>1, <1>2, <1>3, <1>5, <1>6, <1>7

\* A runner goes on, or starts by hand.
LEMMA RunnerKeeps ==
  ASSUME ReachInv, NEW r \in Key, runner[r].at # "exited", NEW row \in RunnerRow,
         Reach!OnlyRunner(r, row), KeptBut(r),
         runner[r].parent \in Process \/ row.parent \in Process =>
             row.parent = runner[r].parent /\ row.at # "off",
         row.at \in Tokened \cup {"loop"} => locks'["tunnel"] = r,
         row.at \in Tokened => row.token = saved,
         cloud' \subseteq cloud \cup {r}, loose' \subseteq cloud', loose \ {r} \subseteq loose',
         \/ r \notin cloud'
         \/ row.at \in Connecting
         \/ row.at \in Over /\ (r \in loose' \/ Seen(r)),
         \/ r \notin cloud'
         \/ r \in cloud /\ loose \subseteq loose'
         \/ r \in loose' \/ ~Reach!Looked(r)
  PROVE  ReachInv'
<1>1. runner' = [runner EXCEPT ![r] = row] /\ UNCHANGED <<watch, service, saved>>
  BY DEF Reach!OnlyRunner
<1>2. /\ runner' \in [Key -> RunnerRow] /\ runner'[r] = row
      /\ \A q \in Key : q # r => runner'[q] = runner[q]
  BY <1>1 DEF ReachInv, ReachTypes
<1>3. ServeHas /\ RunnerKnown /\ Stopping /\ ServerLock /\ TunnelLock /\ CloudRun
  BY DEF ReachInv
<1>4. ReachTypes' /\ WatchHas' /\ ServeKnown'
  BY <1>1, <1>2 DEF ReachInv, ReachTypes, WatchHas, ServeKnown
<1>5. \A s \in Process : service[s].child # Nothing => service[s].child \in Key
  BY DEF ReachInv, ReachTypes, ServeRow
<1>6. ServeHas'
  <2> SUFFICES ASSUME NEW s \in Process, service[s].child # Nothing
               PROVE  /\ service[s].at \in Fronting /\ service[s].kind = "remote"
                      /\ runner'[service[s].child].parent = s
                      /\ runner'[service[s].child].at # "off"
    BY <1>1 DEF ServeHas
  <2>1. /\ service[s].at \in Fronting /\ service[s].kind = "remote"
        /\ runner[service[s].child].parent = s /\ runner[service[s].child].at # "off"
    BY <1>3 DEF ServeHas
  <2>2. QED
    BY <1>2, <1>5, <2>1
<1>7. RunnerKnown'
  <2> SUFFICES ASSUME NEW q \in Key, runner'[q].parent \in Process
               PROVE  service[runner'[q].parent].child = q
    BY <1>1 DEF RunnerKnown
  <2>1. runner'[q].parent = runner[q].parent
    BY <1>2
  <2>2. QED
    BY <1>3, <2>1 DEF RunnerKnown
<1>8. Stopping'
  <2> SUFFICES ASSUME NEW s \in Process, service[s].at \in Looking, service[s].child \in cloud'
               PROVE  service[s].seen \/ service[s].child \in loose'
    BY <1>1, <1>3 DEF Stopping
  <2>1. service[s].child \in cloud => service[s].seen \/ service[s].child \in loose
    BY <1>3 DEF Stopping
  <2>2. CASE service[s].child = r
    BY <2>1, <2>2 DEF Reach!Looked, Looking
  <2>3. CASE service[s].child # r
    BY <2>1, <2>3
  <2>4. QED
    BY <2>2, <2>3
<1>9. ServerLock'
  BY <1>1, <1>3, ReachAssumption
     DEF ServerLock, KeptBut, Reach!Locks, Reach!Startup
<1>10. TunnelLock'
  <2> SUFFICES ASSUME NEW q \in Key, runner'[q].at \in Tokened \cup {"loop"}
               PROVE  /\ locks'["tunnel"] = q
                      /\ runner'[q].at \in Tokened => runner'[q].token = saved
    BY <1>1 DEF TunnelLock
  <2>1. CASE q = r
    BY <1>2, <2>1
  <2>2. CASE q # r
    BY <1>2, <1>3, <2>2 DEF TunnelLock, KeptBut, Reach!Locks, Reach!Startup
  <2>3. QED
    BY <2>1, <2>2
<1>11. CloudRun'
  <2> SUFFICES ASSUME NEW q \in Key, q \in cloud'
               PROVE  \/ runner'[q].at \in Connecting
                      \/ runner'[q].at \in Over /\ (q \in loose' \/ Seen(q))
    BY <1>1, <1>4 DEF CloudRun, Seen, ReachTypes
  <2>1. CASE q = r
    BY <1>2, <2>1
  <2>2. CASE q # r
    BY <1>2, <1>3, <2>2 DEF CloudRun
  <2>3. QED
    BY <2>1, <2>2
<1>12. QED
  BY <1>4, <1>6, <1>7, <1>8, <1>9, <1>10, <1>11 DEF ReachInv

\* The record a runner leaves.
LEMMA EndedRunnerRow ==
  ASSUME ReachInv, NEW r \in Key, NEW code \in ExitCode
  PROVE  LET row == Reach!EndedRunner(r, code)
         IN /\ row \in RunnerRow /\ row.at \in Over
            /\ runner[r].parent \in Process => row.parent = runner[r].parent /\ row.at = "exited"
            /\ runner[r].parent \notin Process => row.parent = Nothing
<1>1. runner[r] \in RunnerRow
  BY DEF ReachInv, ReachTypes
<1>2. CASE runner[r].parent \in Process
  <2> DEFINE u == [Reach!NoRunner EXCEPT !.at = "exited", !.code = code,
                                         !.parent = runner[r].parent]
  <2>1. u \in RunnerRow /\ u.at = "exited" /\ u.parent = runner[r].parent
    BY <1>1 DEF RunnerRow, ExitCode, Reach!NoRunner
  <2>2. QED
    BY <1>2, <2>1 DEF Reach!EndedRunner, Over
<1>3. CASE runner[r].parent \notin Process
  <2>1. /\ Reach!NoRunner \in RunnerRow /\ Reach!NoRunner.parent = Nothing
        /\ Reach!NoRunner.at = "off"
    BY DEF RunnerRow, ExitCode, Reach!NoRunner
  <2>2. QED
    BY <1>3, <2>1 DEF Reach!EndedRunner, Over
<1>4. QED
  BY <1>2, <1>3

\* A runner ends: its connector ended with it, or is loose, or a service saw it.
LEMMA RunnerOverKeeps ==
  ASSUME ReachInv, NEW r \in Key, Reach!LiveRunner(r), NEW code \in ExitCode,
         Reach!OnlyRunner(r, Reach!EndedRunner(r, code)), KeptBut(r),
         cloud' \subseteq cloud \cup {r}, loose' \subseteq cloud', loose \ {r} \subseteq loose',
         r \notin cloud' \/ r \in loose' \/ (Seen(r) /\ r \in cloud /\ loose \subseteq loose')
  PROVE  ReachInv'
<1>1. PICK row : row = Reach!EndedRunner(r, code)
  OBVIOUS
<1>2. /\ row \in RunnerRow /\ row.at \in Over
      /\ runner[r].parent \in Process => row.parent = runner[r].parent /\ row.at = "exited"
      /\ runner[r].parent \notin Process => row.parent = Nothing
  BY <1>1, EndedRunnerRow
<1>3. Reach!OnlyRunner(r, row) /\ runner[r].at # "exited"
  BY <1>1 DEF Reach!LiveRunner
<1>4. row.at \notin Tokened \cup {"loop"}
  BY <1>2 DEF Over, Tokened, Connecting
<1>5. \/ r \notin cloud'
      \/ row.at \in Connecting
      \/ row.at \in Over /\ (r \in loose' \/ Seen(r))
  BY <1>2
<1>6. \/ r \notin cloud'
      \/ r \in cloud /\ loose \subseteq loose'
      \/ r \in loose' \/ ~Reach!Looked(r)
  OBVIOUS
<1>7. runner[r].parent \in Process \/ row.parent \in Process =>
          row.parent = runner[r].parent /\ row.at # "off"
  BY <1>2, ReachAssumption
<1>8. QED
  BY <1>2, <1>3, <1>4, <1>5, <1>6, <1>7, RunnerKeeps

LEMMA RunnerExitKeeps ==
  ASSUME ReachInv, NEW r \in Key, Reach!LiveRunner(r), NEW code \in ExitCode,
         Reach!RunnerExits(r, code)
  PROVE  ReachInv'
<1>1. KeptBut(r)
  BY DropKeeps DEF Reach!RunnerExits
<1>2. loose \subseteq cloud
  BY DEF ReachInv, ReachTypes
<1>3. /\ Reach!OnlyRunner(r, Reach!EndedRunner(r, code))
      /\ cloud' = cloud \ {r} /\ loose' = loose \ {r}
  BY DEF Reach!RunnerExits
<1>4. QED
  BY <1>1, <1>2, <1>3, RunnerOverKeeps

\* The steps of a runner.
LEMMA RunnerStepsKeep ==
  ASSUME ReachInv, NEW r \in Key, Reach!RunnerStep(r)
  PROVE  ReachInv'
<1> USE DEF Connecting, Tokened
<1>0. /\ runner[r] \in RunnerRow /\ "ok" \in ExitCode /\ "bad" \in ExitCode
      /\ loose \subseteq cloud
  BY DEF ReachInv, ReachTypes, ExitCode
<1>a. ASSUME UNCHANGED locks PROVE KeptBut(r)
  BY <1>a DEF KeptBut
<1>b. ASSUME NEW code \in {"ok", "bad"}, Reach!LiveRunner(r), Reach!RunnerExits(r, code)
      PROVE  ReachInv'
  BY <1>b, RunnerExitKeeps DEF ExitCode
<1>c. runner[r].at \in Tokened \cup {"loop"} => locks["tunnel"] = r
  BY DEF ReachInv, TunnelLock
<1>d. r \in cloud => runner[r].at \in Connecting \cup Over
  BY DEF ReachInv, CloudRun
<1>e. ASSUME Reach!Failure(r), runner[r].at \in {"starting", "handing", "run"} PROVE ReachInv'
  <2>1. PICK n \in {0, runner[r].failures} :
           IF n >= RestartLimit THEN Reach!RunnerExits(r, "bad")
           ELSE /\ Reach!OnlyRunner(r, [runner[r] EXCEPT !.at = "loop", !.failures = n + 1,
                                                         !.token = Nothing])
                /\ cloud' = cloud \ {r} /\ loose' = loose \ {r}
                /\ UNCHANGED locks
    BY <1>e DEF Reach!Failure
  <2>2. CASE n >= RestartLimit
    BY <1>b, <1>e, <2>1, <2>2 DEF Reach!LiveRunner
  <2>3. CASE ~(n >= RestartLimit)
    <3>1. n + 1 \in Nat
      BY <1>0 DEF RunnerRow
    <3>2. KeptBut(r) /\ locks'["tunnel"] = r
      BY <1>a, <1>c, <1>e, <2>1, <2>3
    <3> DEFINE row == [runner[r] EXCEPT !.at = "loop", !.failures = n + 1, !.token = Nothing]
    <3>3. /\ row \in RunnerRow /\ row.at = "loop" /\ row.parent = runner[r].parent
          /\ row.sig = runner[r].sig
      BY <1>0, <3>1 DEF RunnerRow
    <3>4. /\ Reach!OnlyRunner(r, row) /\ cloud' = cloud \ {r} /\ loose' = loose \ {r}
          /\ runner[r].at \notin {"off", "exited"}
      BY <1>e, <2>1, <2>3
    <3> HIDE DEF row
    <3>5. QED
      BY <1>0, <3>2, <3>3, <3>4, RunnerKeeps
  <2>4. QED
    BY <2>2, <2>3
<1>1. CASE Reach!RunByHand(r)
  <2> DEFINE row == [Reach!NoRunner EXCEPT !.at = "start", !.parent = "hand"]
  <2>1. row \in RunnerRow /\ row.at = "start" /\ row.parent = "hand"
    BY DEF RunnerRow, ExitCode, Reach!NoRunner
  <2>2. /\ runner[r].at = "off" /\ r \notin cloud /\ Reach!OnlyRunner(r, row)
        /\ KeptBut(r) /\ UNCHANGED <<cloud, loose>>
    BY <1>1, <1>a DEF Reach!RunByHand
  <2>3. runner[r].parent \notin Process
    BY <2>2, ReachAssumption DEF ReachInv, RunnerKnown, ServeHas
  <2> HIDE DEF row
  <2>4. QED
    BY <1>0, <2>1, <2>2, <2>3, RunnerKeeps, ReachAssumption
<1>2. CASE Reach!EnterRunner(r)
  <2>1. CASE Reach!RunnerExits(r, "bad")
    BY <1>2, <1>b, <2>1 DEF Reach!EnterRunner, Reach!LiveRunner
  <2>2. CASE /\ Reach!Open({"tunnel"}) /\ locks' = Reach!Take({"tunnel"}, r)
             /\ Reach!OnlyRunner(r, [runner[r] EXCEPT !.at = "loop"])
             /\ UNCHANGED <<cloud, loose>>
    <3> DEFINE row == [runner[r] EXCEPT !.at = "loop"]
    <3>1. /\ row \in RunnerRow /\ row.at = "loop" /\ row.parent = runner[r].parent
          /\ row.sig = runner[r].sig
      BY <1>0 DEF RunnerRow
    <3>2. KeptBut(r) /\ locks'["tunnel"] = r
      BY <2>2, TakeKeeps DEF Kept, KeptBut, Reach!Locks, Reach!Startup
    <3>3. runner[r].at = "start" /\ r \notin cloud
      BY <1>2, <1>d DEF Reach!EnterRunner, Over
    <3> HIDE DEF row
    <3>4. QED
      BY <1>0, <2>2, <3>1, <3>2, <3>3, RunnerKeeps DEF row
  <2>3. QED
    BY <1>2, <2>1, <2>2 DEF Reach!EnterRunner
<1>3. CASE Reach!StopRequested(r)
  BY <1>3, <1>b DEF Reach!StopRequested, Reach!LiveRunner
<1>4. CASE Reach!StartConnector(r)
  <2>1. runner[r].at = "loop" /\ locks["tunnel"] = r /\ r \notin cloud
    BY <1>4, <1>c, <1>d DEF Reach!StartConnector, Over
  <2>2. CASE /\ saved # Nothing /\ UNCHANGED <<locks, cloud, loose>>
             /\ Reach!OnlyRunner(r, [runner[r] EXCEPT !.at = "starting", !.token = saved])
    <3>1. saved \in Ticket \cup {Nothing}
      BY DEF ReachInv, ReachTypes
    <3> DEFINE row == [runner[r] EXCEPT !.at = "starting", !.token = saved]
    <3>2. /\ row \in RunnerRow /\ row.at = "starting" /\ row.token = saved
          /\ row.parent = runner[r].parent
      BY <1>0, <3>1 DEF RunnerRow
    <3> HIDE DEF row
    <3>3. QED
      BY <1>0, <1>a, <2>1, <2>2, <3>2, RunnerKeeps DEF row
  <2>3. QED
    BY <1>4, <1>b, <2>1, <2>2 DEF Reach!StartConnector, Reach!LiveRunner
<1>5. CASE Reach!Spawn(r)
  <2>1. /\ runner[r].at = "starting" /\ locks["tunnel"] = r /\ runner[r].token = saved
        /\ r \notin cloud /\ Reach!LiveRunner(r)
    BY <1>5, <1>c, <1>d DEF Reach!Spawn, ReachInv, TunnelLock, Over, Reach!LiveRunner
  <2>2. CASE /\ Reach!OnlyRunner(r, [runner[r] EXCEPT !.at = "handing"])
             /\ cloud' = cloud \cup {r} /\ UNCHANGED locks
             /\ loose' = IF Reach!Looked(r) THEN loose \cup {r} ELSE loose
    <3> DEFINE row == [runner[r] EXCEPT !.at = "handing"]
    <3>1. /\ row \in RunnerRow /\ row.at = "handing" /\ row.token = saved
          /\ row.parent = runner[r].parent
      BY <1>0, <2>1 DEF RunnerRow
    <3>2. /\ loose' \subseteq cloud' /\ loose \subseteq loose'
          /\ r \in loose' \/ ~Reach!Looked(r)
      BY <1>0, <2>2
    <3> HIDE DEF row
    <3>3. QED
      BY <1>a, <2>1, <2>2, <3>1, <3>2, RunnerKeeps DEF row
  <2>3. CASE /\ Reach!OnlyRunner(r, Reach!EndedRunner(r, "ok"))
             /\ locks' = Reach!Drop(Reach!Locks, r)
             /\ cloud' = cloud \cup {r} /\ loose' = loose \cup {r}
    BY <1>0, <2>1, <2>3, DropKeeps, RunnerOverKeeps
  <2>4. QED
    BY <1>5, <1>b, <1>e, <2>1, <2>2, <2>3 DEF Reach!Spawn
<1>6. CASE Reach!HandOver(r)
  <2>1. runner[r].at = "handing" /\ locks["tunnel"] = r /\ runner[r].token = saved
    BY <1>6, <1>c DEF Reach!HandOver, ReachInv, TunnelLock
  <2>2. CASE /\ Reach!OnlyRunner(r, [runner[r] EXCEPT !.at = "run"])
             /\ UNCHANGED <<locks, cloud, loose>>
    <3> DEFINE row == [runner[r] EXCEPT !.at = "run"]
    <3>1. /\ row \in RunnerRow /\ row.at = "run" /\ row.token = saved
          /\ row.parent = runner[r].parent /\ row.sig = runner[r].sig
      BY <1>0, <2>1 DEF RunnerRow
    <3> HIDE DEF row
    <3>2. QED
      BY <1>0, <1>a, <2>1, <2>2, <3>1, RunnerKeeps DEF row
  <2>3. QED
    BY <1>6, <1>b, <1>e, <2>1, <2>2 DEF Reach!HandOver, Reach!LiveRunner
<1>7. CASE Reach!ConnectorExited(r)
  BY <1>7, <1>b, <1>e DEF Reach!ConnectorExited, Reach!LiveRunner
<1>8. CASE Reach!EndConnector(r)
  BY <1>8, <1>b DEF Reach!EndConnector, Reach!LiveRunner
<1>9. CASE Reach!KillRunner(r)
  <2>1. /\ Reach!LiveRunner(r) /\ Reach!OnlyRunner(r, Reach!EndedRunner(r, "bad"))
        /\ locks' = Reach!Drop(Reach!Locks, r) /\ cloud' = cloud
        /\ loose' = IF \E s \in Process : r \in Reach!Descendants(s) THEN loose
                    ELSE loose \cup ({r} \cap cloud)
    BY <1>9 DEF Reach!KillRunner
  <2>2. (\E s \in Process : r \in Reach!Descendants(s)) => Seen(r)
    BY DEF Reach!Descendants, Seen
  <2>3. loose \subseteq loose' /\ loose' \subseteq cloud
    BY <1>0, <2>1
  <2>4. r \notin cloud' \/ r \in loose' \/ (Seen(r) /\ r \in cloud /\ loose \subseteq loose')
    BY <2>1, <2>2, <2>3
  <2>5. QED
    BY <1>0, <2>1, <2>3, <2>4, DropKeeps, RunnerOverKeeps
<1>10. CASE Reach!CloudExits(r)
  <2>1. /\ cloud' = cloud \ {r} /\ loose' = loose \ {r}
        /\ UNCHANGED <<locks, watch, service, runner, saved>>
    BY <1>10 DEF Reach!CloudExits
  <2>2. /\ ReachTypes' /\ WatchHas' /\ ServeKnown' /\ ServeHas' /\ RunnerKnown'
        /\ Stopping' /\ ServerLock' /\ TunnelLock'
    BY <2>1 DEF ReachInv, ReachTypes, WatchHas, ServeKnown, ServeHas,
                RunnerKnown, Stopping, ServerLock, TunnelLock
  <2>3. CloudRun'
    BY <2>1 DEF ReachInv, CloudRun, Seen
  <2>4. QED
    BY <2>2, <2>3 DEF ReachInv
<1>11. QED
  BY <1>1, <1>2, <1>3, <1>4, <1>5, <1>6, <1>7, <1>8, <1>9, <1>10 DEF Reach!RunnerStep

\* The token is written and removed behind its lock.
LEMMA SavedKeeps ==
  ASSUME ReachInv, (\E t \in Ticket : Reach!Install(t)) \/ Reach!Forget
  PROVE  ReachInv'
<1>1. /\ locks["tunnel"] = Nothing /\ saved' \in Ticket \cup {Nothing}
      /\ UNCHANGED <<locks, watch, service, runner, cloud, loose>>
  BY DEF Reach!Install, Reach!Forget, Reach!Open
<1>2. \A r \in Key : runner[r].at \notin Tokened
  BY <1>1, ReachAssumption DEF ReachInv, TunnelLock
<1>3. QED
  BY <1>1, <1>2
     DEF ReachInv, ReachTypes, WatchHas, ServeKnown, ServeHas, RunnerKnown, Stopping,
         ServerLock, TunnelLock, CloudRun, Seen

\* The inductive invariant of the processes.
LEMMA ReachInductive == HalfSpec => []ReachInv
<1>1. HalfInit => ReachInv
  BY ReachAssumption
     DEF HalfInit, Reach!RemoteInit, ReachInv, ReachTypes, WatchHas, ServeKnown, ServeHas,
         RunnerKnown, Stopping, ServerLock, TunnelLock, CloudRun, Reach!NoWatch,
         Reach!NoServe, Reach!NoRunner, WatchRow, ServeRow, RunnerRow, ExitCode, WithChild,
         Fronting, Looking, Connecting, Tokened
<1>2. ASSUME ReachInv, [HalfNext]_<<half, vars, consentVars, reachVars>> PROVE ReachInv'
  <2>1. CASE UNCHANGED reachVars
    BY <1>2, <2>1
       DEF reachVars, ReachInv, ReachTypes, WatchHas, ServeKnown, ServeHas, RunnerKnown,
           Stopping, ServerLock, TunnelLock, CloudRun, Seen
  <2>2. CASE Reach!RemoteNext
    <3>1. ASSUME NEW w \in Consent, Reach!WatchStep(w) PROVE ReachInv'
      BY <1>2, <3>1, WatchAloneKeeps, LaunchKeeps, ReapKeeps, InterruptKeeps,
         KillWatchKeeps, KillChildKeeps DEF Reach!WatchStep
    <3>2. ASSUME NEW s \in Process, Reach!ServeStep(s) PROVE ReachInv'
      BY <1>2, <3>2, ServeStepsAlone, PairStepsKeep, KillServeKeeps DEF Reach!ServeStep
    <3>3. QED
      BY <1>2, <2>2, <3>1, <3>2, RunnerStepsKeep, SavedKeeps DEF Reach!RemoteNext
  <2>3. QED
    BY <1>2, <2>1, <2>2 DEF HalfNext
<1>3. QED
  BY <1>1, <1>2, PTL DEF HalfSpec

\* No service or runner survives a parent that was not killed, and no connector but one
\* that is loose; behind a connector there is a service, and in its hand the saved token:
\* for any number of supervisors, services, runners and tokens, and every limit of restarts.
THEOREM ReachStaysKept == HalfSpec => []ReachKept
<1>1. ReachInv => ReachKept
  <2> SUFFICES ASSUME ReachInv PROVE ReachKept
    OBVIOUS
  <2>1. Reach!NothingLeft
    <3>1. \A r \in cloud \ loose :
             Reach!LiveRunner(r) \/ \E s \in Process : service[s].child = r /\ service[s].seen
      BY DEF ReachInv, CloudRun, Connecting, Over, Seen, Reach!LiveRunner
    <3>2. QED
      BY <3>1 DEF ReachInv, ServeKnown, RunnerKnown, Reach!NothingLeft
  <2>2. Reach!Fronted
    BY ReachAssumption DEF ReachInv, RunnerKnown, ServeHas, ServerLock, Reach!Fronted
  <2>3. Reach!OneConnector
    BY DEF ReachInv, ReachTypes, CloudRun, TunnelLock, Tokened, Connecting, Over,
           Reach!LiveRunner, Reach!OneConnector
  <2>4. QED
    BY <2>1, <2>2, <2>3 DEF ReachKept
<1>2. QED
  BY <1>1, ReachInductive, PTL

-----------------------------------------------------------------------------
(* GrantTokens.                                                            *)

\* process p will send c, or will save it for another to send
Holds(p, c) ==
    \/ proc[p].phase \in {"approved", "saved", "installing"} /\ proc[p].cred = c
    \/ proc[p].phase \in {"exchanging", "renewing"} /\ proc[p].reply = c
InVault(c) == vault.phase = "ready" /\ vault.cred = c

Quiet == \A p \in Process :
    proc[p].phase \notin {"exchanging", "renewing"} => proc[p].reply = Nothing

FreshInVault == \A c \in Credential : InVault(c) => sent[c] = 0 /\ Known(c)
FreshHeld == \A p \in Process, c \in Credential :
                Holds(p, c) => sent[c] = 0 /\ Known(c) /\ ~InVault(c)
OneHolder == \A p, q \in Process, c \in Credential :
                Holds(p, c) /\ Holds(q, c) => p = q
Holding == Quiet /\ FreshInVault /\ FreshHeld /\ OneHolder

SentIsKnown == \A c \in Credential : sent[c] # 0 => Known(c)
PairsNeedApproval == \A g \in Grant : status[g] = "none" => issued[g] = 0
WireIsSent == \A p \in Process, c \in Credential :
                <<p, c>> \in wire => sent[c] = 1 /\ c \notin redeemed
OneRequest == \A p, q \in Process, c \in Credential :
                <<p, c>> \in wire /\ <<q, c>> \in wire => p = q
RedeemedIsSent == \A c \in Credential : c \in redeemed => sent[c] = 1
OlderIsRedeemed == \A c \in Credential : c[2] < issued[c[1]] => c \in redeemed
Books == /\ SentIsKnown /\ PairsNeedApproval /\ WireIsSent /\ OneRequest
         /\ RedeemedIsSent /\ OlderIsRedeemed /\ SentOnce /\ NoSelfRevocation

\* what a process that holds or sends a credential has in hand
Carries(r) == /\ r.phase \in {"approved", "exchanging"} => r.cred \in Credential
              /\ r.phase \in {"saved", "renewing", "installing"} => r.cred \in Pair
Carried == \A p \in Process : Carries(proc[p])

GrantIInv == TypeOK /\ Carried /\ Holding /\ Books

ProcState == [phase : Phase, cred : Credential \cup {Nothing},
              reply : Pair \cup {Nothing, Refused}, second : BOOLEAN]

\* Nothing but the code of an old grant has been sent when the client starts.
LEMMA GrantsHold == Init => GrantIInv
<1> SUFFICES ASSUME Init PROVE GrantIInv
  OBVIOUS
<1> USE GrantAssumption DEF Init, Credential, Pair, Code, Idle, Empty, Phase
<1>1. TypeOK
  BY DEF TypeOK
<1>2. Holding
  BY DEF Holding, Quiet, FreshInVault, FreshHeld, OneHolder, Holds, InVault, Known
<1>3. Books
  BY DEF Books, SentIsKnown, PairsNeedApproval, WireIsSent, OneRequest,
     RedeemedIsSent, OlderIsRedeemed, SentOnce, NoSelfRevocation, Known
<1>4. Carried
  BY DEF Carried, Carries
<1>5. QED
  BY <1>1, <1>2, <1>3, <1>4 DEF GrantIInv

-----------------------------------------------------------------------------
(* Steps of a client process. *)

\* Idle is a state of a process.
LEMMA IdleState == Idle \in ProcState
  BY GrantAssumption DEF Idle, ProcState, Phase

\* One process changes, the others do not.
LEMMA OneProcess ==
  ASSUME TypeOK, NEW p \in Process, NEW r \in ProcState,
         proc' = [proc EXCEPT ![p] = r]
  PROVE  /\ proc' \in [Process -> ProcState]
         /\ proc'[p] = r
         /\ \A q \in Process : q # p => proc'[q] = proc[q]
  BY DEF TypeOK, ProcState

\* A process goes on with a credential in hand, or with none.
LEMMA CarriedKept ==
  ASSUME TypeOK, Carried, NEW p \in Process, NEW r \in ProcState, Carries(r),
         proc' = [proc EXCEPT ![p] = r]
  PROVE  Carried'
<1>1. /\ proc'[p] = r
      /\ \A q \in Process : q # p => proc'[q] = proc[q]
  BY OneProcess
<1>2. QED
  BY <1>1 DEF Carried, Carries

\* A process that ends what it did, or crashes, leaves at most fewer holders.
LEMMA Released ==
  ASSUME TypeOK, Holding, NEW p \in Process,
         proc' = [proc EXCEPT ![p] = Idle],
         vault' = vault \/ vault'.phase # "ready",
         UNCHANGED <<status, issued, sent>>
  PROVE  Holding'
<1>1. /\ proc'[p] = Idle
      /\ \A q \in Process : q # p => proc'[q] = proc[q]
  BY IdleState, OneProcess
<1>2. \A c \in Credential : InVault(c)' => InVault(c)
  BY DEF InVault
<1>3. \A q \in Process, c \in Credential : Holds(q, c)' => q # p /\ Holds(q, c)
  BY <1>1, GrantAssumption DEF Holds, Idle
<1>4. \A c \in Credential : Known(c)' <=> Known(c)
  BY DEF Known
<1>5. Quiet'
  BY <1>1 DEF Holding, Quiet, Idle
<1>6. QED
  BY <1>2, <1>3, <1>4, <1>5
  DEF Holding, FreshInVault, FreshHeld, OneHolder

\* A process takes over what the vault or it itself held.
LEMMA HandedOver ==
  ASSUME TypeOK, Holding, NEW p \in Process, NEW r \in ProcState,
         proc' = [proc EXCEPT ![p] = r],
         r.phase \notin {"exchanging", "renewing"}, r.reply = Nothing,
         vault'.phase # "ready" \/ vault' = vault,
         NEW d \in Credential, Holds(p, d) \/ InVault(d),
         r.phase \in {"approved", "saved", "installing"} => r.cred = d,
         InVault(d) => r.phase \notin {"approved", "saved", "installing"}
                       \/ vault'.phase # "ready",
         UNCHANGED <<status, issued, sent>>
  PROVE  Holding'
<1>1. /\ proc'[p] = r
      /\ \A q \in Process : q # p => proc'[q] = proc[q]
  BY OneProcess
<1>2. \A c \in Credential : InVault(c)' => InVault(c)
  BY DEF InVault
<1>3. \A q \in Process, c \in Credential :
         Holds(q, c)' => IF q = p THEN c = d ELSE Holds(q, c)
  BY <1>1 DEF Holds
<1>4. \A c \in Credential : Known(c)' <=> Known(c)
  BY DEF Known
<1>5. Quiet'
  BY <1>1 DEF Holding, Quiet
<1>6. FreshInVault'
  BY <1>2, <1>4 DEF Holding, FreshInVault
<1>7. sent[d] = 0 /\ Known(d)
  BY DEF Holding, FreshInVault, FreshHeld
<1>8. Holds(p, d)' => ~InVault(d)'
  <2>1. CASE Holds(p, d)
    BY <1>2, <2>1 DEF Holding, FreshHeld
  <2>2. CASE InVault(d)
    BY <1>1, <2>2 DEF Holds, InVault
  <2>3. QED
    BY <2>1, <2>2
<1>9. FreshHeld'
  BY <1>2, <1>3, <1>4, <1>7, <1>8 DEF Holding, FreshHeld
<1>10. \A q \in Process : q # p => ~Holds(q, d)
  BY DEF Holding, OneHolder, FreshHeld
<1>11. OneHolder'
  BY <1>3, <1>10 DEF Holding, OneHolder
<1>12. QED
  BY <1>5, <1>6, <1>9, <1>11 DEF Holding

\* A process saves the pair it holds as "ready".
LEMMA Stored ==
  ASSUME TypeOK, Holding, NEW p \in Process, NEW r \in ProcState,
         proc' = [proc EXCEPT ![p] = r],
         r.phase \in {"idle", "using"}, r.reply = Nothing,
         NEW d \in Credential, Holds(p, d),
         vault' = [phase |-> "ready", cred |-> d],
         UNCHANGED <<status, issued, sent>>
  PROVE  Holding'
<1>1. /\ proc'[p] = r
      /\ \A q \in Process : q # p => proc'[q] = proc[q]
  BY OneProcess
<1>2. \A c \in Credential : InVault(c)' => c = d
  BY DEF InVault
<1>3. \A q \in Process, c \in Credential : Holds(q, c)' => q # p /\ Holds(q, c)
  BY <1>1 DEF Holds
<1>4. \A c \in Credential : Known(c)' <=> Known(c)
  BY DEF Known
<1>5. Quiet'
  BY <1>1 DEF Holding, Quiet
<1>6. sent[d] = 0 /\ Known(d)
  BY DEF Holding, FreshHeld
<1>7. \A q \in Process : q # p => ~Holds(q, d)
  BY DEF Holding, OneHolder
<1>8. FreshInVault'
  BY <1>2, <1>4, <1>6 DEF FreshInVault
<1>9. FreshHeld'
  BY <1>2, <1>3, <1>4, <1>7 DEF Holding, FreshHeld
<1>10. OneHolder'
  BY <1>3 DEF Holding, OneHolder
<1>11. QED
  BY <1>5, <1>8, <1>9, <1>10 DEF Holding

\* A process sends the credential it holds.
LEMMA PostKeeps ==
  ASSUME GrantIInv, NEW p \in Process, NEW r \in ProcState, NEW d \in Credential,
         Holds(p, d), Post(p, d),
         proc' = [proc EXCEPT ![p] = r],
         r.phase \in {"exchanging", "renewing"}, r.reply = Nothing, Carries(r),
         UNCHANGED <<server, vault, lock>>
  PROVE  GrantIInv'
<1> USE DEF GrantIInv
<1>1. /\ proc' \in [Process -> ProcState]
      /\ proc'[p] = r
      /\ \A q \in Process : q # p => proc'[q] = proc[q]
  BY OneProcess
<1>2. sent[d] = 0 /\ Known(d) /\ ~InVault(d)
  BY DEF Holding, FreshHeld
<1>3. /\ sent' \in [Credential -> Nat]
      /\ sent'[d] = 1
      /\ \A c \in Credential : c # d => sent'[c] = sent[c]
  BY <1>2 DEF TypeOK, Post
<1>4. TypeOK'
  BY <1>1, <1>3 DEF TypeOK, ProcState, Post, server
<1>5. \A c \in Credential : (Known(c)' <=> Known(c)) /\ (InVault(c)' <=> InVault(c))
  BY DEF Known, InVault, server
<1>6. \A q \in Process, c \in Credential : Holds(q, c)' => q # p /\ Holds(q, c)
  BY <1>1, GrantAssumption DEF Holds
<1>7. \A q \in Process : q # p => ~Holds(q, d)
  BY DEF Holding, OneHolder
<1>8. Holding'
  <2>1. Quiet'
    BY <1>1 DEF Holding, Quiet
  <2>2. FreshInVault'
    BY <1>2, <1>3, <1>5 DEF Holding, FreshInVault
  <2>3. FreshHeld'
    BY <1>3, <1>5, <1>6, <1>7 DEF Holding, FreshHeld
  <2>4. OneHolder'
    BY <1>6 DEF Holding, OneHolder
  <2>5. QED
    BY <2>1, <2>2, <2>3, <2>4 DEF Holding
<1>9. Books'
  <2>1. d \notin redeemed /\ \A q \in Process : <<q, d>> \notin wire
    BY <1>2 DEF Books, RedeemedIsSent, WireIsSent
  <2>2. SentIsKnown' /\ PairsNeedApproval'
    BY <1>2, <1>3, <1>5 DEF Books, SentIsKnown, PairsNeedApproval, server
  <2>3. WireIsSent'
    BY <1>3, <2>1 DEF Books, WireIsSent, Post, server
  <2>4. OneRequest'
    BY <2>1 DEF Books, OneRequest, Post
  <2>5. RedeemedIsSent' /\ OlderIsRedeemed'
    BY <1>3, <2>1 DEF Books, RedeemedIsSent, OlderIsRedeemed, server
  <2>6. SentOnce' /\ NoSelfRevocation'
    BY <1>3 DEF Books, SentOnce, NoSelfRevocation, server
  <2>7. QED
    BY <2>2, <2>3, <2>4, <2>5, <2>6 DEF Books
<1>10. QED
  BY <1>4, <1>8, <1>9, CarriedKept

\* The books are about the server, the requests under way and what was sent.
LEMMA BooksKept ==
  ASSUME Books, UNCHANGED <<server, wire, sent>>
  PROVE  Books'
  BY DEF Books, SentIsKnown, PairsNeedApproval, WireIsSent, OneRequest,
     RedeemedIsSent, OlderIsRedeemed, SentOnce, NoSelfRevocation, Known, server

\* The steps in which a process only stops what it was doing.
LEMMA StopKeeps ==
  ASSUME GrantIInv, NEW p \in Process,
         \/ AskRefused(p) \/ GiveUp(p) \/ RequestServed(p)
         \/ SaveIntentFails(p) \/ LockBusy(p) \/ Crash(p)
  PROVE  GrantIInv'
<1> USE DEF GrantIInv
<1>1. /\ proc' = [proc EXCEPT ![p] = Idle]
      /\ vault' = vault \/ (vault.phase = "ready" /\ vault' = Pending(vault))
      /\ lock' \in {lock, Nobody}
      /\ UNCHANGED <<server, wire, sent>>
  BY DEF AskRefused, GiveUp, RequestServed, SaveIntentFails, LockBusy, Crash
<1>2. vault' \in {Empty} \cup [phase : {"ready", "refresh_pending"}, cred : Pair]
  BY <1>1, GrantAssumption DEF TypeOK, Pending, Empty
<1>3. TypeOK'
  BY <1>1, <1>2, IdleState, OneProcess DEF TypeOK, ProcState, server
<1>4. vault' = vault \/ vault'.phase # "ready"
  BY <1>1 DEF Pending, TypeOK, Empty
<1>5. Holding'
  BY <1>1, <1>4, Released DEF server
<1>6. Carried'
  BY <1>1, IdleState, CarriedKept DEF Carries, Idle
<1>7. QED
  BY <1>1, <1>3, <1>5, <1>6, BooksKept

\* The steps in which a process sends: an exchange or a renewal.
LEMMA SendKeeps ==
  ASSUME GrantIInv, NEW p \in Process, ExchangeCode(p) \/ SendRenewal(p)
  PROVE  GrantIInv'
<1> USE DEF GrantIInv
<1> DEFINE d == proc[p].cred
           r == [proc[p] EXCEPT !.phase = IF proc[p].phase = "approved"
                                          THEN "exchanging" ELSE "renewing"]
<1>1. /\ proc[p].phase \in {"approved", "saved"}
      /\ proc' = [proc EXCEPT ![p] = r]
      /\ Post(p, d)
      /\ UNCHANGED <<server, vault, lock>>
  BY DEF ExchangeCode, SendRenewal, TypeOK
<1>2. proc[p] \in ProcState /\ Carries(proc[p])
  BY DEF TypeOK, ProcState, Carried
<1>3. d \in Credential
  BY <1>1, <1>2 DEF Carries, Pair, Credential
<1>4. /\ r \in ProcState
      /\ r.phase \in {"exchanging", "renewing"}
      /\ r.reply = Nothing
      /\ Carries(r)
  BY <1>1, <1>2 DEF ProcState, Phase, Carries, Holding, Quiet
<1>5. Holds(p, d)
  BY <1>1 DEF Holds
<1> HIDE DEF d, r, GrantIInv
<1>6. QED
  BY <1>1, <1>3, <1>4, <1>5, PostKeeps

\* The steps in which a process saves the pair it received.
LEMMA SaveKeeps ==
  ASSUME GrantIInv, NEW p \in Process, Install(p) \/ Renewed(p) \/ RenewedUnsaved(p)
  PROVE  GrantIInv'
<1> USE DEF GrantIInv
<1>1. PICK d \in Pair, r \in ProcState :
         /\ Holds(p, d) /\ Carries(r)
         /\ r.phase \in {"idle", "using"} /\ r.reply = Nothing
         /\ proc' = [proc EXCEPT ![p] = r]
         /\ \/ vault' = [phase |-> "ready", cred |-> d]
            \/ vault' = vault /\ r = Idle
         /\ lock' \in {lock, Nobody}
         /\ UNCHANGED <<server, wire, sent>>
  <2>1. proc[p] \in ProcState /\ Carries(proc[p])
    BY DEF TypeOK, ProcState, Carried
  <2>2. CASE Install(p)
    <3>1. proc[p].cred \in Pair /\ Holds(p, proc[p].cred)
      BY <2>1, <2>2 DEF Install, Carries, Holds
    <3>2. /\ Carries(Idle) /\ Idle.phase = "idle" /\ Idle.reply = Nothing
          /\ proc' = [proc EXCEPT ![p] = Idle]
          /\ vault' \in {vault, [phase |-> "ready", cred |-> proc[p].cred]}
          /\ lock' = lock /\ UNCHANGED <<server, wire, sent>>
      BY <2>2 DEF Install, Carries, Idle
    <3>3. QED
      BY <3>1, <3>2, IdleState
  <2>3. CASE RenewedUnsaved(p)
    <3>1. proc[p].reply \in Pair /\ Holds(p, proc[p].reply)
      BY <2>3 DEF RenewedUnsaved, Holds
    <3>2. /\ Carries(Idle) /\ Idle.phase = "idle" /\ Idle.reply = Nothing
          /\ proc' = [proc EXCEPT ![p] = Idle]
          /\ vault' \in {vault, [phase |-> "ready", cred |-> proc[p].reply]}
          /\ lock' = Nobody /\ UNCHANGED <<server, wire, sent>>
      BY <2>3 DEF RenewedUnsaved, Carries, Idle
    <3>3. QED
      BY <3>1, <3>2, IdleState
  <2>4. CASE Renewed(p)
    <3> DEFINE r == [proc[p] EXCEPT !.phase = "using", !.cred = proc[p].reply,
                                    !.reply = Nothing]
    <3>1. proc[p].reply \in Pair /\ Holds(p, proc[p].reply)
      BY <2>4 DEF Renewed, Holds
    <3>5. proc[p].reply \in Credential
      BY <3>1 DEF Pair, Credential
    <3>6. r.phase = "using" /\ r.reply = Nothing
      BY <2>1 DEF ProcState
    <3>2. r \in ProcState /\ r.phase = "using" /\ r.reply = Nothing /\ Carries(r)
      BY <2>1, <3>5, <3>6 DEF ProcState, Phase, Carries
    <3>3. /\ proc' = [proc EXCEPT ![p] = r]
          /\ vault' = [phase |-> "ready", cred |-> proc[p].reply]
          /\ lock' = Nobody /\ UNCHANGED <<server, wire, sent>>
      BY <2>4 DEF Renewed, TypeOK
    <3> HIDE DEF r
    <3>4. QED
      BY <3>1, <3>2, <3>3
  <2>5. QED
    BY <2>2, <2>3, <2>4
<1>2. d \in Credential
  BY DEF Pair, Credential
<1>3. UNCHANGED <<enabled, status, term, issued, redeemed, late, ended, wire, sent>>
  BY <1>1 DEF server
<1>4. Holding'
  <2>1. CASE vault' = [phase |-> "ready", cred |-> d]
    BY <1>1, <1>2, <1>3, <2>1, Stored
  <2>2. CASE vault' = vault /\ r = Idle
    BY <1>1, <1>3, <2>2, Released
  <2>3. QED
    BY <1>1, <2>1, <2>2
<1>5. TypeOK'
  BY <1>1, <1>3, OneProcess DEF TypeOK, ProcState
<1>6. QED
  BY <1>1, <1>4, <1>5, CarriedKept, BooksKept

\* The steps in which a process takes what it will hold from the keyring
\* item or from the reply.
LEMMA TakesKeep ==
  ASSUME GrantIInv, NEW p \in Process, SaveIntent(p) \/ LoginReply(p)
  PROVE  GrantIInv'
<1> USE DEF GrantIInv
<1>0. proc[p] \in ProcState
  BY DEF TypeOK, ProcState
<1>1. CASE SaveIntent(p)
  <2> DEFINE d == vault.cred
             r == [proc[p] EXCEPT !.phase = "saved", !.cred = d]
  <2>1. d \in Pair /\ InVault(d)
    BY <1>1, GrantAssumption DEF SaveIntent, TypeOK, Empty, InVault
  <2>2. d \in Credential
    BY <2>1 DEF Pair, Credential
  <2>3. /\ proc' = [proc EXCEPT ![p] = r]
        /\ vault' = [phase |-> "refresh_pending", cred |-> d]
        /\ lock' = p
        /\ UNCHANGED <<server, wire, sent>>
    BY <1>1 DEF SaveIntent, Pending, TypeOK, Empty
  <2>4. r.phase = "saved" /\ r.cred = d /\ r.reply = Nothing
    BY <1>0, <1>1 DEF ProcState, SaveIntent, Holding, Quiet
  <2>5. r \in ProcState /\ Carries(r)
    BY <1>0, <2>1, <2>2, <2>4 DEF ProcState, Phase, Carries
  <2> HIDE DEF d, r, GrantIInv
  <2>6. Holding'
    BY <2>1, <2>2, <2>3, <2>4, <2>5, HandedOver DEF GrantIInv, server
  <2>7. TypeOK'
    BY <2>1, <2>3, <2>5, OneProcess DEF GrantIInv, TypeOK, ProcState, server
  <2>8. QED
    BY <2>3, <2>5, <2>6, <2>7, CarriedKept, BooksKept DEF GrantIInv
<1>2. CASE LoginReply(p) /\ proc[p].reply = Refused
  <2>1. /\ proc' = [proc EXCEPT ![p] = Idle]
        /\ UNCHANGED <<server, vault, lock, wire, sent>>
    BY <1>2 DEF LoginReply
  <2>2. Holding'
    BY <2>1, Released DEF server
  <2>3. TypeOK' /\ Carried'
    BY <2>1, IdleState, OneProcess, CarriedKept
    DEF TypeOK, ProcState, server, Carries, Idle
  <2>4. QED
    BY <2>1, <2>2, <2>3, BooksKept
<1>3. CASE LoginReply(p) /\ proc[p].reply # Refused
  <2> DEFINE d == proc[p].reply
             r == [Idle EXCEPT !.phase = "installing", !.cred = d]
  <2>1. d \in Pair /\ Holds(p, d)
    BY <1>0, <1>3 DEF LoginReply, ProcState, Holds
  <2>2. d \in Credential
    BY <2>1 DEF Pair, Credential
  <2>3. /\ proc' = [proc EXCEPT ![p] = r]
        /\ UNCHANGED <<server, vault, lock, wire, sent>>
    BY <1>3 DEF LoginReply
  <2>4. r.phase = "installing" /\ r.cred = d /\ r.reply = Nothing
    BY DEF Idle
  <2>5. r \in ProcState /\ Carries(r)
    BY IdleState, <2>1, <2>2, <2>4 DEF ProcState, Phase, Carries
  <2>6. ~InVault(d)
    BY <2>1, <2>2 DEF Holding, FreshHeld
  <2> HIDE DEF d, r, GrantIInv
  <2>7. Holding'
    BY <2>1, <2>2, <2>3, <2>4, <2>5, <2>6, HandedOver DEF GrantIInv, server
  <2>8. TypeOK'
    BY <2>3, <2>5, OneProcess DEF GrantIInv, TypeOK, ProcState, server
  <2>9. QED
    BY <2>3, <2>5, <2>7, <2>8, CarriedKept, BooksKept DEF GrantIInv
<1>4. QED
  BY <1>1, <1>2, <1>3

\* A process that asks for, is given or loses a token holds nothing.
LEMMA Untouched ==
  ASSUME TypeOK, Holding, NEW p \in Process, NEW r \in ProcState,
         proc' = [proc EXCEPT ![p] = r],
         r.phase \in {"idle", "asking", "using"}, r.reply = Nothing,
         vault' = vault \/ vault'.phase # "ready",
         UNCHANGED <<status, issued, sent>>
  PROVE  Holding'
<1>1. /\ proc'[p] = r
      /\ \A q \in Process : q # p => proc'[q] = proc[q]
  BY OneProcess
<1>2. \A c \in Credential : InVault(c)' => InVault(c)
  BY DEF InVault
<1>3. \A q \in Process, c \in Credential : Holds(q, c)' => q # p /\ Holds(q, c)
  BY <1>1 DEF Holds
<1>4. \A c \in Credential : Known(c)' <=> Known(c)
  BY DEF Known
<1>5. Quiet'
  BY <1>1 DEF Holding, Quiet
<1>6. QED
  BY <1>2, <1>3, <1>4, <1>5
  DEF Holding, FreshInVault, FreshHeld, OneHolder

\* The steps in which a process uses the keyring item without holding it.
LEMMA UseKeeps ==
  ASSUME GrantIInv, NEW p \in Process,
         NewRequest(p) \/ AskCurrent(p) \/ RequestRejected(p)
  PROVE  GrantIInv'
<1> USE DEF GrantIInv
<1>1. PICK r \in ProcState :
         /\ Carries(r) /\ r.phase \in {"idle", "asking", "using"}
         /\ r.reply = Nothing
         /\ proc' = [proc EXCEPT ![p] = r]
         /\ UNCHANGED <<server, vault, lock, wire, sent>>
  <2>1. proc[p] \in ProcState
    BY DEF TypeOK, ProcState
  <2>2. CASE NewRequest(p)
    <3> DEFINE r == [Idle EXCEPT !.phase = "asking"]
    <3>1. r \in ProcState /\ Carries(r) /\ r.phase = "asking" /\ r.reply = Nothing
      BY IdleState DEF ProcState, Phase, Carries, Idle
    <3>2. proc' = [proc EXCEPT ![p] = r] /\ UNCHANGED <<server, vault, lock, wire, sent>>
      BY <2>2 DEF NewRequest
    <3> HIDE DEF r
    <3>3. QED
      BY <3>1, <3>2
  <2>3. CASE AskCurrent(p)
    <3> DEFINE r == [proc[p] EXCEPT !.phase = "using", !.cred = vault.cred]
    <3>1. vault.cred \in Pair
      BY <2>3, GrantAssumption DEF AskCurrent, TypeOK, Empty
    <3>2. vault.cred \in Credential
      BY <3>1 DEF Pair, Credential
    <3>3. r.phase = "using" /\ r.reply = Nothing
      BY <2>1, <2>3 DEF AskCurrent, ProcState, Holding, Quiet
    <3>4. r \in ProcState /\ Carries(r)
      BY <2>1, <3>2, <3>3 DEF ProcState, Phase, Carries
    <3>5. proc' = [proc EXCEPT ![p] = r] /\ UNCHANGED <<server, vault, lock, wire, sent>>
      BY <2>3 DEF AskCurrent, TypeOK
    <3> HIDE DEF r
    <3>6. QED
      BY <3>3, <3>4, <3>5
  <2>4. CASE RequestRejected(p)
    <3>0. PICK again \in BOOLEAN :
            proc' = [proc EXCEPT ![p] =
                       IF again /\ ~proc[p].second
                       THEN [proc[p] EXCEPT !.phase = "asking", !.second = TRUE]
                       ELSE Idle]
      BY <2>4 DEF RequestRejected
    <3> DEFINE r == IF again /\ ~proc[p].second
                    THEN [proc[p] EXCEPT !.phase = "asking", !.second = TRUE]
                    ELSE Idle
    <3>1. r.phase \in {"idle", "asking"} /\ r.reply = Nothing
      BY <2>1, <2>4 DEF RequestRejected, ProcState, Holding, Quiet, Idle
    <3>2. r \in ProcState
      BY <2>1, IdleState DEF ProcState, Phase
    <3>3. Carries(r)
      BY <3>1 DEF Carries
    <3>4. proc' = [proc EXCEPT ![p] = r] /\ UNCHANGED <<server, vault, lock, wire, sent>>
      BY <2>4, <3>0 DEF RequestRejected
    <3> HIDE DEF r
    <3>5. QED
      BY <3>1, <3>2, <3>3, <3>4
  <2>5. QED
    BY <2>2, <2>3, <2>4
<1>2. UNCHANGED <<enabled, status, term, issued, redeemed, late, ended, wire, sent>>
  BY <1>1 DEF server
<1>3. Holding'
  BY <1>1, <1>2, Untouched
<1>4. TypeOK'
  BY <1>1, <1>2, OneProcess DEF TypeOK, ProcState
<1>5. QED
  BY <1>1, <1>3, <1>4, CarriedKept, BooksKept

\* Forgetting the connection empties the keyring item.
LEMMA ForgetKeeps ==
  ASSUME GrantIInv, NEW p \in Process, Forget(p)
  PROVE  GrantIInv'
<1> USE DEF GrantIInv
<1>1. vault' = Empty /\ UNCHANGED <<server, lock, proc, wire, sent>>
  BY DEF Forget
<1>2. TypeOK' /\ Carried'
  BY <1>1 DEF TypeOK, Carried, server
<1>3. /\ \A c \in Credential : ~InVault(c)' /\ (Known(c)' <=> Known(c))
      /\ \A q \in Process, c \in Credential : Holds(q, c)' <=> Holds(q, c)
      /\ Quiet'
  BY <1>1 DEF InVault, Empty, Known, Holds, Holding, Quiet, server
<1>4. Holding'
  BY <1>1, <1>3 DEF Holding, FreshInVault, FreshHeld, OneHolder
<1>5. QED
  BY <1>1, <1>2, <1>4, BooksKept

-----------------------------------------------------------------------------
(* Steps of the owner, of time and of the token endpoint. *)

\* The owner's approval puts a code that was never sent into one process.
LEMMA ApproveKeeps ==
  ASSUME GrantIInv, NEW p \in Process, NEW g \in Grant, Approve(p, g)
  PROVE  GrantIInv'
<1> USE DEF GrantIInv
<1> DEFINE d == Code(g)
           r == [Idle EXCEPT !.phase = "approved", !.cred = d]
<1>1. d \in Credential /\ d[1] = g /\ d[2] = 0
  BY GrantAssumption DEF Code, Credential
<1>2. r \in ProcState /\ r.phase = "approved" /\ r.reply = Nothing /\ Carries(r)
  BY <1>1, IdleState DEF ProcState, Phase, Carries, Idle
<1>3. /\ proc' \in [Process -> ProcState]
      /\ proc'[p] = r
      /\ \A q \in Process : q # p => proc'[q] = proc[q]
  BY <1>2, OneProcess DEF Approve
<1>4. TypeOK'
  BY <1>3 DEF Approve, TypeOK, ProcState
<1>5. Carried'
  BY <1>2, CarriedKept DEF Approve
<1>6. /\ ~Known(d) /\ Known(d)' /\ issued[g] = 0
      /\ \A c \in Credential : Known(c) => Known(c)'
      /\ \A c \in Credential : Known(c)' => Known(c) \/ c = d
  <2>1. issued[g] = 0 /\ status[g] = "none"
    BY DEF Approve, Books, PairsNeedApproval
  <2>2. status' = [status EXCEPT ![g] = "live"] /\ issued' = issued
    BY DEF Approve
  <2>3. \A c \in Credential : c[1] = g /\ c[2] <= 0 => c = d
    BY <1>1, GrantAssumption DEF Credential, Code
  <2>4. \A c \in Credential : c[1] \in Grant
    BY DEF Credential
  <2>5. QED
    BY <1>1, <2>1, <2>2, <2>3, <2>4 DEF Known, TypeOK
<1>7. sent[d] = 0
  BY <1>1, <1>6 DEF Books, SentIsKnown
<1>8. Holding'
  <2>1. \A q \in Process, c \in Credential :
           Holds(q, c)' => IF q = p THEN c = d ELSE Holds(q, c)
    BY <1>2, <1>3 DEF Holds, Idle
  <2>2. \A q \in Process : ~Holds(q, d)
    BY <1>1, <1>6 DEF Holding, FreshHeld
  <2>3. ~InVault(d)
    BY <1>1, <1>6 DEF Holding, FreshInVault
  <2>4. vault' = vault /\ sent' = sent
    BY DEF Approve
  <2>5. Quiet'
    BY <1>2, <1>3 DEF Holding, Quiet
  <2>6. FreshInVault'
    BY <1>6, <2>4 DEF Holding, FreshInVault, InVault
  <2>7. FreshHeld'
    BY <1>6, <1>7, <2>1, <2>3, <2>4 DEF Holding, FreshHeld, InVault
  <2>8. OneHolder'
    BY <2>1, <2>2 DEF Holding, OneHolder
  <2>9. QED
    BY <2>5, <2>6, <2>7, <2>8 DEF Holding
<1>9. Books'
  BY <1>6 DEF Approve, Books, SentIsKnown, PairsNeedApproval, WireIsSent, OneRequest,
     RedeemedIsSent, OlderIsRedeemed, SentOnce, NoSelfRevocation, TypeOK
<1>10. QED
  BY <1>4, <1>5, <1>8, <1>9

\* What the owner and time do touches neither what is held nor what was sent.
LEMMA OwnerKeeps ==
  ASSUME GrantIInv, Owner
  PROVE  GrantIInv'
<1> USE DEF GrantIInv
<1>1. UNCHANGED <<issued, redeemed, vault, lock, proc, wire, sent>>
  BY DEF Owner, RevokeDevice, EnableDevice, RetainGrants, RevokeGrant, TermOver,
     Lapse, client
<1>2. /\ status' \in [Grant -> {"none", "live", "revoked"}]
      /\ \A g \in Grant : status'[g] = "none" <=> status[g] = "none"
      /\ ended' \subseteq Grant
      /\ \A g \in Grant : status'[g] = "revoked" => g \in ended'
  BY DEF Owner, RevokeDevice, EnableDevice, RetainGrants, RevokeGrant, TermOver,
     Lapse, RevokeAll, Existing, TypeOK, Books, NoSelfRevocation
<1>3. /\ enabled' \in BOOLEAN
      /\ term' \in [Grant -> {"unlimited", "running", "over"}]
      /\ late' \subseteq Credential
  BY DEF Owner, RevokeDevice, EnableDevice, RetainGrants, RevokeGrant, TermOver,
     Lapse, TypeOK
<1>4. TypeOK' /\ Carried'
  BY <1>1, <1>2, <1>3 DEF TypeOK, Carried
<1>5. \A c \in Credential : Known(c)' <=> Known(c)
  BY <1>1, <1>2 DEF Known, Credential
<1>6. Holding'
  BY <1>1, <1>5 DEF Holding, Quiet, FreshInVault, FreshHeld, OneHolder, Holds, InVault
<1>7. Books'
  BY <1>1, <1>2, <1>5 DEF Books, SentIsKnown, PairsNeedApproval, WireIsSent,
     OneRequest, RedeemedIsSent, OlderIsRedeemed, SentOnce, NoSelfRevocation
<1>8. QED
  BY <1>4, <1>6, <1>7

\* No request carries a credential that was already redeemed.
LEMMA NoReplay ==
  ASSUME GrantIInv, NEW p \in Process, NEW c \in Credential, <<p, c>> \in wire
  PROVE  ~Replayed(c)
  BY DEF GrantIInv, Books, WireIsSent, Replayed

\* A refused or lost request gives nobody anything to hold.
LEMMA RefusalKeeps ==
  ASSUME GrantIInv, NEW p \in Process, NEW c \in Credential,
         ServeRefused(p, c) \/ Lose(p, c)
  PROVE  GrantIInv'
<1> USE DEF GrantIInv
<1>1. /\ wire' = wire \ {<<p, c>>}
      /\ UNCHANGED <<enabled, status, term, issued, redeemed, late, ended, vault, lock, sent>>
      /\ proc' = proc \/ (Waiting(p, c) /\ proc' = [proc EXCEPT ![p].reply = Refused])
  BY NoReplay DEF ServeRefused, Lose, Answer, server
<1>2. /\ proc' \in [Process -> ProcState]
      /\ Carried'
      /\ Quiet'
      /\ \A q \in Process, d \in Credential : Holds(q, d)' => Holds(q, d)
  <2>1. CASE proc' = proc
    BY <2>1 DEF TypeOK, ProcState, Carried, Holding, Quiet, Holds
  <2>2. CASE Waiting(p, c) /\ proc' = [proc EXCEPT ![p].reply = Refused]
    <3> DEFINE r == [proc[p] EXCEPT !.reply = Refused]
    <3>1. proc[p] \in ProcState /\ Carries(proc[p])
      BY DEF TypeOK, ProcState, Carried
    <3>2. /\ r \in ProcState /\ Carries(r)
          /\ r.phase \in {"exchanging", "renewing"} /\ r.reply = Refused
      BY <2>2, <3>1 DEF ProcState, Carries, Waiting
    <3>3. proc' = [proc EXCEPT ![p] = r]
      BY <2>2 DEF TypeOK
    <3> HIDE DEF r
    <3>4. /\ proc' \in [Process -> ProcState]
          /\ proc'[p] = r
          /\ \A q \in Process : q # p => proc'[q] = proc[q]
      BY <3>2, <3>3, OneProcess
    <3>5. Carried' /\ Quiet'
      BY <3>2, <3>3, <3>4, CarriedKept DEF Holding, Quiet
    <3>6. \A q \in Process, d \in Credential : Holds(q, d)' => Holds(q, d)
      BY <3>2, <3>4, GrantAssumption DEF Holds
    <3>7. QED
      BY <3>4, <3>5, <3>6
  <2>3. QED
    BY <1>1, <2>1, <2>2
<1>3. TypeOK'
  BY <1>1, <1>2 DEF TypeOK, ProcState
<1>4. \A d \in Credential : (Known(d)' <=> Known(d)) /\ (InVault(d)' <=> InVault(d))
  BY <1>1 DEF Known, InVault
<1>5. Holding'
  BY <1>1, <1>2, <1>4 DEF Holding, FreshInVault, FreshHeld, OneHolder
<1>6. Books'
  BY <1>1, <1>4 DEF Books, SentIsKnown, PairsNeedApproval, WireIsSent,
     OneRequest, RedeemedIsSent, OlderIsRedeemed, SentOnce, NoSelfRevocation
<1>7. QED
  BY <1>2, <1>3, <1>5, <1>6

\* A redemption hands a pair that nobody had to the process that waits.
LEMMA RedeemKeeps ==
  ASSUME GrantIInv, NEW p \in Process, NEW c \in Credential, ServeRedeem(p, c)
  PROVE  GrantIInv'
<1> USE DEF GrantIInv
<1> DEFINE g == c[1]
<1>1. g \in Grant /\ c[2] \in Nat /\ c = <<g, c[2]>>
  BY GrantAssumption DEF Credential
<1>2. /\ <<p, c>> \in wire /\ c \notin redeemed /\ sent[c] = 1
      /\ status[g] # "none" /\ issued[g] \in 0..MaxPair /\ issued[g] < MaxPair
      /\ Known(c) /\ c[2] = issued[g]
  <2>1. <<p, c>> \in wire /\ c \notin redeemed /\ issued[g] < MaxPair
    BY DEF ServeRedeem, Redeemable, Replayed
  <2>2. sent[c] = 1 /\ issued[g] \in 0..MaxPair
    BY <1>1, <2>1 DEF Books, WireIsSent, TypeOK
  <2>3. Known(c)
    BY <2>2 DEF Books, SentIsKnown
  <2>4. ~(c[2] < issued[g])
    BY <2>1 DEF Books, OlderIsRedeemed
  <2>5. QED
    BY <1>1, <2>1, <2>2, <2>3, <2>4, GrantAssumption DEF Known
<1>3a. <<g, issued[g] + 1>> \in Pair
  BY <1>1, <1>2, GrantAssumption DEF Pair
<1>3. PICK d \in Pair : d = <<g, issued[g] + 1>>
  BY <1>3a
<1>3b. d \in Credential /\ d[1] = g /\ d[2] = issued[g] + 1
  BY <1>3 DEF Pair, Credential
<1>4. /\ issued' = [issued EXCEPT ![g] = @ + 1]
      /\ redeemed' = redeemed \cup {c}
      /\ wire' = wire \ {<<p, c>>}
      /\ UNCHANGED <<enabled, status, term, late, ended, vault, lock, sent>>
      /\ proc' = proc \/ (Waiting(p, c) /\ proc' = [proc EXCEPT ![p].reply = d])
  BY <1>3 DEF ServeRedeem, IssueTokens, Answer
<1>5. ~Known(d) /\ sent[d] = 0
  BY <1>2, <1>3, <1>3b, GrantAssumption DEF Known, Books, SentIsKnown
<1>6. /\ \A e \in Credential : Known(e) => Known(e)'
      /\ Known(d)'
  <2>1. \A h \in Grant : issued[h] \in Nat /\ issued'[h] \in Nat /\ issued[h] <= issued'[h]
    BY <1>4, GrantAssumption DEF TypeOK
  <2>2. \A e \in Credential : e[1] \in Grant /\ e[2] \in Nat
    BY GrantAssumption DEF Credential
  <2>3. \A e \in Credential : Known(e) => Known(e)'
    BY <1>4, <2>1, <2>2 DEF Known
  <2>4. issued'[g] = issued[g] + 1
    BY <1>1, <1>4 DEF TypeOK
  <2>5. Known(d)'
    BY <1>2, <1>3, <1>3b, <1>4, <2>4, GrantAssumption DEF Known
  <2>6. QED
    BY <2>3, <2>5
<1>7. /\ proc' \in [Process -> ProcState]
      /\ Carried'
      /\ Quiet'
      /\ \A q \in Process, e \in Credential :
            Holds(q, e)' => Holds(q, e) \/ (q = p /\ e = d)
  <2>1. CASE proc' = proc
    BY <2>1 DEF TypeOK, ProcState, Carried, Holding, Quiet, Holds
  <2>2. CASE Waiting(p, c) /\ proc' = [proc EXCEPT ![p].reply = d]
    <3> DEFINE r == [proc[p] EXCEPT !.reply = d]
    <3>1. proc[p] \in ProcState /\ Carries(proc[p])
      BY DEF TypeOK, ProcState, Carried
    <3>2. /\ r \in ProcState /\ Carries(r)
          /\ r.phase \in {"exchanging", "renewing"} /\ r.reply = d
      BY <1>3, <1>3b, <2>2, <3>1 DEF ProcState, Carries, Waiting
    <3>3. proc' = [proc EXCEPT ![p] = r]
      BY <2>2 DEF TypeOK
    <3> HIDE DEF r
    <3>4. /\ proc' \in [Process -> ProcState]
          /\ proc'[p] = r
          /\ \A q \in Process : q # p => proc'[q] = proc[q]
      BY <3>2, <3>3, OneProcess
    <3>5. Carried' /\ Quiet'
      BY <3>2, <3>3, <3>4, CarriedKept DEF Holding, Quiet
    <3>6. \A q \in Process, e \in Credential :
            Holds(q, e)' => Holds(q, e) \/ (q = p /\ e = d)
      BY <3>2, <3>4 DEF Holds
    <3>7. QED
      BY <3>4, <3>5, <3>6
  <2>3. QED
    BY <1>4, <2>1, <2>2
<1>8. \A q \in Process : ~Holds(q, d)
  BY <1>3b, <1>5 DEF Holding, FreshHeld
<1>9. ~InVault(d)
  BY <1>3, <1>3b, <1>5 DEF Holding, FreshInVault
<1>10. Holding'
  <2>1. FreshInVault'
    BY <1>4, <1>6 DEF Holding, FreshInVault, InVault
  <2>2. FreshHeld'
    <3> SUFFICES ASSUME NEW q \in Process, NEW e \in Credential, Holds(q, e)'
                 PROVE  sent'[e] = 0 /\ Known(e)' /\ ~InVault(e)'
      BY DEF FreshHeld
    <3>1. InVault(e)' <=> InVault(e)
      BY <1>4 DEF InVault
    <3>2. CASE Holds(q, e)
      BY <1>4, <1>6, <3>1, <3>2 DEF Holding, FreshHeld
    <3>3. CASE e = d
      BY <1>4, <1>5, <1>6, <1>9, <3>1, <3>3
    <3>4. QED
      BY <1>7, <3>2, <3>3
  <2>3. OneHolder'
    BY <1>7, <1>8 DEF Holding, OneHolder
  <2>4. QED
    BY <1>7, <2>1, <2>2, <2>3 DEF Holding
<1>11. issued' \in [Grant -> 0..MaxPair]
  BY <1>1, <1>2, <1>4, GrantAssumption DEF TypeOK
<1>12. TypeOK'
  BY <1>4, <1>7, <1>11 DEF TypeOK, ProcState
<1>13. Books'
  <2>1. SentIsKnown' /\ PairsNeedApproval'
    BY <1>1, <1>2, <1>4, <1>6 DEF Books, SentIsKnown, PairsNeedApproval, TypeOK
  <2>2. WireIsSent' /\ OneRequest'
    BY <1>2, <1>4 DEF Books, WireIsSent, OneRequest
  <2>3. RedeemedIsSent'
    BY <1>2, <1>4 DEF Books, RedeemedIsSent
  <2>4. OlderIsRedeemed'
    <3> SUFFICES ASSUME NEW e \in Credential, e[2] < issued'[e[1]]
                 PROVE  e \in redeemed'
      BY DEF OlderIsRedeemed
    <3>1. e[1] \in Grant /\ e[2] \in Nat /\ e = <<e[1], e[2]>>
      BY GrantAssumption DEF Credential
    <3>2. CASE e[2] < issued[e[1]]
      BY <1>4, <3>2 DEF Books, OlderIsRedeemed
    <3>3. CASE ~(e[2] < issued[e[1]])
      <4>0. e[1] = g
        BY <1>4, <3>3 DEF TypeOK
      <4>1. e[1] = g /\ e[2] = issued[g]
        <5>1. issued[g] \in Nat
          BY <1>1, <1>2, GrantAssumption DEF TypeOK
        <5>2. issued'[g] = issued[g] + 1
          BY <1>1, <1>4 DEF TypeOK
        <5>3. QED
          BY <3>1, <3>3, <4>0, <5>1, <5>2
      <4>2. e = c
        BY <1>1, <1>2, <3>1, <4>1
      <4>3. QED
        BY <1>4, <4>2
    <3>4. QED
      BY <3>2, <3>3
  <2>5. SentOnce' /\ NoSelfRevocation'
    BY <1>4 DEF Books, SentOnce, NoSelfRevocation
  <2>6. QED
    BY <2>1, <2>2, <2>3, <2>4, <2>5 DEF Books
<1>14. QED
  BY <1>7, <1>10, <1>12, <1>13

-----------------------------------------------------------------------------
(* The theorems. *)

\* Every reachable state satisfies the inductive invariant.
THEOREM TokensInductive == Spec => []GrantIInv
<1>1. Init => GrantIInv
  BY GrantsHold
<1>2. GrantIInv /\ [Next]_vars => GrantIInv'
  <2> SUFFICES ASSUME GrantIInv, [Next]_vars PROVE GrantIInv'
    OBVIOUS
  <2>1. CASE Owner
    BY <2>1, OwnerKeeps
  <2>2. ASSUME NEW p \in Process, Client(p) PROVE GrantIInv'
    BY <2>2, StopKeeps, SendKeeps, SaveKeeps, TakesKeep, UseKeeps, ForgetKeeps,
       ApproveKeeps DEF Client
  <2>3. ASSUME NEW p \in Process, NEW c \in Credential, Endpoint(p, c) PROVE GrantIInv'
    BY <2>3, RefusalKeeps, RedeemKeeps DEF Endpoint
  <2>4. CASE UNCHANGED vars
    <3>1. UNCHANGED <<enabled, status, term, issued, redeemed, late, ended, vault,
                      lock, proc, wire, sent>>
      BY <2>4 DEF vars
    <3>2. TypeOK' /\ Carried'
      BY <3>1 DEF GrantIInv, TypeOK, Carried
    <3>3. Holding'
      BY <3>1 DEF GrantIInv, Holding, Quiet, FreshInVault, FreshHeld, OneHolder, Holds,
         InVault, Known
    <3>4. Books'
      BY <3>1, BooksKept DEF GrantIInv, server
    <3>5. QED
      BY <3>2, <3>3, <3>4 DEF GrantIInv
  <2>5. QED
    BY <2>1, <2>2, <2>3, <2>4 DEF Next
<1>3. QED
  BY <1>1, <1>2, PTL DEF Spec

\* Every variable keeps its type.
THEOREM TokensTypeCorrect == Spec => []TypeOK
  BY TokensInductive, PTL DEF GrantIInv

\* Codes and refresh tokens leave the client at most once.
THEOREM CredentialsSentOnce == Spec => []SentOnce
<1>1. GrantIInv => SentOnce
  BY DEF GrantIInv, Books
<1>2. QED
  BY <1>1, TokensInductive, PTL

\* Only the owner revokes: the client never triggers the server's replay rule.
THEOREM OnlyOwnerRevokes == Spec => []NoSelfRevocation
<1>1. GrantIInv => NoSelfRevocation
  BY DEF GrantIInv, Books
<1>2. QED
  BY <1>1, TokensInductive, PTL

\* A saved connection that says "ready" has the newest pair, not yet redeemed.
THEOREM ReadyRenews == Spec => []ReadyIsRenewable
<1>1. GrantIInv => ReadyIsRenewable
  <2> SUFFICES ASSUME GrantIInv, vault.phase = "ready"
               PROVE  /\ vault.cred \notin redeemed
                      /\ vault.cred[2] = issued[vault.cred[1]]
    BY DEF ReadyIsRenewable
  <2> DEFINE c == vault.cred
  <2>1. c \in Pair
    BY DEF GrantIInv, TypeOK, Empty
  <2>2. c \in Credential /\ c[1] \in Grant /\ c[2] \in Nat
    BY <2>1, GrantAssumption DEF Pair, Credential
  <2>3. sent[c] = 0 /\ Known(c)
    BY <2>2 DEF GrantIInv, Holding, FreshInVault, InVault
  <2>4. c \notin redeemed
    BY <2>2, <2>3 DEF GrantIInv, Books, RedeemedIsSent
  <2>5. ~(c[2] < issued[c[1]]) /\ c[2] <= issued[c[1]]
    BY <2>2, <2>3, <2>4 DEF GrantIInv, Books, OlderIsRedeemed, Known
  <2>6. issued[c[1]] \in Nat
    BY <2>2, GrantAssumption DEF GrantIInv, TypeOK
  <2>7. c[2] = issued[c[1]]
    BY <2>2, <2>5, <2>6
  <2>8. QED
    BY <2>4, <2>7
<1>2. QED
  BY <1>1, TokensInductive, PTL

\* What ended stays ended.
THEOREM DeadStaysDead == Spec => NoRevival
<1> DEFINE Dead == \A g \in Grant :
                      status[g] # "none" /\ ~Usable(g) => ~Usable(g)'
<1>1. TypeOK /\ [Next]_vars => Dead
  <2> SUFFICES ASSUME TypeOK, [Next]_vars, NEW g \in Grant,
                      status[g] # "none", ~Usable(g)
               PROVE  ~Usable(g)'
    BY DEF Dead
  <2>1. CASE Owner
    BY <2>1 DEF Owner, RevokeDevice, EnableDevice, RetainGrants, RevokeGrant,
       TermOver, Lapse, RevokeAll, Existing, Retained, Usable, TypeOK
  <2>2. ASSUME NEW p \in Process, NEW h \in Grant, Approve(p, h) PROVE ~Usable(g)'
    BY <2>2 DEF Approve, Usable, TypeOK
  <2>3. ASSUME NEW p \in Process, Client(p), ~\E h \in Grant : Approve(p, h)
        PROVE ~Usable(g)'
    BY <2>3 DEF Client, ExchangeCode, LoginReply, Install, NewRequest, AskRefused,
       AskCurrent, SaveIntent, SaveIntentFails, SendRenewal, Renewed,
       RenewedUnsaved, GiveUp, RequestServed, RequestRejected, LockBusy, Forget,
       Crash, Usable, server
  <2>4. ASSUME NEW p \in Process, NEW c \in Credential, Endpoint(p, c)
        PROVE ~Usable(g)'
    BY <2>4 DEF Endpoint, ServeRefused, ServeRedeem, Lose, Usable,
       server, TypeOK
  <2>5. CASE UNCHANGED vars
    BY <2>5 DEF vars, Usable
  <2>6. QED
    BY <2>1, <2>2, <2>3, <2>4, <2>5 DEF Next
<1>2. QED
  BY <1>1, TokensTypeCorrect, PTL DEF Spec, NoRevival
=============================================================================
