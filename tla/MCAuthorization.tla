---------------------------- MODULE MCAuthorization ----------------------------
(***************************************************************************)
(* The hosted service: the consent pages that lead to a grant, the tokens  *)
(* issued under it, and the processes that serve it and connect it to the  *)
(* outside.  They share no state: one behaviour runs one of them, the      *)
(* others stay where they start.                                           *)
(***************************************************************************)
EXTENDS GrantTokens, OwnerConsent, TLC
CONSTANTS g1, g2, p1, p2, c1, k1, k2, t1, t2

\* One grant of an older release, one approved during the run.
AllGrants == {g1, g2}
OldGrants == {g1}
\* Client processes; the two requests that answer one page share their names.
\* Consents do not influence each other: one page is enough.
Processes == {p1, p2}
Requests == {p1, p2}
Consents == {c1}
Keys == {k1, k2}
Tickets == {t1, t2}
Symmetric == Permutations(Processes) \cup Permutations(Keys) \cup Permutations(Tickets)

CONSTANTS RestartLimit, CredentialReads,
          MaxLate \* credentials that outlive their time, in one behaviour

\* Supervisors, services, runners and tokens have the names of pages, processes, keys
\* and tickets: one supervisor at a time, that may find what a killed one left behind.
ASSUME ReachAssumption ==
    /\ RestartLimit \in Nat /\ CredentialReads \in Nat /\ MaxLate \in Nat
    /\ Consent \cap Process = {} /\ Consent \cap Key = {} /\ Process \cap Key = {}
    /\ {Nothing, "lost", "hand"} \cap (Consent \cup Process \cup Key \cup Ticket) = {}
    /\ Nothing \notin {"lost", "hand"}

VARIABLES half, locks, watch, service, runner, cloud, loose, saved

Reach == INSTANCE RemoteService WITH
    Watch <- Consent, Serve <- Process, Runner <- Key, Token <- Ticket,
    Limit <- RestartLimit, Reads <- CredentialReads,
    None <- Nothing, lock <- locks, serve <- service

reachVars == <<locks, watch, service, runner, cloud, loose, saved>>

\* The half at rest needs one initial state, not all of them.
HalfInit ==
    /\ half \in {"tokens", "consent", "reach"} /\ Init /\ ConsentInit /\ Reach!RemoteInit
    /\ half # "tokens" => enabled /\ vault = Empty
HalfNext ==
    /\ UNCHANGED half
    /\ \/ /\ half = "tokens" /\ Next /\ Cardinality(late') <= MaxLate
          /\ UNCHANGED <<consentVars, reachVars>>
       \/ half = "consent" /\ ConsentNext /\ UNCHANGED <<vars, reachVars>>
       \/ half = "reach" /\ Reach!RemoteNext /\ UNCHANGED <<vars, consentVars>>
HalfSpec == HalfInit /\ [][HalfNext]_<<half, vars, consentVars, reachVars>>

\* No service or runner survives a parent that was not killed, and no connector but one
\* that is loose; behind a connector there is a service, and in its hand the saved token
\* (see RemoteService).
ReachKept == Reach!NothingLeft /\ Reach!Fronted /\ Reach!OneConnector
=============================================================================
