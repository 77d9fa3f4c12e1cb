--------------------------- MODULE MCSubchatLedger ---------------------------
(***************************************************************************)
(* Subchat sends: the saved submissions, the dedicated browser under one   *)
(* transport of them, from its process to the POST of its pages, and the   *)
(* commands that choose the login it uses.  The parts share no state: one  *)
(* behaviour runs one of them, the others stay in their initial states.    *)
(***************************************************************************)
EXTENDS SubchatLedger, TLC

CONSTANTS o1, o2, o3,
          MaxTries,    \* preparations of a message that come to nothing
          Name,        \* names of saved selections
          MaxNames, MaxCommands, MaxLogins, MaxStarts, \* see SubchatSetup
          MaxTurns,    \* messages taken up and messages edited, in one behaviour
          MaxMoves     \* commands, logins that change and starts, in one behaviour

\* What a file says of a login: where it is, and what was confirmed for it.
Places == [kind : {"id", "path", "dedicated", "staged"}, at : Choice \cup {"own"} \cup Nat]
Selections == [place : Places, account : Account, send : BOOLEAN, undone : BOOLEAN]

ASSUME TransportAssumption ==
    /\ "abort" \notin Account /\ "own" \notin Choice
    /\ None \notin Nat \cup {"abort", "own"} /\ None \notin Places /\ None \notin Selections
    /\ IsFiniteSet(Name)
    /\ {MaxTries, MaxNames, MaxCommands, MaxLogins, MaxStarts} \subseteq Nat

ASSUME BoundAssumption == MaxTurns \in Nat /\ MaxMoves \in Nat

\* o2 is a queued follow-up of o1; o3 is unrelated.
MCAfter == (o1 :> None) @@ (o2 :> o1) @@ (o3 :> None)

\* Accounts are interchangeable, and so are the things that can be chosen.
SubchatSymmetry == Permutations(Account) \cup Permutations(Choice)

VARIABLES part, httpx, row, identified, holder, at, fresh, previous, tab, pages, touched,
          unreusable, finished, block, claimed, dispatched, told, gen, release, open, shown,
          draft, fetch, routes, left, appeared, tries, robbed, orphaned

\* The two accounts and choices also name two messages and two tabs.
Browser == INSTANCE BrowserSend WITH
    Op <- Account, Page <- Choice, state <- row, landed <- appeared

browserVars == <<httpx, row, identified, holder, at, fresh, previous, tab, pages, touched,
                 unreusable, finished, block, claimed, dispatched, told, gen, release, open,
                 shown, draft, fetch, routes, left, appeared, tries, robbed, orphaned>>

VARIABLES lock, ownerFile, port, owner, found, guardian, process, foreign, struck

\* Three entries of the context manager, one after another or at once.
Chrome == INSTANCE BackgroundChrome WITH Owner <- Op

chromeVars == <<lock, ownerFile, port, owner, found, guardian, process, foreign, struck>>

VARIABLES platform, live, was, selection, names, config, snaps, stageLock, httpLock, cmd,
          quota, session, service, report, consented, saved, torn

\* Commands beside a Plugin or a service; the choices also name Chrome profiles.
Setup == INSTANCE SubchatSetup WITH
    Profile <- Choice, Login <- Account

setupVars == <<platform, live, was, selection, names, config, snaps, stageLock, httpLock, cmd,
               quota, session, service, report, consented, saved, torn>>

\* Two profiles signed in to two accounts, one of which the HTTP service uses.
SetupStarts ==
    /\ Setup!SetupInit
    /\ (config = None) = (platform = "win32")
    /\ platform = "darwin" =>
           /\ \A p, q \in Choice : live[p] # None /\ (live[p] = live[q] => p = q)
           /\ config.account = live[config.place.at]
    /\ part # "setup" => platform = "win32" /\ live["own"] = None

TransportInit ==
    /\ part \in {"ledger", "browser", "chrome", "setup"}
    /\ Init /\ Browser!BrowserSendInit /\ Chrome!BackgroundInit /\ SetupStarts
    /\ part = "browser" \/ httpx

\* One behaviour need not meet all of what the other bounds allow at once.
Turns == Cardinality({o \in Op : state[o] # "absent"}) + Cardinality({o \in Op : revision[o] # 0})
Moves == (MaxCommands - quota.commands) + (MaxLogins - quota.logins) + (MaxStarts - quota.starts)

TransportNext ==
    /\ UNCHANGED part
    /\ \/ /\ part = "ledger" /\ Next /\ Turns' <= MaxTurns
          /\ UNCHANGED <<browserVars, chromeVars, setupVars>>
       \/ part = "browser" /\ Browser!BrowserSendNext /\ UNCHANGED <<vars, chromeVars, setupVars>>
       \/ part = "chrome" /\ Chrome!BackgroundNext /\ UNCHANGED <<vars, browserVars, setupVars>>
       \/ /\ part = "setup" /\ Setup!SetupNext /\ Moves' <= MaxMoves
          /\ UNCHANGED <<vars, browserVars, chromeVars>>

TransportSpec == TransportInit /\ [][TransportNext]_<<part, vars, browserVars, chromeVars, setupVars>>

\* What the ledger says of a POST is true of the page that makes it, no baseline shows a
\* message that never left, and nobody closes the tab of another message or ends the
\* Chrome of another owner, nor leaves one behind.  The login it uses was seen and
\* enabled for sending (see BrowserSend, BackgroundChrome, SubchatSetup).
TransportTrue ==
    /\ Browser!NothingEscaped /\ Browser!EscapesRecorded
    /\ Browser!BaselineTrue /\ Browser!TabsSpared
    /\ Chrome!NoneLeft /\ Chrome!AttachedSpared
    /\ Setup!PinsSeen /\ Setup!SendConsented /\ Setup!RevokeStands
    /\ Setup!NamesKept /\ Setup!SourceStands
=============================================================================
