---------------------------- MODULE SubchatSetup ----------------------------
(***************************************************************************)
(* Which Chat login the Subchat tools use: the commands of                 *)
(* anywhere-subchat-setup (subchat_setup.py), the files they leave         *)
(* (login-selection.json, named-login-selections.json, the HTTP            *)
(* configuration and the staged snapshots of Chrome profiles), the Plugin  *)
(* that starts from them (subchat_plugin.py) and the HTTP service that     *)
(* reads its configuration.  Commands run side by side, may be interrupted *)
(* or killed between any two steps, and the user signs in and out of       *)
(* Chrome at any time.  On macOS a login is a Chrome profile or a snapshot *)
(* of one, on Windows it is one dedicated profile.                         *)
(***************************************************************************)
EXTENDS Naturals, FiniteSets, Sequences

CONSTANTS Profile,     \* Chrome profiles of the user
          Login,       \* Chat accounts
          Name,        \* names of saved selections
          MaxNames,    \* named selections
          MaxCommands, \* bound on commands, numbered as they begin
          MaxLogins,   \* bound on changes of a login
          MaxStarts,   \* bound on starts of the Plugin and of the HTTP service
          None

VARIABLES
    platform,  \* sys.platform
    live,      \* the account a profile is signed in to
    was,       \* every profile with every account it was ever signed in to
    selection, \* login-selection.json
    names,     \* named-login-selections.json
    config,    \* the subchat part of http-server/config.json
    snaps,     \* staged snapshots, in the order of their publication
    stageLock, \* profile-stage.lock
    httpLock,  \* http-watch.lock and http-server.lock, always taken together
    cmd,       \* the commands that run
    quota,     \* commands, changes of a login and starts that are left
    session,   \* the Plugin
    service,   \* the configuration a running HTTP service has read
    report,    \* the last answer of doctor
    consented, \* accounts a selection with --enable-background-send was saved for
    saved,     \* what save-named last reported of each name
    torn       \* a command was interrupted after its save, and removed what it had staged

setupVars == <<platform, live, was, selection, names, config, snaps, stageLock, httpLock, cmd,
               quota, session, service, report, consented, saved, torn>>

Command == 1..MaxCommands
Service == 0    \* the HTTP service among the holders of its lock
Sources == Profile \cup {"own"}

\* A place where a login is: a profile or a staged snapshot.
Place(kind, at) == [kind |-> kind, at |-> at]
Staged(place) == place.kind = "staged"

\* _selection_record: a place, the account pinned for it, and the consent to send.  A
\* selection is undone when it carries a consent that was revoked after it was read.
Record(place, account, send, undone) ==
    [place |-> place, account |-> account, send |-> send, undone |-> undone]
Pin(record) == IF record = None THEN None ELSE record.account

Idle == [at |-> "idle", do |-> None, profile |-> None, account |-> None, send |-> FALSE,
         name |-> None, seen |-> None, table |-> None, snap |-> 0, copy |-> None,
         revoked |-> FALSE]

Off == [at |-> "off", first |-> None, place |-> None, pin |-> None, send |-> FALSE,
        login |-> None, moved |-> FALSE]

\* Earlier commands may have left a selection.
SetupInit ==
    /\ platform \in {"darwin", "win32"}
    /\ live \in [Sources -> Login \cup {None}]
    /\ \A p \in Sources : (platform = "win32") # (p = "own") => live[p] = None
    /\ was = {<<p, live[p]>> : p \in Sources}
    /\ selection \in {None} \cup
           {Record(Place("id", p), live[p], send, FALSE) : p \in Profile, send \in BOOLEAN}
    /\ selection # None => platform = "darwin" /\ selection.account # None
    /\ names = [n \in Name |-> None]
    /\ config \in {None} \cup
           {Record(Place("path", p), a, TRUE, FALSE) : p \in Profile, a \in Login}
    /\ snaps = <<>>
    /\ stageLock = None /\ httpLock = None
    /\ cmd = [c \in Command |-> Idle]
    /\ quota = [commands |-> MaxCommands, logins |-> MaxLogins, starts |-> MaxStarts]
    /\ session = Off /\ service = None /\ report = None
    /\ consented = IF selection # None /\ selection.send THEN {selection.account} ELSE {}
    /\ saved = names /\ torn = FALSE

\* The user signs in to another account, or out.
SignIn(p) ==
    \E a \in Login \cup {None} :
        /\ quota.logins > 0 /\ a # live[p]
        /\ (platform = "win32") = (p = "own")
        /\ quota' = [quota EXCEPT !.logins = @ - 1]
        /\ live' = [live EXCEPT ![p] = a]
        /\ was' = was \cup {<<p, a>>}
        /\ UNCHANGED <<platform, selection, names, config, snaps, stageLock, httpLock, cmd,
                       session, service, report, consented, saved, torn>>

\* The account that a look at a place finds, None when it cannot be read.
AccountAt(place) ==
    CASE place = None -> live["own"]
      [] place # None /\ Staged(place) ->
             IF snaps[place.at].there THEN snaps[place.at].account ELSE None
      [] OTHER -> live[place.at]

-----------------------------------------------------------------------------
(* Commands. *)

Choosing == {"select", "choose", "choose-dedicated"}
Guarded == {"choose", "choose-dedicated", "revoke", "stage", "save-named", "use-named"}
Actions == IF platform = "win32" THEN {"choose-dedicated", "revoke", "doctor"}
           ELSE {"select", "choose", "revoke", "stage", "stage-http", "save-named",
                 "use-named", "doctor"}

First(do) ==
    CASE do \in Choosing -> "inspect"
      [] do \in Guarded \ Choosing -> "lock"
      [] do = "stage-http" -> "lockHttp"
      [] do = "doctor" -> "read"

\* main: each action is given what it needs, and nothing else.
Wanted(do, p, a, e, n) ==
    [Idle EXCEPT !.at = First(do), !.do = do, !.profile = p, !.account = a, !.send = e,
                 !.name = n]
\* Only the commands that choose a login enable it for sending.
NoConsent == {FALSE}
WellFormed ==
    {Wanted(do, p, a, e, None) : do \in {"select", "choose"}, p \in Profile, a \in Login,
                                 e \in BOOLEAN}
    \cup {Wanted("choose-dedicated", "own", a, e, None) : a \in Login, e \in BOOLEAN}
    \cup {Wanted(do, p, a, e, None) : do \in {"stage", "stage-http"}, p \in Profile,
                                     a \in Login, e \in NoConsent}
    \cup {Wanted("save-named", None, None, e, n) : n \in Name, e \in NoConsent}
    \cup {Wanted("use-named", None, a, e, n) : a \in Login, n \in Name, e \in NoConsent}
    \cup {Wanted(do, None, None, e, None) : do \in {"revoke", "doctor"}, e \in NoConsent}

Begin(c) ==
    /\ c = MaxCommands - quota.commands + 1
    /\ quota' = [quota EXCEPT !.commands = @ - 1]
    /\ \E wanted \in WellFormed : wanted.do \in Actions /\ cmd' = [cmd EXCEPT ![c] = wanted]
    /\ UNCHANGED <<platform, live, was, selection, names, config, snaps, stageLock, httpLock,
                   session, service, report, consented, saved, torn>>

\* The command goes on; it ends, and its locks with it.
Goes(c, next) ==
    /\ cmd' = [cmd EXCEPT ![c] = next]
    /\ UNCHANGED <<stageLock, httpLock>>
Ends(c) ==
    /\ cmd' = [cmd EXCEPT ![c] = Idle]
    /\ stageLock' = IF stageLock = c THEN None ELSE stageLock
    /\ httpLock' = IF httpLock = c THEN None ELSE httpLock
GoesIf(c, condition, next) == IF condition THEN Goes(c, next) ELSE Ends(c)

Only == UNCHANGED <<platform, live, was, selection, names, config, snaps, quota, session,
                    service, report, consented, saved, torn>>

\* inspect_account, inspect_dedicated_account: a look at the profile through a private
\* copy; only the account that the owner confirmed is saved.
Confirmed(c) == AccountAt(Place("path", cmd[c].profile)) = cmd[c].account
Inspect(c) ==
    /\ cmd[c].at = "inspect"
    /\ GoesIf(c, Confirmed(c),
              [cmd[c] EXCEPT !.at = IF cmd[c].do \in {"choose", "choose-dedicated"}
                                    THEN "lock" ELSE "save"])
    /\ Only

\* ProcessLock without a timeout: a command that finds the lock busy fails.
Lock(c) ==
    /\ cmd[c].at = "lock"
    /\ IF stageLock = None
       THEN /\ stageLock' = c
            /\ cmd' = [cmd EXCEPT ![c].at = IF cmd[c].do \in {"stage", "save-named", "use-named"}
                                            THEN "read" ELSE "save"]
            /\ UNCHANGED httpLock
       ELSE Ends(c)
    /\ Only

\* stage --http-state-dir: the service is stopped, and pins the account.
LockHttp(c) ==
    /\ cmd[c].at = "lockHttp"
    /\ IF httpLock = None /\ Pin(config) = cmd[c].account
       THEN /\ httpLock' = c
            /\ cmd' = [cmd EXCEPT ![c].at = "copy", ![c].seen = config]
            /\ UNCHANGED stageLock
       ELSE Ends(c)
    /\ Only

\* stage keeps the pinned account, and the consent of the selection it replaces.
ReadToStage(c) ==
    /\ cmd[c].at = "read" /\ cmd[c].do = "stage"
    /\ GoesIf(c, selection = None \/ selection.account = cmd[c].account,
              [cmd[c] EXCEPT !.at = "copy", !.seen = selection])
    /\ Only

Used(table) == {n \in Name : table[n] # None}
ReadToName(c) ==
    /\ cmd[c].at = "read" /\ cmd[c].do = "save-named"
    /\ GoesIf(c, /\ selection # None /\ selection.place.kind = "id"
                 /\ (names[cmd[c].name] # None \/ Cardinality(Used(names)) < MaxNames),
              [cmd[c] EXCEPT !.at = "save", !.seen = selection, !.table = names])
    /\ Only

\* use-named: the confirmed account is the one saved under the name, and is seen again.
ReadNamed(c) ==
    LET named == names[cmd[c].name]
    IN  /\ cmd[c].at = "read" /\ cmd[c].do = "use-named"
        /\ GoesIf(c, named # None /\ named.account = cmd[c].account,
                  [cmd[c] EXCEPT !.at = "inspect", !.profile = named.place.at,
                                 !.send = named.send])
        /\ Only

\* stage_profile: a filtered copy of the profile, whose own login is inspected, is
\* published by a rename.
Copy(c) ==
    /\ cmd[c].at = "copy"
    /\ GoesIf(c, live[cmd[c].profile] # None,
              [cmd[c] EXCEPT !.at = "publish", !.copy = live[cmd[c].profile]])
    /\ Only

Matches(c) == cmd[c].copy = cmd[c].account
Publish(c) ==
    /\ cmd[c].at = "publish"
    /\ GoesIf(c, Matches(c),
              [cmd[c] EXCEPT !.at = "save", !.snap = Len(snaps) + 1, !.copy = None])
    /\ snaps' = IF Matches(c) THEN Append(snaps, [account |-> cmd[c].copy, there |-> TRUE])
                ELSE snaps
    /\ UNCHANGED <<platform, live, was, selection, names, config, quota, session, service,
                   report, consented, saved, torn>>

\* What the command writes, by one replacement of a file.
Saved(c) ==
    LET kind == CASE cmd[c].do = "select" -> "path"
                  [] cmd[c].do = "choose-dedicated" -> "dedicated"
                  [] OTHER -> "id"
    IN  IF cmd[c].do = "stage"
        THEN Record(Place("staged", cmd[c].snap), cmd[c].account,
                    cmd[c].seen # None /\ cmd[c].seen.send, cmd[c].revoked)
        ELSE Record(Place(kind, cmd[c].profile), cmd[c].account, cmd[c].send, FALSE)

SaveSelection(c) ==
    /\ cmd[c].do \in Choosing \cup {"stage", "use-named"}
    /\ selection' = Saved(c)
    /\ consented' = IF cmd[c].do \in Choosing /\ cmd[c].send
                    THEN consented \cup {cmd[c].account} ELSE consented
    /\ UNCHANGED <<names, saved, config>>

\* _save_http_selection: only the profile changes, and only for the account it pins.
SaveHttp(c) ==
    /\ cmd[c].do = "stage-http" /\ config.account = cmd[c].account
    /\ config' = [config EXCEPT !.place = Place("staged", cmd[c].snap)]
    /\ UNCHANGED <<selection, consented, names, saved>>

SaveNamed(c) ==
    /\ cmd[c].do = "save-named"
    /\ names' = [cmd[c].table EXCEPT ![cmd[c].name] = cmd[c].seen]
    /\ saved' = [saved EXCEPT ![cmd[c].name] = cmd[c].seen]
    /\ UNCHANGED <<selection, consented, config>>

Save(c) ==
    /\ cmd[c].at = "save" /\ cmd[c].do # "revoke"
    /\ SaveSelection(c) \/ SaveHttp(c) \/ SaveNamed(c)
    /\ IF cmd[c].do = "stage-http" THEN Goes(c, [cmd[c] EXCEPT !.at = "clean"]) ELSE Ends(c)
    /\ UNCHANGED <<platform, live, was, snaps, quota, session, service, report, torn>>

\* revoke_profile_id_selection: the file is removed, whatever it selects.
Revoke(c) ==
    /\ cmd[c].at = "save" /\ cmd[c].do = "revoke"
    /\ selection' = None
    /\ cmd' = [d \in Command |->
                  IF d = c THEN Idle
                  ELSE [cmd[d] EXCEPT !.revoked = @ \/ (cmd[d].do = "stage" /\ cmd[d].seen # None)]]
    /\ stageLock' = IF stageLock = c THEN None ELSE stageLock
    /\ UNCHANGED <<platform, live, was, names, config, snaps, httpLock, quota, session, service,
                   report, consented, saved, torn>>

Removed(snap) == [snaps EXCEPT ![snap].there = FALSE]

\* _remove_previous_managed_snapshot
Clean(c) ==
    /\ cmd[c].at = "clean"
    /\ snaps' = IF Staged(cmd[c].seen.place) THEN Removed(cmd[c].seen.place.at) ELSE snaps
    /\ Ends(c)
    /\ UNCHANGED <<platform, live, was, selection, names, config, quota, session, service,
                   report, consented, saved, torn>>

\* Ctrl+C or a failure: what the command staged goes, also when the save had taken place
\* and the exception came after it.
Interrupted(c) ==
    /\ cmd[c].at # "idle"
    /\ \/ UNCHANGED <<selection, consented, names, saved, config, torn>>
       \/ /\ cmd[c].at = "save" /\ cmd[c].snap # 0
          /\ SaveSelection(c) \/ SaveHttp(c)
          /\ torn' = TRUE
    /\ snaps' = IF cmd[c].at = "save" /\ cmd[c].snap # 0 THEN Removed(cmd[c].snap) ELSE snaps
    /\ Ends(c)
    /\ UNCHANGED <<platform, live, was, quota, session, service, report>>

\* The process is killed: a snapshot that nothing selects may stay.
Killed(c) ==
    /\ cmd[c].at # "idle"
    /\ Ends(c)
    /\ Only

\* diagnose_plugin_setup: the record, then again the place and its pin, then the account.
ReadToDiagnose(c) ==
    /\ cmd[c].at = "read" /\ cmd[c].do = "doctor"
    /\ GoesIf(c, selection # None, [cmd[c] EXCEPT !.at = "resolve", !.seen = selection])
    /\ Only

Resolve(c) ==
    /\ cmd[c].at = "resolve"
    /\ IF cmd[c].seen.place.kind = "dedicated"
       THEN Goes(c, [cmd[c] EXCEPT !.at = "observe", !.table = cmd[c].seen.place])
       ELSE GoesIf(c, selection # None /\ selection.account = cmd[c].seen.account,
                   [cmd[c] EXCEPT !.at = "observe", !.table = selection.place])
    /\ Only

Observe(c) ==
    LET observed == AccountAt(cmd[c].table)
        matched == observed = cmd[c].seen.account
    IN  /\ cmd[c].at = "observe"
        /\ report' = IF observed = None THEN report
                     ELSE [place |-> cmd[c].table, account |-> observed, matched |-> matched,
                           send |-> matched /\ cmd[c].seen.send]
        /\ Ends(c)
        /\ UNCHANGED <<platform, live, was, selection, names, config, snaps, quota, session,
                       service, consented, saved, torn>>

-----------------------------------------------------------------------------
(* The Plugin and the HTTP service, which use what was selected. *)

Starts == quota.starts > 0 /\ quota' = [quota EXCEPT !.starts = @ - 1]

SessionStep(next) ==
    /\ session' = next
    /\ UNCHANGED <<platform, live, was, selection, names, config, snaps, stageLock, httpLock,
                   cmd, service, report, consented, saved, torn>>

\* subchat_plugin.main: the selection is read once for the consent,
StartPlugin ==
    /\ session.at = "off" /\ Starts
    /\ SessionStep([Off EXCEPT !.at = "decide", !.first = selection])

\* again for the place and the pin without which nothing is sent,
Sends(first) ==
    /\ selection # None /\ first # None /\ first.send
    /\ platform = "win32" => first.place.kind = "dedicated"
DecideTransport ==
    /\ session.at = "decide" /\ UNCHANGED quota
    /\ SessionStep([session EXCEPT !.at = "resolve", !.send = Sends(session.first),
                                   !.moved = selection # session.first])

\* and a third time for the place and the pin it starts with.  Without a selection it
\* starts with its own profile and no pin, on Windows only to read.
ResolveLogin ==
    /\ session.at = "resolve" /\ UNCHANGED quota
    /\ SessionStep(
           IF platform = "win32" /\ session.send /\ selection = None THEN Off
           ELSE [session EXCEPT !.at = "open", !.pin = Pin(selection),
                                !.place = IF selection = None THEN None ELSE selection.place,
                                !.moved = @ \/ selection # session.first, !.first = None])

\* chrome_http_session: another account than the pinned one is refused.  A session that
\* only reads goes on without a login, and may try again later.
Accepts(login) == login # None /\ session.pin \in {None, login}
OpenSession ==
    LET login == AccountAt(session.place)
    IN  /\ session.at = "open" \/ (session.at = "on" /\ ~session.send)
        /\ UNCHANGED quota
        /\ SessionStep(
               CASE Accepts(login) -> [session EXCEPT !.at = "on", !.login = login]
                 [] ~Accepts(login) /\ session.send -> Off
                 [] ~Accepts(login) /\ ~session.send -> [session EXCEPT !.at = "on"])

StopPlugin == session.at # "off" /\ SessionStep(Off) /\ UNCHANGED quota

StartService ==
    /\ httpLock = None /\ config # None /\ Starts
    /\ httpLock' = Service /\ service' = config
    /\ UNCHANGED <<platform, live, was, selection, names, config, snaps, stageLock, cmd,
                   session, report, consented, saved, torn>>

StopService ==
    /\ httpLock = Service
    /\ httpLock' = None /\ service' = None
    /\ UNCHANGED <<platform, live, was, selection, names, config, snaps, stageLock, cmd, quota,
                   session, report, consented, saved, torn>>

SetupNext ==
    \/ \E p \in Sources : SignIn(p)
    \/ \E c \in Command :
           \/ Begin(c) \/ Inspect(c) \/ Lock(c) \/ LockHttp(c)
           \/ ReadToStage(c) \/ ReadToName(c) \/ ReadNamed(c) \/ ReadToDiagnose(c)
           \/ Copy(c) \/ Publish(c) \/ Save(c) \/ Revoke(c) \/ Clean(c)
           \/ Resolve(c) \/ Observe(c) \/ Interrupted(c) \/ Killed(c)
    \/ StartPlugin \/ DecideTransport \/ ResolveLogin \/ OpenSession \/ StopPlugin
    \/ StartService \/ StopService

SetupSpec == SetupInit /\ [][SetupNext]_setupVars

-----------------------------------------------------------------------------
(* Properties. *)

\* The account pinned for a place was seen in it: the profile was once signed in to it,
\* a snapshot still is.
SeenThere(record) ==
    IF Staged(record.place) THEN snaps[record.place.at].account = record.account
    ELSE <<record.place.at, record.account>> \in was
PinsSeen ==
    /\ selection # None => SeenThere(selection)
    /\ \A n \in Name : names[n] # None => SeenThere(names[n])
    /\ config # None /\ Staged(config.place) => SeenThere(config)

\* Sending is on only for an account for which the owner once enabled it, in every file,
\* in the answers of doctor, and in a Plugin whose selection did not change while it
\* started.
SendConsented ==
    /\ selection # None /\ selection.send => selection.account \in consented
    /\ \A n \in Name : names[n] # None /\ names[n].send => names[n].account \in consented
    /\ report # None /\ report.send => report.account \in consented
    /\ session.login # None /\ session.send /\ ~session.moved => session.login \in consented

\* A consent that was revoked does not come back with a command that had read it before.
RevokeStands == selection # None => ~selection.undone

\* A name holds what was last reported as saved under it, and there are not too many.
NamesKept == names = saved /\ Cardinality(Used(names)) <= MaxNames

\* A snapshot that a file selects or a running service uses is there, unless a command
\* was interrupted right after it had saved it.
SourceStands ==
    \A record \in {selection, config, service} \ {None} :
        Staged(record.place) /\ ~torn => snaps[record.place.at].there
=============================================================================
