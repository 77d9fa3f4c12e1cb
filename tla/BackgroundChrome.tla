--------------------------- MODULE BackgroundChrome ---------------------------
(***************************************************************************)
(* The dedicated Chrome that runs in the background (subchat_browser/      *)
(* background.py, background_guardian.py).  An owner takes the lock of the *)
(* profile, ends what a predecessor left, names itself in the owner file,  *)
(* arms a guardian, lets `open` start Chrome and attaches to the port that *)
(* Chrome publishes; Chrome carries the owner's token on its command line. *)
(* Whoever ends a Chrome finds it by that token.                           *)
(*                                                                         *)
(* An owner is one entry of the context manager, with a token of its own;  *)
(* owners follow each other, die, or are cancelled.  `open` returns before *)
(* Chrome is there, at most as much earlier as _stop_profile_processes     *)
(* waits (startup_grace).  A profile has one Chrome: another one that is   *)
(* started hands over to it and ends.                                      *)
(***************************************************************************)
EXTENDS Naturals

CONSTANTS Owner, \* entries of background_chrome_context, and their tokens
          None

VARIABLES
    lock,      \* .anywhere-background.lock
    ownerFile, \* .anywhere-background.owner
    port,      \* DevToolsActivePort: whose Chrome has written it
    owner,     \* where each owner is
    found,     \* the Chrome whose port an owner has read
    guardian,  \* the guardian of each owner
    process,   \* the Chrome of each owner
    foreign,   \* a Chrome that somebody else runs on the profile
    struck     \* history: Chromes ended by other than their owner's side while it used them

files == <<lock, ownerFile, port>>

BackgroundInit ==
    /\ lock = None /\ ownerFile = None /\ port = None
    /\ owner = [o \in Owner |-> "idle"]
    /\ found = [o \in Owner |-> None]
    /\ guardian = [o \in Owner |-> "none"]
    /\ process = [o \in Owner |-> "none"]
    /\ foreign = FALSE
    /\ struck = {}

Goto(o, s) == owner' = [owner EXCEPT ![o] = s]
Leave(o, s) == Goto(o, s) /\ lock' = None

\* _owned_processes: a Chrome that hands over is on the process list, too.
Visible(o) == process[o] \in {"running", "leaving"}
Running == {o \in Owner : Visible(o)}

\* terminate, kill, and their confirmation.
Ended(S) == process' = [o \in Owner |-> IF o \in S THEN "gone" ELSE process[o]]

-----------------------------------------------------------------------------
Lock(o) ==
    /\ owner[o] = "idle" /\ lock = None
    /\ lock' = o
    /\ Goto(o, "locked")
    /\ UNCHANGED <<ownerFile, port, found, guardian, process, foreign, struck>>

\* What runs on the profile must carry the token of the owner file, and is ended.
Predecessor == {t \in Running : t = ownerFile}

StopPrevious(o) ==
    /\ owner[o] = "locked"
    /\ IF Running = Predecessor /\ ~foreign
       THEN /\ Goto(o, "alone")
            /\ Ended(Predecessor)
            /\ struck' = struck \cup {t \in Predecessor : owner[t] = "attached"}
            /\ UNCHANGED lock
       ELSE Leave(o, "done") /\ UNCHANGED <<process, struck>>
    /\ UNCHANGED <<ownerFile, port, found, guardian, foreign>>

\* _start_guardian waits until the guardian answers, or gives up and ends it.
Arm(o, ready) ==
    /\ owner[o] = "alone"
    /\ port' = None
    /\ ownerFile' = o
    /\ IF ready THEN Goto(o, "armed") /\ UNCHANGED lock ELSE Leave(o, "done")
    /\ guardian' = [guardian EXCEPT ![o] = IF ready THEN "watching" ELSE @]
    /\ UNCHANGED <<found, process, foreign, struck>>

\* `open` asks Launch Services, or fails.
Launch(o, launched) ==
    /\ owner[o] = "armed"
    /\ process' = [process EXCEPT ![o] = IF launched THEN "launched" ELSE @]
    /\ Goto(o, IF launched THEN "launched" ELSE "leaving")
    /\ UNCHANGED <<files, found, guardian, foreign, struck>>

FindPort(o) ==
    /\ owner[o] = "launched"
    /\ port # None
    /\ found' = [found EXCEPT ![o] = port]
    /\ Goto(o, "found")
    /\ UNCHANGED <<files, guardian, process, foreign, struck>>

\* The port is only a hint: a Chrome with our token must run, and answer.
Attach(o) ==
    /\ owner[o] = "found"
    /\ Goto(o, IF Visible(o) /\ process[found[o]] = "running" THEN "attached"
               ELSE IF Visible(o) THEN "unattached" ELSE "leaving")
    /\ UNCHANGED <<files, found, guardian, process, foreign, struck>>

\* The context is left, or the owner is cancelled, at any point after the guardian.
Leaves(o) ==
    /\ owner[o] \in {"armed", "launched", "found", "unattached", "attached"}
    /\ Goto(o, IF owner[o] \in {"unattached", "attached"} THEN "detaching" ELSE "leaving")
    /\ UNCHANGED <<files, found, guardian, process, foreign, struck>>

\* cleanup: without a confirmed process one that is still to come is waited for.
\* Then the guardian is told, or (the process does not end) left to do it.
Cleanup(o, ended) ==
    /\ \/ owner[o] = "leaving" /\ process[o] # "launched"
       \/ owner[o] = "detaching"
    /\ IF ended
       THEN /\ Ended({o} \cap Running)
            /\ port' = None
            /\ guardian' = [guardian EXCEPT ![o] = "dismissed"]
       ELSE /\ Visible(o)
            /\ guardian' = [guardian EXCEPT ![o] = "alarmed"]
            /\ UNCHANGED <<process, port>>
    /\ Goto(o, "waiting")
    /\ UNCHANGED <<lock, ownerFile, found, foreign, struck>>

\* _finish_guardian waits for the guardian's end.
Finish(o) ==
    /\ owner[o] = "waiting"
    /\ guardian[o] \in {"dismissed", "ended", "failed"}
    /\ Leave(o, "done")
    /\ UNCHANGED <<ownerFile, port, found, guardian, process, foreign, struck>>

Dies(o) ==
    /\ owner[o] \notin {"idle", "done", "dead"}
    /\ Leave(o, "dead")
    /\ guardian' = [guardian EXCEPT ![o] = IF @ = "watching" THEN "alarmed" ELSE @]
    /\ UNCHANGED <<ownerFile, port, found, process, foreign, struck>>

\* background_guardian: its pipe ended without a dismissal.
Guard(o, ended) ==
    /\ guardian[o] = "alarmed"
    /\ process[o] # "launched"
    /\ guardian' = [guardian EXCEPT ![o] = IF ended THEN "ended" ELSE "failed"]
    /\ IF ended THEN Ended({o} \cap Running) ELSE Visible(o) /\ UNCHANGED process
    /\ UNCHANGED <<files, owner, found, foreign, struck>>

-----------------------------------------------------------------------------
\* Launch Services starts Chrome; one that finds another running hands over to it.
Starts(o) ==
    /\ process[o] = "launched"
    /\ \/ /\ ~foreign /\ \A t \in Owner : process[t] # "running"
          /\ process' = [process EXCEPT ![o] = "running"]
          /\ port' = o
       \/ /\ foreign \/ \E t \in Owner : process[t] = "running"
          /\ process' = [process EXCEPT ![o] = "leaving"]
          /\ UNCHANGED port
    /\ UNCHANGED <<lock, ownerFile, owner, found, guardian, foreign, struck>>

\* It hands over, crashes, is quit, or never starts.
Ends(o) ==
    /\ process[o] \in {"launched", "running", "leaving"}
    /\ Ended({o})
    /\ UNCHANGED <<files, owner, found, guardian, foreign, struck>>

Foreign ==
    /\ foreign' = ~foreign
    /\ foreign' => \A t \in Owner : process[t] # "running"
    /\ UNCHANGED <<files, owner, found, guardian, process, struck>>

BackgroundNext ==
    \/ Foreign
    \/ \E o \in Owner :
        \/ Lock(o) \/ StopPrevious(o) \/ FindPort(o) \/ Attach(o) \/ Leaves(o) \/ Finish(o)
        \/ Dies(o) \/ Starts(o) \/ Ends(o)
        \/ \E ok \in BOOLEAN : Arm(o, ok) \/ Launch(o, ok) \/ Cleanup(o, ok) \/ Guard(o, ok)

backgroundVars == <<files, owner, found, guardian, process, foreign, struck>>
BackgroundSpec == BackgroundInit /\ [][BackgroundNext]_backgroundVars

-----------------------------------------------------------------------------
\* When an owner has left or died and its guardian has done its work, no Chrome of
\* theirs runs or is still going to start.
NoneLeft ==
    \A o \in Owner :
        owner[o] \in {"done", "dead"} /\ guardian[o] \in {"dismissed", "ended"} =>
            process[o] \in {"none", "gone"}

\* Nobody ends the Chrome that another owner is attached to.
AttachedSpared == struck = {}
=============================================================================
