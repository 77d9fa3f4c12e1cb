------------------------------- MODULE Startup -------------------------------
(***************************************************************************)
(* Start at login (startup_service, startup_native): a receipt, a          *)
(* definition file and a job of the operating system's startup manager     *)
(* that install, upgrade, start and uninstall keep in step.  A command may *)
(* die between two steps and an answer of the manager be lost; the user    *)
(* and other programs edit the file or the job at any time.                *)
(***************************************************************************)
EXTENDS Integers

CONSTANTS MaxId,   \* registrations get the startup IDs 1..MaxId
          Legacy   \* IDs of receipts from before Python was isolated

Id == 1..MaxId
\* What a file or job may be of: nothing, a registration, or somebody else's.
NoId == 0
Other == MaxId + 1

VARIABLES
    receipt,   \* autostart.json: the registration, and whether it was confirmed
    previous,  \* autostart-upgrade-previous.json
    file,      \* the definition file
    job,       \* the native job: its definition, enabled, still running
    used,      \* IDs given out so far
    command    \* the running command, under autostart.lock, and whether what it is about
               \* to enable, start or remove was exchanged after its last look at it

startupVars == <<receipt, previous, file, job, used, command>>

NoReceipt == [id |-> NoId, confirmed |-> FALSE]
NoJob == [of |-> NoId, enabled |-> FALSE, running |-> FALSE]
Idle == [does |-> "nothing", pc |-> "idle", created |-> FALSE, late |-> FALSE]

\* A machine without registration, or with the legacy one.
StartupInit ==
    /\ previous = NoReceipt /\ command = Idle
    /\ \/ receipt = NoReceipt /\ file = NoId /\ job = NoJob /\ used = 0
       \/ /\ 1 \in Legacy /\ receipt = [id |-> 1, confirmed |-> TRUE] /\ file = 1
          /\ job = [of |-> 1, enabled |-> TRUE, running |-> TRUE] /\ used = 1

-----------------------------------------------------------------------------
(* The user, other programs and the startup manager *)

\* What a command at one of these steps takes for its own is exchanged.
Exchanged(pcs) == command' = [command EXCEPT !.late = @ \/ command.pc \in pcs]

EditFile ==
    /\ file # Other /\ file' = Other
    /\ Exchanged({"unlink", "drop"})
    /\ UNCHANGED <<receipt, previous, job, used>>

EditJob ==
    /\ job.of \notin {NoId, Other}
    /\ \/ job' = [job EXCEPT !.of = Other] /\ Exchanged({"create", "remove", "kick"})
       \/ job' = [job EXCEPT !.enabled = ~@] /\ UNCHANGED command
       \/ job' = [job EXCEPT !.running = ~@] /\ UNCHANGED command
    /\ UNCHANGED <<receipt, previous, file, used>>

\* A job that was told to go is removed once its process ends.
Removed == [job EXCEPT !.enabled = FALSE]
Vanish ==
    /\ job.of \notin {NoId, Other} /\ ~job.enabled
    /\ job' = NoJob
    /\ UNCHANGED <<receipt, previous, file, used, command>>

-----------------------------------------------------------------------------
(* Commands: Enter a step, Finish well, or Fail *)

Enter(pc) == command' = [command EXCEPT !.pc = pc, !.late = FALSE]
Does(what, pc) == command' = [Idle EXCEPT !.does = what, !.pc = pc]

\* A failed upgrade goes back to the receipt it saved; a failed way back stays there.
Fail == IF command.does \in {"replace", "renew"} THEN Does("restore", "return")
        ELSE command' = Idle

Begin ==
    /\ command = Idle
    /\ \/ Does("install", "register")
       \/ Does("uninstall", "unregister")
       \/ Does("start", "start")
       \/ Does("upgrade", "upgrade")
    /\ UNCHANGED <<receipt, previous, file, job, used>>

\* Mutant: a definition is known by its name alone.
AnyFile == TRUE

\* _check_file and _check_snapshot against the receipt
FileOurs == file \in {NoId, receipt.id}
JobOurs == job.of \in {NoId, receipt.id}
Registered == job.of = receipt.id /\ job.enabled

\* _install_startup_locked: a new receipt, saved before anything is registered, or
\* the one that is there.
Register ==
    /\ command.pc = "register"
    /\ IF receipt.id = NoId
       THEN IF file # NoId \/ job.of # NoId \/ used = MaxId
            THEN Fail /\ UNCHANGED <<receipt, used>>
            ELSE /\ used' = used + 1 /\ Enter("define")
                 /\ receipt' = [id |-> used + 1, confirmed |-> FALSE]
       ELSE /\ IF receipt.id \in Legacy THEN Fail ELSE Enter("define")
            /\ UNCHANGED <<receipt, used>>
    /\ UNCHANGED <<previous, file, job>>

Define ==
    /\ command.pc = "define"
    /\ IF JobOurs /\ FileOurs
       THEN /\ file' = receipt.id
            /\ command' = [command EXCEPT !.pc = "install", !.created = file = NoId]
       ELSE Fail /\ UNCHANGED file
    /\ UNCHANGED <<receipt, previous, job, used>>

\* After a conflict the definition that this attempt has just created is removed: it is
\* read once more, and then unlinked by its name.
Conflict == IF command.created /\ ~receipt.confirmed THEN Enter("withdraw") ELSE Fail

Withdraw ==
    /\ command.pc = "withdraw"
    /\ IF file = receipt.id THEN Enter("drop") ELSE Fail
    /\ UNCHANGED <<receipt, previous, file, job, used>>

Drop ==
    /\ command.pc = "drop"
    /\ file' = NoId /\ Fail
    /\ UNCHANGED <<receipt, previous, job, used>>

\* A job that is not there, or disabled, is asked for.
Install ==
    /\ command.pc = "install"
    /\ IF ~JobOurs THEN Conflict ELSE Enter(IF Registered THEN "confirm" ELSE "create")
    /\ UNCHANGED <<receipt, previous, file, job, used>>

\* The manager registers what the file then says, and enables or refuses a job that has
\* the name; its answer may be lost, and is not repeated.
Create ==
    /\ command.pc = "create" /\ Enter("confirm")
    /\ \/ /\ job.of = NoId /\ file # NoId
          /\ job' = [of |-> file, enabled |-> TRUE, running |-> TRUE]
       \/ job.of # NoId /\ job' = [job EXCEPT !.enabled = TRUE, !.running = TRUE]
       \/ UNCHANGED job
    /\ UNCHANGED <<receipt, previous, file, used>>

\* The end of an upgrade, or of the way back, drops the saved receipt.
Confirm ==
    /\ command.pc = "confirm"
    /\ IF ~JobOurs THEN Conflict /\ UNCHANGED <<receipt, previous>>
       ELSE IF ~Registered THEN Fail /\ UNCHANGED <<receipt, previous>>
       ELSE /\ receipt' = [receipt EXCEPT !.confirmed = TRUE]
            /\ previous' = IF command.does \in {"renew", "restore"} THEN NoReceipt ELSE previous
            /\ command' = Idle
    /\ UNCHANGED <<file, job, used>>

\* _uninstall_startup_locked: the native job first, if there is one.
Unregister ==
    /\ command.pc = "unregister"
    /\ IF receipt.id = NoId THEN command' = Idle
       ELSE IF ~FileOurs \/ ~JobOurs THEN Fail
       ELSE Fail \/ Enter(IF job.of = NoId THEN "stopped" ELSE "remove")
    /\ UNCHANGED <<receipt, previous, file, job, used>>

\* The manager is told the job's name: another job that has taken it goes at once.
Remove ==
    /\ command.pc = "remove"
    /\ \/ /\ job' = IF job.of \in {NoId, Other} THEN NoJob ELSE Removed
          /\ Enter("stopped") \/ Fail
       \/ Fail /\ UNCHANGED job
    /\ UNCHANGED <<receipt, previous, file, used>>

\* The job and its processes are waited for; then the file goes, if it is still ours
\* when it is read.
Gone == job.of = NoId

Stopped ==
    /\ command.pc = "stopped"
    /\ IF Gone /\ FileOurs THEN Enter(IF file = NoId THEN "forget" ELSE "unlink") ELSE Fail
    /\ UNCHANGED <<receipt, previous, file, job, used>>

Unlink ==
    /\ command.pc = "unlink"
    /\ file' = NoId /\ Enter("forget")
    /\ UNCHANGED <<receipt, previous, job, used>>

Forget ==
    /\ command.pc = "forget"
    /\ IF ~Gone THEN Fail /\ UNCHANGED receipt
       ELSE /\ receipt' = IF command.does = "restore" THEN previous ELSE NoReceipt
            /\ CASE command.does = "replace" -> Does("renew", "register")
                 [] command.does = "restore" -> Enter("register")
                 [] OTHER -> command' = Idle
    /\ UNCHANGED <<previous, file, job, used>>

\* upgrade_startup saves the receipt first; one that is left over needs a recovery.
Upgrade ==
    /\ command.pc = "upgrade"
    /\ IF previous # NoReceipt THEN Fail /\ UNCHANGED previous
       ELSE IF receipt.id = NoId THEN Does("install", "register") /\ UNCHANGED previous
       ELSE IF file # receipt.id \/ ~JobOurs THEN Fail /\ UNCHANGED previous
       ELSE previous' = receipt /\ Does("replace", "unregister")
    /\ UNCHANGED <<receipt, file, job, used>>

\* Back to the old registration: the new one is uninstalled before, if it exists.
Return ==
    /\ command.pc = "return"
    /\ IF receipt.id = previous.id THEN Enter("register") /\ UNCHANGED receipt
       ELSE IF receipt.id # NoId THEN Enter("unregister") /\ UNCHANGED receipt
       ELSE receipt' = previous /\ Enter("register")
    /\ UNCHANGED <<previous, file, job, used>>

Start ==
    /\ command.pc = "start"
    /\ IF receipt.id # NoId /\ file = receipt.id /\ Registered /\ ~job.running
       THEN Enter("kick") ELSE command' = Idle
    /\ UNCHANGED <<receipt, previous, file, job, used>>

\* By its name, too.
Kick ==
    /\ command.pc = "kick" /\ command' = Idle
    /\ job' = IF Gone THEN job ELSE [job EXCEPT !.running = TRUE]
    /\ UNCHANGED <<receipt, previous, file, used>>

Die ==
    /\ command # Idle /\ command' = Idle
    /\ UNCHANGED <<receipt, previous, file, job, used>>

Run ==
    \/ Begin \/ Register \/ Define \/ Install \/ Create \/ Withdraw \/ Drop \/ Confirm
    \/ Unregister \/ Remove \/ Stopped \/ Unlink \/ Forget
    \/ Upgrade \/ Return \/ Start \/ Kick \/ Die

StartupNext == EditFile \/ EditJob \/ Vanish \/ Run

StartupSpec == StartupInit /\ [][StartupNext]_startupVars

-----------------------------------------------------------------------------
\* A job that these commands registered can be found and removed by them: as long as
\* it exists, the receipt, or the one that an upgrade saved, names it.
JobOwned == job.of \in Id => job.of \in {receipt.id, previous.id}

\* A file or a job that others put in the place of ours stays as it is, whatever command
\* runs into it: only one that took its place after the command had looked for the last
\* time, at the step before the one that enables, starts or removes it, is touched.
OthersKept ==
    [][/\ file = Other /\ file' # Other => command.late
       /\ job.of = Other /\ job' # job => command.late]_startupVars
=============================================================================
