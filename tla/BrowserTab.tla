------------------------------ MODULE BrowserTab ------------------------------
(***************************************************************************)
(* One tab of BrowserControl (browser_control.py): calls that observe it,  *)
(* act on it, navigate it and answer its dialogs, while the page changes   *)
(* its document, opens dialogs and closes by itself.  What a call has sent *)
(* to the browser may take effect after the call gave up waiting for it.   *)
(***************************************************************************)
EXTENDS Integers, Sequences

CONSTANTS Call, MaxChanges, MaxDialogs, None

\* The main frame, and one other: a page is replaced with its frames.
Scope == {"page", "frame"}

VARIABLES
    revision,    \* document_revision and frame_revisions
    snapshot,    \* snapshot_id, None once anything happened
    shown,       \* the snapshots that were taken: what each was of
    dialog,      \* pending_dialog
    modal,       \* the dialog that the browser shows
    closed,      \* page.is_closed()
    lock,        \* the call that holds entry.lock
    dialogLock,  \* and entry.dialog_lock
    call,
    changes, dialogs,  \* how often the page changed, and opened a dialog
    stale,       \* history: snapshots since which something happened in their scope
    sent,        \* history: calls that sent something to the browser
    acted,       \* history: and those of which it took effect
    misled,      \* history: actions sent although their snapshot was stale
    responses    \* history: responses sent to each dialog

page == <<revision, modal, closed, changes, dialogs>>
locks == <<lock, dialogLock>>
history == <<stale, sent, acted, misled, responses>>
tabVars == <<page, snapshot, shown, dialog, locks, call, history>>

\* What a call does, with which snapshot and in which scope; the dialog it answers.
Fresh == [does |-> None, pc |-> "new", uses |-> None, scope |-> "page", dialog |-> 0,
          seen |-> [s \in Scope |-> 0], answer |-> None]

TabInit ==
    /\ revision = [s \in Scope |-> 0] /\ snapshot = None /\ shown = <<>>
    /\ dialog = None /\ modal = 0 /\ closed = FALSE
    /\ lock = None /\ dialogLock = None
    /\ call = [k \in Call |-> Fresh]
    /\ changes = 0 /\ dialogs = 0
    /\ stale = {} /\ sent = {} /\ acted = {} /\ misled = {}
    /\ responses = [d \in 1..MaxDialogs |-> 0]

At(k, pc) == call[k].pc = pc
Goto(k, pc) == call' = [call EXCEPT ![k].pc = pc]
\* Also the end of its `async with`.
Answer(k, answer) ==
    /\ call' = [call EXCEPT ![k] = [Fresh EXCEPT !.does = call[k].does, !.dialog = call[k].dialog,
                                                !.pc = "done", !.answer = answer]]
    /\ lock' = IF lock = k THEN None ELSE lock
    /\ dialogLock' = IF dialogLock = k THEN None ELSE dialogLock
\* ValueError and the Unknown exceptions: what failed has sent nothing.
Fails(k) == Answer(k, IF k \in sent THEN "unknown" ELSE "failed")

Taken == 1..Len(shown)
Unclaimed == dialog # None /\ ~dialog.claimed

-----------------------------------------------------------------------------
(* The page *)

\* _document_changed
Changes(s) ==
    /\ ~closed /\ changes < MaxChanges /\ changes' = changes + 1
    /\ revision' = [revision EXCEPT ![s] = @ + 1]
    /\ LET gone == {i \in Taken : s = "page" \/ shown[i].scope = s}
       IN /\ snapshot' = IF snapshot \in gone THEN None ELSE snapshot
          /\ stale' = stale \cup gone
    /\ UNCHANGED <<shown, dialog, modal, closed, dialogs, locks, call, sent, acted, misled,
                   responses>>

\* _record_dialog
Opens ==
    /\ ~closed /\ modal = 0 /\ dialogs < MaxDialogs
    /\ dialogs' = dialogs + 1 /\ modal' = dialogs'
    /\ dialog' = [id |-> dialogs', claimed |-> FALSE]
    /\ snapshot' = None /\ stale' = stale \cup Taken
    /\ UNCHANGED <<revision, shown, closed, changes, locks, call, sent, acted, misled, responses>>

\* _page_closed
Closes ==
    /\ ~closed /\ closed' = TRUE
    /\ dialog' = None /\ modal' = 0 /\ snapshot' = None
    /\ UNCHANGED <<revision, changes, dialogs, shown, locks, call, history>>

\* A snapshot is refused after 60 seconds, as if there were none.
Expires ==
    /\ snapshot # None /\ snapshot' = None
    /\ UNCHANGED <<page, shown, dialog, locks, call, history>>

\* What was sent takes effect, also for a call that did not wait for it.
Acts(k) ==
    /\ k \in sent \ acted /\ ~closed /\ acted' = acted \cup {k}
    /\ modal' = IF call[k].does = "respond" /\ modal = call[k].dialog THEN 0 ELSE modal
    /\ UNCHANGED <<revision, closed, changes, dialogs, snapshot, shown, dialog, locks, call,
                   stale, sent, misled, responses>>

-----------------------------------------------------------------------------
(* Calls *)

\* What a call asks for: with which snapshot, in which scope, or of which dialog.
Asks(k, does, uses, scope, d) ==
    call' = [call EXCEPT ![k] = [does |-> does, pc |-> IF does = "respond" THEN "claim" ELSE "lock",
        uses |-> uses, scope |-> scope, dialog |-> d, seen |-> call[k].seen, answer |-> None]]

Arrive(k) ==
    /\ At(k, "new")
    /\ \/ \E s \in Scope : Asks(k, "observe", None, s, 0)
       \/ \E i \in Taken : Asks(k, "act", i, shown[i].scope, 0)
       \/ \E does \in {"act", "navigate"} : Asks(k, does, None, "page", 0)
       \/ \E d \in 1..dialogs : Asks(k, "respond", None, "page", d)
    /\ UNCHANGED <<page, snapshot, shown, dialog, locks, history>>

\* Mutant: nothing to compare with is taken for agreement.
CurrentOrGone(k) == call[k].uses \in {None, snapshot} \/ snapshot = None

\* _check_snapshot
Current(k) == call[k].uses \in {None, snapshot}

\* Under entry.lock: an observation, the first check of an action, or a goto.
Enter(k) ==
    /\ At(k, "lock") /\ lock = None
    /\ IF closed \/ (call[k].does = "act" /\ ~Current(k))
       THEN Fails(k) /\ UNCHANGED <<snapshot, stale, sent>>
       ELSE /\ lock' = k /\ UNCHANGED dialogLock
            /\ CASE call[k].does = "act" -> Goto(k, "aim") /\ UNCHANGED <<snapshot, stale, sent>>
                 [] call[k].does = "navigate" ->
                        /\ Goto(k, "sent") /\ snapshot' = None /\ stale' = stale \cup Taken
                        /\ sent' = IF dialog = None THEN sent \cup {k} ELSE sent
                 [] OTHER -> Goto(k, "read") /\ UNCHANGED <<snapshot, stale, sent>>
    /\ UNCHANGED <<page, shown, dialog, acted, misled, responses>>

\* The target is looked for over several awaits, under the bounded waits of _until_dialog.
AimFails(k) == At(k, "aim") /\ Fails(k)
    /\ UNCHANGED <<page, snapshot, shown, dialog, history>>

\* The second check, and the action.
Dispatch(k) ==
    /\ At(k, "aim") /\ dialog = None
    /\ IF ~Current(k) THEN Fails(k) /\ UNCHANGED <<snapshot, stale, sent, misled>>
       ELSE /\ snapshot' = None /\ stale' = stale \cup Taken /\ sent' = sent \cup {k}
            /\ misled' = IF call[k].uses \in stale THEN misled \cup {k} ELSE misled
            /\ Goto(k, "sent") /\ UNCHANGED locks
    /\ UNCHANGED <<page, shown, dialog, acted, responses>>

Returns(k) ==
    /\ At(k, "sent") /\ k \in acted /\ dialog = None /\ ~closed /\ Goto(k, "read")
    /\ UNCHANGED <<page, snapshot, shown, dialog, locks, history>>

\* A dialog, a timeout, or the end of the page.
Interrupted(k) ==
    /\ At(k, "sent") /\ Answer(k, "unknown")
    /\ UNCHANGED <<page, snapshot, shown, dialog, history>>

\* dialog_handle, under dialog_lock alone: the dialog may be why entry.lock is held.
Claim(k) ==
    /\ At(k, "claim") /\ dialogLock = None
    /\ IF closed \/ dialog = None \/ dialog # [id |-> call[k].dialog, claimed |-> FALSE]
       THEN Fails(k) /\ UNCHANGED <<snapshot, stale, dialog, sent, responses>>
       ELSE /\ dialogLock' = k /\ UNCHANGED lock /\ Goto(k, "respond")
            /\ dialog' = [dialog EXCEPT !.claimed = TRUE]
            /\ snapshot' = None /\ stale' = stale \cup Taken
            /\ sent' = sent \cup {k}
            /\ responses' = [responses EXCEPT ![call[k].dialog] = @ + 1]
    /\ UNCHANGED <<page, shown, acted, misled>>

Acknowledged(k) ==
    /\ At(k, "respond") /\ k \in acted
    /\ dialog' = IF dialog # None /\ dialog.id = call[k].dialog THEN None ELSE dialog
    /\ dialogLock' = None /\ Goto(k, "receipt")
    /\ UNCHANGED <<page, snapshot, shown, lock, history>>

Unacknowledged(k) ==
    /\ At(k, "respond") /\ Answer(k, "unknown")
    /\ UNCHANGED <<page, snapshot, shown, dialog, history>>

\* The receipt stands, whether the page can be read or not.
Receipt(k) ==
    /\ At(k, "receipt") /\ lock = None
    /\ IF closed THEN Answer(k, "completed") ELSE lock' = k /\ Goto(k, "read") /\ UNCHANGED dialogLock
    /\ UNCHANGED <<page, snapshot, shown, dialog, history>>

-----------------------------------------------------------------------------
(* _snapshot *)

\* An unclaimed dialog is reported instead; behind a claimed one the page is tried.
Read(k) ==
    /\ At(k, "read")
    /\ IF Unclaimed THEN Answer(k, "completed")
       ELSE call' = [call EXCEPT ![k].pc = "reading", ![k].seen = revision] /\ UNCHANGED locks
    /\ UNCHANGED <<page, snapshot, shown, dialog, history>>

Unread(k) == IF call[k].does = "respond" THEN Answer(k, "completed") ELSE Fails(k)

\* Text, title and structure were read one after the other, of one document.
Untorn(k) ==
    /\ call[k].seen["page"] = revision["page"]
    /\ call[k].scope = "frame" => call[k].seen = revision

\* A page that can be read shows that a claimed dialog is gone, not how it was answered.
ReadEnds(k) ==
    /\ At(k, "reading") /\ ~closed /\ ~Unclaimed /\ modal = 0
    /\ dialog' = None
    /\ IF ~Untorn(k) THEN Unread(k) /\ UNCHANGED <<snapshot, shown, stale>>
       ELSE /\ shown' = Append(shown, [scope |-> call[k].scope, seen |-> call[k].seen])
            /\ snapshot' = Len(shown') /\ UNCHANGED stale
            /\ Answer(k, "completed")
    /\ UNCHANGED <<page, sent, acted, misled, responses>>

ReadFails(k) ==
    /\ At(k, "reading")
    /\ IF dialog # None THEN Answer(k, "completed") ELSE Unread(k)
    /\ UNCHANGED <<page, snapshot, shown, dialog, history>>

Proceed(k) ==
    \/ Arrive(k) \/ Enter(k) \/ AimFails(k) \/ Dispatch(k) \/ Returns(k) \/ Interrupted(k)
    \/ Claim(k) \/ Acknowledged(k) \/ Unacknowledged(k) \/ Receipt(k)
    \/ Read(k) \/ ReadEnds(k) \/ ReadFails(k)

TabNext ==
    \/ \E s \in Scope : Changes(s)
    \/ Opens \/ Closes \/ Expires
    \/ \E k \in Call : Acts(k) \/ Proceed(k)

TabSpec == TabInit /\ [][TabNext]_tabVars

-----------------------------------------------------------------------------
(* Properties *)

\* An action that names a snapshot is sent only if nothing has happened in what the
\* snapshot showed: no change of document, no dialog, no other action, however long
\* the call waited for its lock and its target.
ActsOnShown == misled = {}

\* The snapshot that actions are checked against was read from one document, and from
\* the one that is there.
SnapshotTrue ==
    snapshot # None =>
        \A s \in Scope : s \in {"page", shown[snapshot].scope} =>
            shown[snapshot].seen[s] = revision[s]

\* What is answered as failed was not sent to the browser, and what is answered as
\* completed took effect there, whatever dialogs, timeouts and unreadable pages
\* came in between.
ToolHonest ==
    \A k \in Call : /\ call[k].answer = "failed" => k \notin sent
                    /\ call[k].answer = "completed" /\ k \in sent => k \in acted

\* A dialog is answered once: a response whose receipt was lost is not repeated.
AnsweredOnce == \A d \in 1..MaxDialogs : responses[d] <= 1
=============================================================================
