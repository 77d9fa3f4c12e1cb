--------------------------- MODULE BrowserSessions ---------------------------
(***************************************************************************)
(* The isolated browsers of BrowserControl (browser_control.py): sessions  *)
(* and their tabs, opened and closed by calls, by the pages themselves and *)
(* by a shutdown.  A browser may end by itself, and its cleanup may fail,  *)
(* or take longer than the call that asked for it waits.                   *)
(***************************************************************************)
EXTENDS Integers, FiniteSets

CONSTANTS Session,     \* session IDs
          MaxSessions, \* sessions that may be listed (4 in the code)
          TabLimit,    \* and tabs in one of them (8)
          MaxPages,    \* pages open at a time, and tab IDs in use
          Caller, None

VARIABLES
    listed,     \* entries
    browser,    \* the browser of a session: "none", "starting", "up" or "ended"
    live,       \* session -> its pages that are open
    tabs,       \* session -> tabs.entries; the last one stays when its page closes
    rejected,   \* session -> pages beyond the limit, which are being closed
    closing,    \* sessions whose cleanup has been requested
    cleanup,    \* session -> close_task
    tabsLock,   \* session -> the call that holds tabs.lock
    lock,       \* the call that holds _lock
    call,
    leaked      \* history: browsers whose start failed, and then the cleanup

sessions == <<listed, browser, closing, cleanup, leaked>>
pages == <<live, tabs, rejected>>
controlVars == <<sessions, pages, tabsLock, lock, call>>

Idle == [does |-> None, pc |-> "idle", on |-> None, page |-> 0, tried |-> {}, answer |-> None]

ControlInit ==
    /\ listed = {} /\ browser = [s \in Session |-> "none"]
    /\ live = [s \in Session |-> {}]
    /\ tabs = [s \in Session |-> {}] /\ rejected = [s \in Session |-> {}]
    /\ closing = {} /\ cleanup = [s \in Session |-> "none"]
    /\ tabsLock = [s \in Session |-> None] /\ lock = None
    /\ call = [k \in Caller |-> Idle] /\ leaked = {}

Up(s) == browser[s] = "up"
Live(s) == Up(s) /\ tabs[s] \cap live[s] # {}
Busy(s) == tabsLock[s] # None \/ cleanup[s] = "running"

\* _begin_close: one cleanup at a time, another one after a failure.
BeginClose(s) ==
    /\ closing' = closing \cup {s}
    /\ cleanup' = [cleanup EXCEPT ![s] = IF @ \in {"none", "failed"} THEN "running" ELSE @]

-----------------------------------------------------------------------------
(* Browsers and their pages *)

\* _register_page, on the event of a new page p: it is a tab, or closed, or left to the
\* cleanup.  Too many at once close the session.
Register(s, p) ==
    LET full == Cardinality(tabs[s]) >= TabLimit
    IN /\ tabs' = IF s \notin closing /\ ~full THEN [tabs EXCEPT ![s] = @ \cup {p}] ELSE tabs
       /\ rejected' = IF s \notin closing /\ full THEN [rejected EXCEPT ![s] = @ \cup {p}]
                      ELSE rejected
       /\ IF Cardinality(rejected'[s]) >= TabLimit /\ s \notin closing THEN BeginClose(s)
          ELSE UNCHANGED <<closing, cleanup>>

\* A page gets a new ID: none that a tab or a call still has.
Unused(s) ==
    (1..MaxPages) \ (live[s] \cup tabs[s] \cup rejected[s]
                      \cup {call[k].page : k \in {c \in Caller : call[c].on = s}})
NextPage(s) == CHOOSE p \in Unused(s) : \A q \in Unused(s) : p <= q

NewPage(s) ==
    /\ Up(s) /\ s \in listed /\ Unused(s) # {}
    /\ live' = [live EXCEPT ![s] = @ \cup {NextPage(s)}]
    /\ Register(s, NextPage(s))
    /\ UNCHANGED <<listed, browser, leaked>>

Popup(s) == NewPage(s) /\ UNCHANGED <<tabsLock, lock, call>>

\* _page_closed: the last tab keeps its ID.
Gone(s, p) ==
    /\ live' = [live EXCEPT ![s] = @ \ {p}]
    /\ tabs' = IF (tabs[s] \cap live[s]) \ {p} # {} THEN [tabs EXCEPT ![s] = @ \ {p}] ELSE tabs

PageCloses(s) ==
    /\ \E p \in live[s] : Gone(s, p)
    /\ UNCHANGED <<sessions, rejected, tabsLock, lock, call>>

\* close_excess: if the page does not close, the session does.
CloseExcess(s) ==
    /\ \E p \in rejected[s] :
          /\ rejected' = [rejected EXCEPT ![s] = @ \ {p}]
          /\ \/ Gone(s, p) /\ UNCHANGED <<closing, cleanup>>
             \/ BeginClose(s) /\ UNCHANGED <<live, tabs>>
    /\ UNCHANGED <<listed, browser, leaked, tabsLock, lock, call>>

Ends(s) ==
    /\ Up(s) /\ browser' = [browser EXCEPT ![s] = "ended"]
    /\ live' = [live EXCEPT ![s] = {}]
    /\ UNCHANGED <<listed, closing, cleanup, leaked, tabs, rejected, tabsLock, lock, call>>

\* _close_session; a failure may come before or after the end of the browser.
Cleaned(s) ==
    /\ cleanup[s] = "running"
    /\ \E ended, ok \in BOOLEAN :
          /\ ok => ended
          /\ IF ended THEN /\ browser' = [browser EXCEPT ![s] = "ended"]
                           /\ live' = [live EXCEPT ![s] = {}]
             ELSE UNCHANGED <<browser, live>>
          /\ cleanup' = [cleanup EXCEPT ![s] = IF ok THEN "done" ELSE "failed"]
          /\ IF ok THEN /\ listed' = listed \ {s}
                        /\ tabs' = [tabs EXCEPT ![s] = {}] /\ rejected' = [rejected EXCEPT ![s] = {}]
             ELSE UNCHANGED <<listed, tabs, rejected>>
    /\ UNCHANGED <<closing, leaked, tabsLock, lock, call>>

-----------------------------------------------------------------------------
(* Calls *)

At(k, pc) == call[k].pc = pc
Goto(k, pc) == call' = [call EXCEPT ![k].pc = pc]
\* The answer of a call, and the end of its `async with`.
Answer(k, answer) ==
    /\ call' = [call EXCEPT ![k] = IF answer = "closed"
                                   THEN [Idle EXCEPT !.on = call[k].on, !.answer = answer] ELSE Idle]
    /\ lock' = IF lock = k THEN None ELSE lock
    /\ tabsLock' = [s \in Session |-> IF tabsLock[s] = k THEN None ELSE tabsLock[s]]

\* What a call is for, and where it goes next.
Sets(k, does, pc, s, p) ==
    call' = [call EXCEPT ![k] = [does |-> does, pc |-> pc, on |-> s, page |-> p,
                                 tried |-> {}, answer |-> None]]

Arrive(k) ==
    /\ At(k, "idle")
    /\ \/ Sets(k, "open", "lock", None, 0)
       \/ \E s \in listed, does \in {"tab_open", "tab_close", "stop"}, p \in 1..MaxPages :
             /\ does # "tab_open" => p \in tabs[s]
             /\ does = "tab_open" => p = 1 /\ s \notin closing
             /\ Sets(k, does, IF does = "stop" THEN "lock" ELSE "tabs", s, p)
    /\ UNCHANGED <<sessions, pages, tabsLock, lock>>

Lock(k) ==
    /\ At(k, "lock") /\ lock = None /\ lock' = k
    /\ Goto(k, IF call[k].does = "open" THEN "reap" ELSE "tabs")
    /\ UNCHANGED <<sessions, pages, tabsLock>>

\* _reap_dead waits for each cleanup, but not for ever.
Dead(k) == {s \in listed \ call[k].tried : ~Live(s) /\ ~Busy(s)}
Reap(k) ==
    /\ At(k, "reap")
    /\ \E s \in Dead(k) :
          /\ BeginClose(s) /\ tabsLock' = [tabsLock EXCEPT ![s] = k]
          /\ call' = [call EXCEPT ![k].pc = "reaping", ![k].on = s, ![k].tried = @ \cup {s}]
    /\ UNCHANGED <<listed, browser, leaked, pages, lock>>
Reaped(k) ==
    /\ At(k, "reaping") /\ Goto(k, "reap")
    /\ tabsLock' = [tabsLock EXCEPT ![call[k].on] = None]
    /\ UNCHANGED <<sessions, pages, lock>>

\* In the model an open also fails when every ID is used up.
Launch(k) ==
    /\ At(k, "reap") /\ Dead(k) = {}
    /\ IF Cardinality(listed) >= MaxSessions \/ \A s \in Session : browser[s] # "none"
       THEN Answer(k, "failed") /\ UNCHANGED browser
       ELSE /\ \E s \in Session :
                  /\ browser[s] = "none" /\ browser' = [browser EXCEPT ![s] = "starting"]
                  /\ Sets(k, "open", "launch", s, 0)
            /\ UNCHANGED <<lock, tabsLock>>
    /\ UNCHANGED <<listed, closing, cleanup, leaked, pages>>

Launched(k) ==
    /\ At(k, "launch")
    /\ LET s == call[k].on
       IN \/ /\ browser' = [browser EXCEPT ![s] = "up"] /\ listed' = listed \cup {s}
             /\ live' = [live EXCEPT ![s] = {1}]
             /\ tabs' = [tabs EXCEPT ![s] = {1}] /\ UNCHANGED <<leaked, rejected>>
             /\ Answer(k, "completed")
          \* The browser did not start, or its start was cancelled: it is closed, if possible.
          \/ /\ Answer(k, "failed") /\ UNCHANGED <<listed, pages>>
             /\ \/ browser' = [browser EXCEPT ![s] = "ended"] /\ UNCHANGED leaked
                \/ browser' = [browser EXCEPT ![s] = "up"] /\ leaked' = leaked \cup {s}
    /\ UNCHANGED <<closing, cleanup>>

\* Under tabs.lock everything is looked at again.
Tabs(k) ==
    /\ At(k, "tabs")
    /\ LET s == call[k].on
       IN /\ tabsLock[s] = None
          /\ IF \/ s \notin listed
                \/ call[k].does = "tab_open" /\ (s \in closing \/ ~Live(s) \/ Cardinality(tabs[s]) >= TabLimit)
                \/ call[k].does # "tab_open" /\ call[k].page \notin tabs[s]
             THEN Answer(k, "failed") /\ UNCHANGED <<closing, cleanup>>
             ELSE /\ tabsLock' = [tabsLock EXCEPT ![s] = k] /\ UNCHANGED lock
                  /\ IF call[k].does = "stop" THEN BeginClose(s) /\ Goto(k, "wait")
                     ELSE Goto(k, call[k].does) /\ UNCHANGED <<closing, cleanup>>
    /\ UNCHANGED <<listed, browser, leaked, pages>>

\* context.new_page, whose page is registered by its event; else unknown.
TabOpens(k) ==
    /\ At(k, "tab_open")
    /\ NewPage(call[k].on)
    /\ Answer(k, IF live'[call[k].on] \ live[call[k].on] \subseteq tabs'[call[k].on] THEN "completed" ELSE "unknown")
TabUnknown(k) ==
    /\ \/ At(k, "tab_open") \/ At(k, "tab_close") \/ At(k, "wait")
    /\ Answer(k, "unknown") /\ UNCHANGED <<sessions, pages>>

\* The cleanup after the last tab begins before anybody may open another one.
TabCloses(k) ==
    /\ At(k, "tab_close")
    /\ LET s == call[k].on p == call[k].page rest == (tabs[s] \cap live[s]) \ {p}
       IN /\ live' = [live EXCEPT ![s] = @ \ {p}]
          /\ IF rest # {}
             THEN /\ tabs' = [tabs EXCEPT ![s] = @ \ {p}] /\ Answer(k, "completed")
                  /\ UNCHANGED <<closing, cleanup>>
             ELSE BeginClose(s) /\ Goto(k, "wait") /\ UNCHANGED <<tabs, lock, tabsLock>>
    /\ UNCHANGED <<listed, browser, leaked, rejected>>

\* _request_close
Waited(k) ==
    /\ At(k, "wait") /\ cleanup[call[k].on] # "running"
    /\ Answer(k, IF cleanup[call[k].on] = "done" THEN "closed" ELSE "unknown")
    /\ UNCHANGED <<sessions, pages>>

\* close() of the whole component
Shutdown ==
    /\ lock = None /\ listed \ closing # {} /\ closing' = closing \cup listed
    /\ cleanup' = [s \in Session |-> IF s \in listed /\ cleanup[s] \in {"none", "failed"}
                                     THEN "running" ELSE cleanup[s]]
    /\ UNCHANGED <<listed, browser, leaked, pages, tabsLock, lock, call>>

ControlNext ==
    \/ \E s \in Session : Popup(s) \/ PageCloses(s) \/ CloseExcess(s) \/ Ends(s) \/ Cleaned(s)
    \/ \E k \in Caller : \/ Arrive(k) \/ Lock(k) \/ Reap(k) \/ Reaped(k) \/ Launch(k) \/ Launched(k)
                         \/ Tabs(k) \/ TabOpens(k) \/ TabUnknown(k) \/ TabCloses(k) \/ Waited(k)
    \/ Shutdown

ControlSpec == ControlInit /\ [][ControlNext]_controlVars

-----------------------------------------------------------------------------
\* A browser that runs is never forgotten: its session is listed until its end is
\* confirmed, whatever was cancelled, timed out or failed, except where the cleanup of a
\* failed start did; and each of its pages is a tab, or on its way to being closed.
BrowsersKept ==
    \A s \in Session :
        /\ Up(s) => s \in listed \cup leaked
        /\ \A p \in live[s] : p \in tabs[s] \cup rejected[s] \/ s \in closing

\* Whoever is told that a session is closed has no browser left.
ClosedIsEnded ==
    \A k \in Caller : call[k].answer = "closed" => ~Up(call[k].on)
=============================================================================
