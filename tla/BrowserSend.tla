----------------------------- MODULE BrowserSend -----------------------------
(***************************************************************************)
(* The browser transport of Subchat sends (subchat_browser/backend.py,     *)
(* httpx_generation.py): a message is prepared in a tab of the dedicated   *)
(* browser, its draft is inserted and the Send button clicked under a      *)
(* guard against the user, and the POST of the page is intercepted,        *)
(* recorded in the ledger and forwarded once, by the browser or by HTTPX.  *)
(*                                                                         *)
(* One controller holds its browser lock from prepare to the end of send;  *)
(* the callback that forwards the POST outlives it, and the release of a   *)
(* completed message's tab waits for no lock.  Every message goes to the   *)
(* same existing Chat; rows are abstracted to their state.  The page       *)
(* issues one POST for each draft that somebody sends, however late.       *)
(***************************************************************************)
EXTENDS Naturals, Sequences

CONSTANTS Op,       \* operation IDs
          Page,     \* tabs; the identity of a closed one is used again
          MaxTries, \* bound on preparations that come to nothing
          None

VARIABLES
    httpx,      \* _httpx_generation: HTTPX forwards the POST, not the browser
    state,      \* SubchatSubmission.state
    identified, \* messages whose identity is saved (observe_request)
    holder,     \* browser_lock: the message being prepared and sent
    at,         \* where its preparation and send are
    fresh,      \* messages whose page prepare opened itself
    previous,   \* prepare: the page a message had before
    tab,        \* the page that prepare and send hold themselves
    pages,      \* self.pages
    touched,    \* _preparation_touched_pages
    unreusable, \* _unreusable_pages
    finished,   \* _completed_page_owners
    block,      \* sends with block_unclaimed_generation
    claimed,    \* sends whose callback has claimed the POST
    dispatched, \* the future of that name
    told,       \* what send reported
    gen,        \* the route callback and its cleanup task
    release,    \* release_completed
    open,       \* tabs that exist
    shown,      \* what a page displays beyond the history it loaded
    draft,      \* the message in a page's editor
    fetch,      \* the POST a page is about to issue
    routes,     \* a page's interception handlers, the latest first
    left,       \* provider: messages whose POST arrived
    landed,     \* provider: messages that appeared in the Chat
    tries,      \* preparations that may still fail
    robbed,     \* history: a tab was closed under a message that needs it
    orphaned    \* history: sends cancelled between the claim and the POST

tabs   == <<pages, touched, unreusable, finished>>
editor == <<shown, draft, fetch, routes>>
sends  == <<block, claimed, dispatched, told>>

BrowserSendInit ==
    /\ httpx \in BOOLEAN
    /\ state = [o \in Op |-> "prepared"]
    /\ holder = None
    /\ at = [o \in Op |-> "idle"]
    /\ previous = [o \in Op |-> None]
    /\ tab = [o \in Op |-> None]
    /\ pages = [o \in Op |-> None]
    /\ dispatched = [o \in Op |-> "pending"]
    /\ told = [o \in Op |-> "nothing"]
    /\ gen = [o \in Op |-> "none"]
    /\ release = [o \in Op |-> "none"]
    /\ identified = {} /\ fresh = {} /\ touched = {} /\ unreusable = {}
    /\ finished = {} /\ block = {} /\ claimed = {} /\ open = {}
    /\ shown = [p \in Page |-> {}]
    /\ draft = [p \in Page |-> None]
    /\ fetch = [p \in Page |-> None]
    /\ routes = [p \in Page |-> <<>>]
    /\ left = {} /\ landed = {} /\ orphaned = {}
    /\ tries = MaxTries
    /\ robbed = FALSE

Goto(o, s)  == at' = [at EXCEPT ![o] = s]
Holds(o, s) == holder = o /\ at[o] = s
Owners(p)   == {o \in Op : pages[o] = p}
\* A message that still needs its tab.
Busy(o)     == state[o] = "sending" \/ (holder = o /\ state[o] = "prepared")

\* Tabs close; a closed page takes its editor, its POST and its routes with it.
Closed(S) ==
    /\ open' = open \ S
    /\ shown' = [p \in Page |-> IF p \in S THEN {} ELSE shown[p]]
    /\ draft' = [p \in Page |-> IF p \in S THEN None ELSE draft[p]]
    /\ fetch' = [p \in Page |-> IF p \in S THEN None ELSE fetch[p]]
    /\ routes' = [p \in Page |-> IF p \in S THEN <<>> ELSE routes[p]]

\* close_owned_page: bounded, and it may fail with the tab still there.
MayClose(p, closes) == Closed(IF closes THEN {p} ELSE {})

\* Whether closing a tab on behalf of o takes it from another message.
Robs(o, p) == \E q \in Owners(p) \ {o} : Busy(q)

-----------------------------------------------------------------------------
(***************************************************************************)
(* prepare: the one owned tab of the Chat, or a new one.                   *)
(***************************************************************************)
Candidates == {p \in open : Owners(p) # {} /\ p \notin unreusable}

Prepare(o, p) ==
    /\ holder = None
    /\ at[o] = "idle" /\ state[o] = "prepared"
    /\ IF Candidates = {} THEN p \in Page \ open /\ Owners(p) = {}
                          ELSE Candidates = {p}
    /\ holder' = o
    /\ Goto(o, "opening")
    /\ previous' = [previous EXCEPT ![o] = pages[o]]
    /\ tab' = [tab EXCEPT ![o] = p]
    /\ pages' = [pages EXCEPT ![o] = p]
    /\ open' = open \cup {p}
    /\ fresh' = IF p \in open THEN fresh \ {o} ELSE fresh \cup {o}
    /\ unreusable' = IF p \in open THEN unreusable ELSE unreusable \ {p}
    /\ UNCHANGED <<httpx, state, identified, touched, finished, sends, gen,
                   release, editor, left, landed, tries, robbed, orphaned>>

\* _wait_for_composer finds an empty editor; the model menu is opened.
Compose(o) ==
    /\ Holds(o, "opening")
    /\ draft[tab[o]] = None
    /\ Goto(o, "choosing")
    /\ touched' = touched \cup {tab[o]}
    /\ UNCHANGED <<httpx, state, identified, holder, fresh, previous, tab, pages, unreusable,
                   finished, sends, gen, release, open, editor, left, landed, tries,
                   robbed, orphaned>>

\* Model and effort are set and verified, the history is the baseline.
Baseline(o) ==
    /\ Holds(o, "choosing")
    /\ draft[tab[o]] = None
    /\ Goto(o, "prepared")
    /\ touched' = touched \ {tab[o]}
    /\ previous' = [previous EXCEPT ![o] = None]
    /\ UNCHANGED <<httpx, state, identified, holder, fresh, tab, pages, unreusable,
                   finished, sends, gen, release, open, editor, left, landed, tries,
                   robbed, orphaned>>

\* Preparation fails or is cancelled.
FailPrepare(o, closes) ==
    /\ holder = o /\ at[o] \in {"opening", "choosing"}
    /\ tries > 0
    /\ LET p == tab[o] IN
       /\ unreusable' = IF p \in touched /\ o \notin fresh THEN unreusable \cup {p}
                                                           ELSE unreusable
       /\ touched' = touched \ {p}
       /\ MayClose(p, o \in fresh /\ closes)
    /\ pages' = [pages EXCEPT ![o] = previous[o]]
    /\ previous' = [previous EXCEPT ![o] = None]
    /\ holder' = None
    /\ Goto(o, "idle")
    /\ tries' = tries - 1
    /\ UNCHANGED <<httpx, state, identified, fresh, tab, finished, sends, gen, release, left,
                   landed, robbed, orphaned>>

(***************************************************************************)
(* Subchats._dispatch: begin_send, which another message of the Chat or    *)
(* another controller may refuse, and discard_prepared after a refusal.    *)
(***************************************************************************)
Reserve(o) ==
    /\ Holds(o, "prepared")
    /\ \A q \in Op \ {o} : state[q] # "sending"
    /\ state' = [state EXCEPT ![o] = "sending"]
    /\ Goto(o, "reserved")
    /\ UNCHANGED <<httpx, identified, holder, fresh, previous, tab, tabs, sends, gen, release,
                   open, editor, left, landed, tries, robbed, orphaned>>

Discard(o, closes) ==
    LET p == pages[o] IN
    IF Owners(p) # {o}
    THEN /\ pages' = [pages EXCEPT ![o] = None]
         /\ UNCHANGED <<unreusable, touched, open, editor, robbed>>
    ELSE /\ MayClose(p, closes)
         /\ pages' = IF closes THEN [pages EXCEPT ![o] = None] ELSE pages
         /\ unreusable' = IF closes THEN unreusable ELSE unreusable \cup {p}
         /\ touched' = touched \ {p}
         /\ robbed' = (robbed \/ (closes /\ Robs(o, p)))

Refuse(o, closes) ==
    /\ Holds(o, "prepared")
    /\ tries > 0
    /\ Discard(o, closes)
    /\ holder' = None
    /\ Goto(o, "idle")
    /\ tries' = tries - 1
    /\ UNCHANGED <<httpx, state, identified, fresh, previous, tab, finished, sends, gen, release,
                   left, landed, orphaned>>

-----------------------------------------------------------------------------
(***************************************************************************)
(* send.  With HTTPX the account is asked first: a failure there precedes  *)
(* the draft.  Then the page's POSTs are intercepted, the draft inserted   *)
(* and, if nobody else has sent it, sent by a click.                       *)
(***************************************************************************)
AuthFails(o, closes) ==
    /\ Holds(o, "reserved") /\ httpx
    /\ state' = [state EXCEPT ![o] = "preflight_failed"]
    /\ told' = [told EXCEPT ![o] = "failed"]
    /\ Discard(o, closes)
    /\ holder' = None
    /\ Goto(o, "done")
    /\ UNCHANGED <<httpx, identified, fresh, previous, tab, finished, block, claimed, dispatched,
                   gen, release, left, landed, tries, orphaned>>

Intercept(o) ==
    /\ Holds(o, "reserved")
    /\ routes' = [routes EXCEPT ![tab[o]] = <<o>> \o @]
    /\ Goto(o, "routed")
    /\ UNCHANGED <<httpx, state, identified, holder, fresh, previous, tab, tabs, sends, gen,
                   release, open, shown, draft, fetch, left, landed, tries, robbed, orphaned>>

Insert(o) ==
    /\ Holds(o, "routed")
    /\ pages[o] # None
    /\ draft[tab[o]] = None
    /\ draft' = [draft EXCEPT ![tab[o]] = o]
    /\ Goto(o, "inserted")
    /\ UNCHANGED <<httpx, state, identified, holder, fresh, previous, tab, tabs, sends, gen,
                   release, open, shown, fetch, routes, left, landed, tries, robbed, orphaned>>

\* The draft leaves the editor: the page shows it and schedules its POST.
Sends(p) ==
    /\ fetch[p] = None
    /\ draft' = [draft EXCEPT ![p] = None]
    /\ fetch' = [fetch EXCEPT ![p] = draft[p]]
    /\ shown' = [shown EXCEPT ![p] = @ \cup {draft[p]}]

Click(o) ==
    /\ Holds(o, "inserted")
    /\ draft[tab[o]] = o
    /\ Sends(tab[o])
    /\ Goto(o, "waiting")
    /\ UNCHANGED <<httpx, state, identified, holder, fresh, previous, tab, tabs, sends, gen,
                   release, open, routes, left, landed, tries, robbed, orphaned>>

\* The user sends the draft, at any time it is there.
UserSends(p) ==
    /\ draft[p] # None
    /\ Sends(p)
    /\ UNCHANGED <<httpx, state, identified, holder, at, fresh, previous, tab, tabs, sends, gen,
                   release, open, routes, left, landed, tries, robbed, orphaned>>

\* _DraftNotSubmitted: the page changed the inserted text, nobody has sent it.
RejectDraft(o) ==
    /\ Holds(o, "inserted")
    /\ draft[tab[o]] = o
    /\ block' = block \cup {o}
    /\ IF httpx /\ o \notin claimed
       THEN Goto(o, "rejected") /\ unreusable' = unreusable \cup {tab[o]}
       ELSE Goto(o, "cleaning") /\ UNCHANGED unreusable
    /\ told' = [told EXCEPT ![o] = "unknown"]
    /\ UNCHANGED <<httpx, state, identified, holder, fresh, previous, tab, pages, touched, finished,
                   claimed, dispatched, gen, release, open, editor, left, landed, tries,
                   robbed, orphaned>>

\* The refused draft goes with its tab: only then has certainly nothing left.
DropRejected(o, closes) ==
    /\ Holds(o, "rejected")
    /\ MayClose(tab[o], closes)
    /\ IF closes /\ o \notin claimed
       THEN /\ state' = [state EXCEPT ![o] = "preflight_failed"]
            /\ told' = [told EXCEPT ![o] = "failed"]
       ELSE UNCHANGED <<state, told>>
    /\ robbed' = (robbed \/ (closes /\ Robs(o, tab[o])))
    /\ Goto(o, "cleaning")
    /\ UNCHANGED <<httpx, identified, holder, fresh, previous, tab, tabs, block, claimed, dispatched,
                   gen, release, left, landed, tries, orphaned>>

\* No POST within its time: the tab must go before the interception does.
Late(o, closes) ==
    /\ Holds(o, "waiting")
    /\ o \notin claimed
    /\ block' = block \cup {o}
    /\ unreusable' = unreusable \cup {tab[o]}
    /\ MayClose(tab[o], closes)
    /\ robbed' = (robbed \/ (closes /\ Robs(o, tab[o])))
    /\ told' = [told EXCEPT ![o] = "unknown"]
    /\ Goto(o, "cleaning")
    /\ UNCHANGED <<httpx, state, identified, holder, fresh, previous, tab, pages, touched, finished,
                   claimed, dispatched, gen, release, left, landed, tries, orphaned>>

\* send returns what the callback says of the POST it has claimed.
Return(o) ==
    /\ Holds(o, "waiting")
    /\ o \in claimed /\ dispatched[o] # "pending"
    /\ told' = [told EXCEPT ![o] = IF dispatched[o] = "accepted" THEN "sent"
                                   ELSE IF state[o] = "preflight_failed" THEN "failed"
                                   ELSE "unknown"]
    /\ IF httpx THEN Goto(o, "done") /\ holder' = None
                ELSE Goto(o, "cleaning") /\ UNCHANGED holder
    /\ UNCHANGED <<httpx, state, identified, fresh, previous, tab, tabs, block, claimed, dispatched,
                   gen, release, open, editor, left, landed, tries, robbed, orphaned>>

\* send is cancelled, or finds the page, the draft or the history changed.
GiveUp(o) ==
    /\ holder = o /\ at[o] \in {"reserved", "routed", "inserted", "waiting"}
    /\ told' = [told EXCEPT ![o] = "unknown"]
    /\ IF at[o] = "reserved" \/ (httpx /\ o \in claimed)
       THEN Goto(o, "done") /\ holder' = None
       ELSE Goto(o, "cleaning") /\ UNCHANGED holder
    /\ block' = IF at[o] = "reserved" \/ o \in claimed THEN block ELSE block \cup {o}
    /\ orphaned' = IF gen[o] \in {"claimed", "recorded"} THEN orphaned \cup {o} ELSE orphaned
    /\ UNCHANGED <<httpx, state, identified, fresh, previous, tab, tabs, claimed, dispatched, gen,
                   release, open, editor, left, landed, tries, robbed>>

(***************************************************************************)
(* cleanup_route.  What nobody claimed must stay blocked: an abort-only    *)
(* handler replaces the interception, or the interception stays.           *)
(***************************************************************************)
\* The routes of a page without the one of message o, which has one at most.
At(o, p) == {i \in DOMAIN routes[p] : routes[p][i] = o}
Others(o, p) ==
    LET r == routes[p]
        i == CHOOSE i \in At(o, p) : TRUE
    IN IF At(o, p) = {} THEN r ELSE SubSeq(r, 1, i - 1) \o SubSeq(r, i + 1, Len(r))

\* (Removes the interception and puts nothing in its place.)
CleanedOpenly(o, p) == {Others(o, p), routes[p]}

CleanedRoutes(o, p) ==
    IF o \in block
    THEN {<<"abort">> \o Others(o, p), <<"abort">> \o routes[p], routes[p]}
    ELSE {Others(o, p), routes[p]}

Uninstall(o) ==
    LET p == tab[o] IN
    IF p \notin open THEN UNCHANGED routes
    ELSE \E r \in CleanedRoutes(o, p) : routes' = [routes EXCEPT ![p] = r]

Clean(o) ==
    /\ Holds(o, "cleaning")
    /\ Uninstall(o)
    /\ holder' = None
    /\ Goto(o, "done")
    /\ UNCHANGED <<httpx, state, identified, fresh, previous, tab, tabs, sends, gen, release, open,
                   shown, draft, fetch, left, landed, tries, robbed, orphaned>>

-----------------------------------------------------------------------------
(***************************************************************************)
(* augment: the page issues its POST, and the latest handler gets it.      *)
(***************************************************************************)
Issue(p) ==
    /\ fetch[p] # None
    /\ fetch' = [fetch EXCEPT ![p] = None]
    /\ LET f == fetch[p]
           h == IF routes[p] = <<>> THEN None ELSE Head(routes[p])
       IN IF h = None
          THEN left' = left \cup {f} /\ UNCHANGED <<claimed, gen>>
          ELSE IF h = "abort" \/ h \in block \cup claimed
          THEN UNCHANGED <<left, claimed, gen>>
          ELSE /\ h = f
               /\ claimed' = claimed \cup {f}
               /\ gen' = [gen EXCEPT ![f] = "claimed"]
               /\ UNCHANGED left
    /\ UNCHANGED <<httpx, state, identified, holder, at, fresh, previous, tab, tabs, block,
                   dispatched, told, release, open, shown, draft, routes, landed, tries,
                   robbed, orphaned>>

\* The callback ends; with HTTPX its cleanup task follows.
Ends(o, accepted) ==
    /\ gen' = [gen EXCEPT ![o] = IF httpx THEN "ended" ELSE "none"]
    /\ dispatched' = [dispatched EXCEPT ![o] = IF @ # "pending" THEN @
                                               ELSE IF accepted THEN "accepted" ELSE "failed"]

\* observe_request: the POST is the message that was asked for.
Record(o) ==
    /\ gen[o] = "claimed"
    /\ state[o] = "sending"
    /\ identified' = identified \cup {o}
    /\ gen' = [gen EXCEPT ![o] = "recorded"]
    /\ UNCHANGED <<httpx, state, holder, at, fresh, previous, tab, tabs, sends, release, open,
                   editor, left, landed, tries, robbed, orphaned>>

\* Its payload, its account or (HTTPX) its headers are refused: nothing left, but the
\* page shows the message and is not used again.
RefusePost(o) ==
    /\ gen[o] = "claimed" \/ (gen[o] = "recorded" /\ httpx)
    /\ Ends(o, FALSE)
    /\ state' = [state EXCEPT ![o] = IF @ = "sending" THEN "preflight_failed" ELSE @]
    /\ unreusable' = unreusable \cup {tab[o]}
    /\ UNCHANGED <<httpx, identified, holder, at, fresh, previous, tab, pages, touched, finished,
                   block, claimed, told, release, open, editor, left, landed, tries, robbed,
                   orphaned>>

\* The POST goes on: by route.continue_, or by HTTPX, whose callback stays with it.
Forward(o) ==
    /\ gen[o] = "recorded"
    /\ left' = left \cup {o}
    /\ IF httpx THEN gen' = [gen EXCEPT ![o] = "posted"] /\ UNCHANGED dispatched
                ELSE \E ok \in BOOLEAN : Ends(o, ok)
    /\ UNCHANGED <<httpx, state, identified, holder, at, fresh, previous, tab, tabs, block, claimed,
                   told, release, open, editor, landed, tries, robbed, orphaned>>

Headers(o) ==
    /\ gen[o] = "posted"
    /\ gen' = [gen EXCEPT ![o] = "streaming"]
    /\ dispatched' = [dispatched EXCEPT ![o] = "accepted"]
    /\ UNCHANGED <<httpx, state, identified, holder, at, fresh, previous, tab, tabs, block, claimed,
                   told, release, open, editor, left, landed, tries, robbed, orphaned>>

\* The callback ends: the stream is delivered, an error, a refusal by the provider,
\* or a cancellation (close_generations).
EndCallback(o, accepted) ==
    /\ httpx
    /\ \/ gen[o] \in {"posted", "streaming"}
       \/ gen[o] \in {"claimed", "recorded"} /\ ~accepted
    /\ Ends(o, accepted)
    /\ UNCHANGED <<httpx, state, identified, holder, at, fresh, previous, tab, tabs, block, claimed,
                   told, release, open, editor, left, landed, tries, robbed, orphaned>>

FinishRoute(o) ==
    /\ gen[o] = "ended"
    /\ gen' = [gen EXCEPT ![o] = "none"]
    /\ Uninstall(o)
    /\ UNCHANGED <<httpx, state, identified, holder, at, fresh, previous, tab, tabs, sends, release,
                   open, shown, draft, fetch, left, landed, tries, robbed, orphaned>>

Land(o) ==
    /\ o \in left \ landed
    /\ landed' = landed \cup {o}
    /\ UNCHANGED <<httpx, state, identified, holder, at, fresh, previous, tab, tabs, sends, gen,
                   release, open, editor, left, tries, robbed, orphaned>>

-----------------------------------------------------------------------------
(***************************************************************************)
(* Subchats.recover finds the final answer, and release_completed ends a   *)
(* live callback before it gives the tab back.                             *)
(***************************************************************************)
Complete(o) ==
    /\ state[o] = "sending"
    /\ o \in landed \cap identified
    /\ state' = [state EXCEPT ![o] = "completed"]
    /\ finished' = IF pages[o] # None THEN finished \cup {o} ELSE finished
    /\ release' = [release EXCEPT ![o] = IF gen[o] # "none" THEN "interrupted" ELSE "waiting"]
    /\ IF gen[o] \in {"none", "ended"} THEN UNCHANGED <<gen, dispatched>> ELSE Ends(o, FALSE)
    /\ UNCHANGED <<httpx, identified, holder, at, fresh, previous, tab, pages, touched, unreusable,
                   block, claimed, told, open, editor, left, landed, tries, robbed, orphaned>>

\* A queued follow-up keeps the tab; its optimistic Stop button may stay visible.
KeepTab(o) ==
    /\ release[o] \in {"waiting", "interrupted"} /\ gen[o] = "none"
    /\ release' = [release EXCEPT ![o] = "done"]
    /\ unreusable' = IF release[o] = "interrupted" THEN unreusable \cup ({pages[o]} \cap open)
                                                   ELSE unreusable
    /\ UNCHANGED <<httpx, state, identified, holder, at, fresh, previous, tab, pages, touched, finished,
                   sends, gen, open, editor, left, landed, tries, robbed, orphaned>>

\* Otherwise every completed owner lets go of its tab; one that nobody owns is closed.
Abandoned(S) == {p \in Page : Owners(p) # {} /\ Owners(p) \subseteq S}

ReleaseTab(o, closes) ==
    /\ release[o] \in {"waiting", "interrupted"} /\ gen[o] = "none"
    /\ release' = [release EXCEPT ![o] = "done"]
    /\ LET S == Abandoned(finished) IN
       /\ pages' = [q \in Op |-> IF q \in finished THEN None ELSE pages[q]]
       /\ touched' = touched \ S
       /\ unreusable' = unreusable \ S
       /\ Closed(IF closes THEN S ELSE {})
       /\ robbed' = (robbed \/ (closes /\ \E p \in S : Robs(o, p)))
    /\ finished' = {}
    /\ UNCHANGED <<httpx, state, identified, holder, at, fresh, previous, tab, sends, gen, left, landed,
                   tries, orphaned>>

-----------------------------------------------------------------------------
BrowserSendNext ==
    \/ \E o \in Op :
        \/ \E p \in Page : Prepare(o, p)
        \/ Compose(o) \/ Baseline(o) \/ Reserve(o) \/ Intercept(o) \/ Insert(o) \/ Click(o)
        \/ RejectDraft(o) \/ Return(o) \/ GiveUp(o) \/ Clean(o)
        \/ Record(o) \/ RefusePost(o) \/ Forward(o) \/ Headers(o) \/ FinishRoute(o)
        \/ Land(o) \/ Complete(o) \/ KeepTab(o)
        \/ \E b \in BOOLEAN :
            \/ FailPrepare(o, b) \/ Refuse(o, b) \/ AuthFails(o, b) \/ DropRejected(o, b)
            \/ Late(o, b) \/ EndCallback(o, b) \/ ReleaseTab(o, b)
    \/ \E p \in Page : UserSends(p) \/ Issue(p)

browserSendVars ==
    <<httpx, state, identified, holder, at, fresh, previous, tab, tabs, sends, gen, release, open,
      editor, left, landed, tries, robbed, orphaned>>

BrowserSendSpec == BrowserSendInit /\ [][BrowserSendNext]_browserSendVars

-----------------------------------------------------------------------------
\* A message recorded as stopped before dispatch has not left and never will: not by
\* a late POST of its page, nor by a user who sends the draft that was left behind.
NothingEscaped == \A o \in Op : state[o] = "preflight_failed" => o \notin left

\* No POST reaches the provider before the ledger knows the message's identity, and
\* what send reports as sent has left.
EscapesRecorded ==
    /\ left \subseteq identified
    /\ \A o \in Op : told[o] = "sent" => o \in left

\* What a page shows when a message is about to be written into it is in the Chat: no
\* bubble of a message that never left is taken for history.  (Excepted: the message of
\* a send that was cancelled while its callback went on.)
BaselineTrue ==
    \A o \in Op : holder = o /\ at[o] \in {"reserved", "routed", "inserted"} =>
        shown[tab[o]] \subseteq landed \cup orphaned \cup {o}

\* No cleanup closes a tab that another message is being prepared or sent in.
TabsSpared == ~robbed
=============================================================================
