---------------------------- MODULE SubchatLedger ----------------------------
(***************************************************************************)
(* The durable Subchat submissions (subchat_state.py), the service that    *)
(* drives them (subchat.py, Subchats), the two transports that dispatch    *)
(* them (subchat_http_generation.py and subchat_browser/backend.py) and    *)
(* the one-shot deletion of a Chat (subchat_delete.py).                    *)
(*                                                                         *)
(* Several controllers (a Codex and a Claude MCP server, the CLI, the      *)
(* HTTPS gateway) share one SQLite file and no memory.  A Worker is one    *)
(* task of one of them: it prepares and dispatches a submission, or        *)
(* deletes a Chat.  Every transaction is one step; everything awaited lies *)
(* between steps.                                                          *)
(*                                                                         *)
(* An operation ID stands for its request: After gives the operation a     *)
(* queued follow-up waits for, HttpOps the requests with an                *)
(* http_selection.  Message identities are abstracted to whether one is    *)
(* saved, and a Chat belongs to one account.                               *)
(***************************************************************************)
EXTENDS Naturals, FiniteSets

CONSTANTS Op,          \* submission IDs
          After,       \* after_operation_id, None for a first message
          HttpOps,     \* the submissions with an http_selection
          Chat,        \* conversation IDs
          Existing,    \* Chats the user already has
          Account,     \* Chat accounts
          Choice,      \* what is sent besides the prompt: model and resources
          Worker,      \* tasks that dispatch or delete
          Direct,      \* the workers of the HTTP-only backend
          MaxRevision, \* bound on queue edits
          None         \* SQL NULL, or no value

ASSUME ConstantAssumption ==
    /\ After \in [Op -> Op \cup {None}]
    /\ HttpOps \subseteq Op
    /\ Existing \subseteq Chat
    /\ Direct \subseteq Worker
    /\ MaxRevision \in Nat
    /\ None \notin Op \cup Chat \cup Account \cup Choice

VARIABLES
    state,    \* SubchatSubmission.state, "absent" when there is no row
    asked,    \* requested_conversation_id
    conv,     \* conversation_id
    ident,    \* user_message_id is saved
    account,  \* provider_account_id
    choice,   \* model, effort, selection and resources
    revision, \* subchat_queue_revisions
    claims,   \* subchat_http_dispatch_claims
    deletion, \* subchat_http_deletions
    job,      \* what each worker is doing
    posts,    \* history: generation requests that left for the provider
    landed,   \* provider: the Chat in which the message appeared
    patches   \* history: deletion requests that left for the provider

rows     == <<state, asked, conv, ident, account, choice, revision>>
provider == <<posts, landed, patches>>
vars     == <<state, asked, conv, ident, account, choice, revision, claims,
              deletion, job, posts, landed, patches>>

Unsent == {"queued", "prepared"}
Active == {"sending", "submitted"}
Final  == {"completed", "cancelled", "interrupted", "preflight_failed"}
States == {"absent"} \cup Unsent \cup Active \cup Final
Phase  == {"snapshot", "preparing", "reserved", "claimed", "posted",
           "verifying", "patching", "patched"}
Job    == [op : Op, phase : Phase, revision : Nat, checked : Choice \cup {None}]

ASSUME NoneAssumption == None \notin Job

TypeOK ==
    /\ state \in [Op -> States]
    /\ asked \in [Op -> Chat \cup {None}]
    /\ conv \in [Op -> Chat \cup {None}]
    /\ ident \in [Op -> BOOLEAN]
    /\ account \in [Op -> Account \cup {None}]
    /\ choice \in [Op -> Choice \cup {None}]
    /\ revision \in [Op -> Nat]
    /\ claims \subseteq Op
    /\ deletion \in [Chat -> {"none", "unknown", "deleted"}]
    /\ job \in [Worker -> Job \cup {None}]
    /\ posts \in [Op -> Nat]
    /\ landed \in [Op -> Chat \cup {None}]
    /\ patches \in [Chat -> Nat]

Init ==
    /\ state = [o \in Op |-> "absent"]
    /\ asked = [o \in Op |-> None]
    /\ conv = [o \in Op |-> None]
    /\ ident = [o \in Op |-> FALSE]
    /\ account = [o \in Op |-> None]
    /\ choice = [o \in Op |-> None]
    /\ revision = [o \in Op |-> 0]
    /\ claims = {}
    /\ deletion = [c \in Chat |-> "none"]
    /\ job = [w \in Worker |-> None]
    /\ posts = [o \in Op |-> 0]
    /\ landed = [o \in Op |-> None]
    /\ patches = [c \in Chat |-> 0]

\* The Chats a user can name: those that exist at the provider.
Known == Existing \cup {landed[o] : o \in {p \in Op : landed[p] # None}}

(***************************************************************************)
(* SubchatSubmissions.prepare.  A follow-up inherits its target's Chat and *)
(* (Subchats.queue) its selection.                                         *)
(***************************************************************************)
Checkpointed(t) ==
    \/ state[t] \in {"submitted", "completed"} /\ ident[t]
    \/ state[t] = "sending" /\ ident[t] /\ account[t] # None /\ conv[t] # None

NewRow(o, s, c, m) ==
    /\ state' = [state EXCEPT ![o] = s]
    /\ asked' = [asked EXCEPT ![o] = c]
    /\ conv' = [conv EXCEPT ![o] = c]
    /\ choice' = [choice EXCEPT ![o] = m]
    /\ UNCHANGED <<ident, account, revision, claims, deletion, job, provider>>

PrepareFirst(o, c, m) ==
    /\ state[o] = "absent"
    /\ After[o] = None
    /\ c \in Known \cup {None}
    /\ NewRow(o, "prepared", c, m)

PrepareFollowUp(o, m) ==
    /\ state[o] = "absent"
    /\ After[o] \notin {None, o}
    /\ Checkpointed(After[o])
    /\ o \in HttpOps <=> After[o] \in HttpOps
    /\ m = choice[After[o]]
    /\ NewRow(o, "queued", conv[After[o]], m)

(***************************************************************************)
(* Edits of an unsent submission, from any controller: cancel,             *)
(* change_queued_model and change_queued_resources.                        *)
(***************************************************************************)
\* Mutant: a reserved submission may still be cancelled.
CancelReserved(o) ==
    /\ state[o] \in Unsent \cup {"sending"}
    /\ state' = [state EXCEPT ![o] = "cancelled"]
    /\ UNCHANGED <<asked, conv, ident, account, choice, revision, claims,
                   deletion, job, provider>>

Cancel(o) ==
    /\ state[o] \in Unsent
    /\ state' = [state EXCEPT ![o] = "cancelled"]
    /\ UNCHANGED <<asked, conv, ident, account, choice, revision, claims,
                   deletion, job, provider>>

\* Mutant: the edit does not advance the queue revision.
ChangeUnrevised(o, m) ==
    /\ state[o] = "queued"
    /\ choice' = [choice EXCEPT ![o] = m]
    /\ UNCHANGED <<state, asked, conv, ident, account, revision, claims,
                   deletion, job, provider>>

ChangeQueued(o, m) ==
    /\ state[o] = "queued"
    /\ revision[o] < MaxRevision
    /\ choice' = [choice EXCEPT ![o] = m]
    /\ revision' = [revision EXCEPT ![o] = @ + 1]
    /\ UNCHANGED <<state, asked, conv, ident, account, claims, deletion, job,
                   provider>>

-----------------------------------------------------------------------------
(***************************************************************************)
(* Subchats._dispatch.  The revision is read before the row, in separate   *)
(* statements; backend.prepare is awaited on that snapshot.                *)
(***************************************************************************)
Doing(w, p) == job[w] # None /\ job[w].phase = p
Move(w, p)  == job' = [job EXCEPT ![w].phase = p]
Stop(w)     == job' = [job EXCEPT ![w] = None]

StartDispatch(w, o) ==
    /\ job[w] = None
    /\ state[o] \in Unsent
    /\ state[o] = "queued" => state[After[o]] = "completed"
    /\ job' = [job EXCEPT ![w] = [op |-> o, phase |-> "snapshot",
                                  revision |-> revision[o], checked |-> None]]
    /\ UNCHANGED <<rows, claims, deletion, provider>>

ReadRow(w) ==
    /\ Doing(w, "snapshot")
    /\ LET o == job[w].op IN
       /\ state[o] \in Unsent
       /\ job' = [job EXCEPT ![w].phase = "preparing", ![w].checked = choice[o]]
    /\ UNCHANGED <<rows, claims, deletion, provider>>

(***************************************************************************)
(* The part of _replace that guards a row whose new state is "sending" and *)
(* whose Chat is known.                                                    *)
(***************************************************************************)
\* Mutants: each half of the guard alone.
ChatUndeleted(o, c) == o \in Op /\ deletion[c] = "none"
ChatIdle(o, c) == \A p \in Op \ {o} : ~(conv[p] = c /\ state[p] \in Active)

ChatFree(o, c) ==
    /\ deletion[c] = "none"
    /\ \A p \in Op \ {o} : ~(conv[p] = c /\ state[p] \in Active)

\* begin_send and observe_request: a follow-up stays on its target's account.
\* Mutant: the account is compared with nothing.
AnyAccount(o, a) == o \in Op /\ a \in Account

AccountFits(o, a) == After[o] # None => account[After[o]] \in {None, a}

(***************************************************************************)
(* begin_send.  Its unlocked reads are repeated by the compare-and-swap of *)
(* _replace or cannot change any more (a completed target), so it is one   *)
(* step.  The HTTP backend reserves identity and account here, the browser *)
(* at observe_request.                                                     *)
(***************************************************************************)
BeginSend(w, a) ==
    /\ Doing(w, "preparing")
    /\ LET o == job[w].op IN
       /\ state[o] \in Unsent
       /\ state[o] = "queued" => revision[o] = job[w].revision
       /\ After[o] # None => state[After[o]] = "completed"
       /\ conv[o] # None => ChatFree(o, conv[o])
       /\ w \in Direct => /\ o \in HttpOps
                          /\ asked[o] # None => After[o] # None
                          /\ AccountFits(o, a)
       /\ state' = [state EXCEPT ![o] = "sending"]
       /\ ident' = [ident EXCEPT ![o] = w \in Direct]
       /\ account' = [account EXCEPT ![o] = IF w \in Direct THEN a ELSE None]
    /\ Move(w, "reserved")
    /\ UNCHANGED <<asked, conv, choice, revision, claims, deletion, provider>>

\* observe_request: the browser's intercepted request, before it leaves.
ObserveRequest(w, a) ==
    /\ Doing(w, "reserved")
    /\ w \notin Direct
    /\ LET o == job[w].op IN
       /\ state[o] = "sending"
       /\ ~ident[o]
       /\ conv[o] # None => ChatFree(o, conv[o])
       /\ AccountFits(o, a)
       /\ ident' = [ident EXCEPT ![o] = TRUE]
       /\ account' = [account EXCEPT ![o] = a]
    /\ Move(w, "claimed")
    /\ UNCHANGED <<state, asked, conv, choice, revision, claims, deletion,
                   provider>>

\* claim_http_dispatch: committed right before the POST and never released.
ClaimDispatch(w) ==
    /\ Doing(w, "reserved")
    /\ w \in Direct
    /\ LET o == job[w].op IN
       /\ state[o] = "sending"
       /\ After[o] # None => state[After[o]] = "completed"
       /\ o \notin claims
       /\ claims' = claims \cup {o}
    /\ Move(w, "claimed")
    /\ UNCHANGED <<rows, deletion, provider>>

(***************************************************************************)
(* The generation request leaves.  The message appears in the known Chat,  *)
(* in a Chat the provider creates for it, or nowhere.  A plain browser     *)
(* page has no observe_request.                                            *)
(***************************************************************************)
Post(w, c) ==
    /\ \/ Doing(w, "claimed")
       \/ Doing(w, "reserved") /\ w \notin Direct /\ job[w].op \notin HttpOps
    /\ LET o == job[w].op IN
       /\ c \in {None} \cup (IF conv[o] # None THEN {conv[o]} ELSE Chat \ Known)
       /\ posts' = [posts EXCEPT ![o] = @ + 1]
       /\ landed' = [landed EXCEPT ![o] = c]
    /\ Move(w, "posted")
    /\ UNCHANGED <<rows, claims, deletion, patches>>

\* fail_http_before_dispatch: any failure or cancellation before the claim,
\* in the browser also one before the intercepted request goes on.
FailPreflight(w) ==
    /\ Doing(w, "reserved") \/ (Doing(w, "claimed") /\ w \notin Direct)
    /\ LET o == job[w].op IN
       /\ o \in HttpOps
       /\ state[o] = "sending"
       /\ o \notin claims
       /\ state' = [state EXCEPT ![o] = "preflight_failed"]
    /\ Stop(w)
    /\ UNCHANGED <<asked, conv, ident, account, choice, revision, claims,
                   deletion, provider>>

\* observe_conversation: the stream of a New Chat names its conversation.
ObserveConversation(w) ==
    /\ Doing(w, "posted")
    /\ LET o == job[w].op IN
       /\ state[o] = "sending"
       /\ account[o] # None
       /\ conv[o] = None
       /\ landed[o] # None
       /\ ChatFree(o, landed[o])
       /\ conv' = [conv EXCEPT ![o] = landed[o]]
    /\ UNCHANGED <<state, asked, ident, account, choice, revision, claims,
                   deletion, job, provider>>

\* The task ends: a refusal, an error, an unknown outcome, the end of its
\* work, a cancellation, or the death of its process.  Rows stay as they are.
EndTask(w) ==
    /\ job[w] # None
    /\ Stop(w)
    /\ UNCHANGED <<rows, claims, deletion, provider>>

-----------------------------------------------------------------------------
(***************************************************************************)
(* Subchats.recover, from any controller at any time: what the provider's  *)
(* history shows of a message that landed.                                 *)
(***************************************************************************)
Submitted(o) ==
    /\ state[o] = "sending"
    /\ landed[o] # None
    /\ conv[o] \in {None, landed[o]}
    /\ state' = [state EXCEPT ![o] = "submitted"]
    /\ conv' = [conv EXCEPT ![o] = landed[o]]
    /\ ident' = [ident EXCEPT ![o] = TRUE]
    /\ UNCHANGED <<asked, account, choice, revision, claims, deletion, job,
                   provider>>

Settle(o, s) ==
    /\ state[o] = "submitted"
    /\ state' = [state EXCEPT ![o] = s]
    /\ UNCHANGED <<asked, conv, ident, account, choice, revision, claims,
                   deletion, job, provider>>

Complete(o)  == Settle(o, "completed")
Interrupt(o) == Settle(o, "interrupted")

-----------------------------------------------------------------------------
(***************************************************************************)
(* subchat_delete.py, delete_saved: check, verify remotely, claim, send    *)
(* the sole PATCH, confirm.                                                *)
(***************************************************************************)
NoActivePeer(o) ==
    \A p \in Op \ {o} :
        ~(conv[o] \in {conv[p], asked[p]} /\ state[p] \in Unsent \cup Active)

StartDelete(w, o) ==
    /\ job[w] = None
    /\ state[o] = "completed"
    /\ ident[o] /\ account[o] # None
    /\ deletion[conv[o]] = "none"
    /\ NoActivePeer(o)
    /\ job' = [job EXCEPT ![w] = [op |-> o, phase |-> "verifying",
                                  revision |-> 0, checked |-> None]]
    /\ UNCHANGED <<rows, claims, deletion, provider>>

\* Mutant: the claim is not checked again after the remote verification.
ClaimDeleteAgain(w) ==
    /\ Doing(w, "verifying")
    /\ NoActivePeer(job[w].op)
    /\ deletion' = [deletion EXCEPT ![conv[job[w].op]] = "unknown"]
    /\ Move(w, "patching")
    /\ UNCHANGED <<rows, claims, provider>>

ClaimDelete(w) ==
    /\ Doing(w, "verifying")
    /\ LET o == job[w].op IN
       /\ NoActivePeer(o)
       /\ deletion[conv[o]] = "none"
       /\ deletion' = [deletion EXCEPT ![conv[o]] = "unknown"]
    /\ Move(w, "patching")
    /\ UNCHANGED <<rows, claims, provider>>

Patch(w) ==
    /\ Doing(w, "patching")
    /\ patches' = [patches EXCEPT ![conv[job[w].op]] = @ + 1]
    /\ Move(w, "patched")
    /\ UNCHANGED <<rows, claims, deletion, posts, landed>>

ConfirmDelete(w) ==
    /\ Doing(w, "patched")
    /\ deletion' = [deletion EXCEPT ![conv[job[w].op]] = "deleted"]
    /\ Stop(w)
    /\ UNCHANGED <<rows, claims, provider>>

Next ==
    \/ \E o \in Op :
          \/ \E c \in Chat \cup {None}, m \in Choice : PrepareFirst(o, c, m)
          \/ \E m \in Choice : PrepareFollowUp(o, m) \/ ChangeQueued(o, m)
          \/ Cancel(o) \/ Submitted(o) \/ Complete(o) \/ Interrupt(o)
    \/ \E w \in Worker :
          \/ \E o \in Op : StartDispatch(w, o) \/ StartDelete(w, o)
          \/ \E a \in Account : BeginSend(w, a) \/ ObserveRequest(w, a)
          \/ \E c \in Chat \cup {None} : Post(w, c)
          \/ ReadRow(w) \/ ClaimDispatch(w) \/ FailPreflight(w)
          \/ ObserveConversation(w) \/ EndTask(w)
          \/ ClaimDelete(w) \/ Patch(w) \/ ConfirmDelete(w)

Spec == Init /\ [][Next]_vars

-----------------------------------------------------------------------------
(* Properties *)

(***************************************************************************)
(* The request leaves at most once, whatever workers race for it, and a    *)
(* submission that ended as cancelled or preflight_failed was never sent   *)
(* (subchat.py _dispatch, subchat_http.py send).                           *)
(***************************************************************************)
SentOnce ==
    \A o \in Op :
        /\ posts[o] <= 1
        /\ state[o] \in {"queued", "prepared", "cancelled", "preflight_failed"}
             => posts[o] = 0

(***************************************************************************)
(* The ledger serializes sends to one Chat: of two submissions active in   *)
(* it, at least one was reserved as a New Chat, whose conversation nobody  *)
(* could know at its reservation (subchat_state.py _replace).              *)
(***************************************************************************)
ChatSerialized ==
    \A o, p \in Op :
        /\ o # p
        /\ {state[o], state[p]} \subseteq Active
        /\ conv[o] = conv[p] /\ conv[o] # None
        => None \in {asked[o], asked[p]}

(***************************************************************************)
(* A deletion claim and a send reserved for that Chat exclude each other,  *)
(* in whichever order two controllers decide, from the reservation to the  *)
(* recovered outcome (subchat_state.py _replace, subchat_delete.py claim). *)
(***************************************************************************)
DeletionExclusive ==
    \A o \in Op :
        asked[o] # None /\ state[o] \in Active => deletion[asked[o]] = "none"

(***************************************************************************)
(* What leaves is what backend.prepare checked: an edit of a queued model  *)
(* or of its resources that commits while a worker prepares never slips    *)
(* into the reservation (the comment in subchat.py _dispatch).             *)
(***************************************************************************)
SentAsChecked ==
    \A w \in Worker :
        Doing(w, "reserved") \/ Doing(w, "claimed")
            => job[w].checked = choice[job[w].op]

(***************************************************************************)
(* A follow-up leaves only after its target's answer is saved, in the same *)
(* Chat and under the same account (subchat_state.py begin_send).          *)
(***************************************************************************)
FollowsTarget ==
    \A o \in Op :
        After[o] # None /\ state[o] \in Active \cup {"completed"} =>
            LET t == After[o] IN
            /\ state[t] = "completed"
            /\ conv[o] = conv[t]
            /\ account[o] = None \/ account[t] \in {None, account[o]}

(***************************************************************************)
(* A Chat's deletion request leaves at most once, however often and from   *)
(* however many controllers it is asked for, and never without the durable *)
(* claim that keeps sends out (subchat_delete.py delete_saved).            *)
(***************************************************************************)
PatchedOnce ==
    \A c \in Chat :
        /\ patches[c] <= 1
        /\ patches[c] = 1 => deletion[c] # "none"
=============================================================================
