--------------------------- MODULE SubchatController ---------------------------
(***************************************************************************)
(* One controller of Subchat (subchat_mcp.py, session): the calls that     *)
(* observe, await and cancel submissions, the watch that carries out a     *)
(* queued one while nobody looks, and the tasks they share: one recovery   *)
(* and one send per submission, kept apart from the calls that wait for    *)
(* them, and a browser that prepares one input at a time.                  *)
(*                                                                         *)
(* First is a submission in the ledger, Next one a follow-up queued after  *)
(* it.  What lies between two awaits of the event loop is one step.        *)
(***************************************************************************)
EXTENDS Naturals, FiniteSets

CONSTANTS First, Second,   \* submission IDs, Second queued after First
          Caller,          \* calls at one time
          MaxRecoveries,   \* 8 in the code
          MaxFailures,     \* bound: preparations that fail
          None

Op == {First, Second}

VARIABLES
    row,      \* SubchatSubmission.state
    failed,   \* the ledger has a preparation failure of the row
    sent,     \* sends: stage of the task that sends First
    rec,      \* recoveries: stage of the recovery of each submission
    alone,    \* the recovery holds the browser lock while it works
    watch,    \* queue_watches: stage of the watch of Second
    report,   \* queue_watch_states of Second
    over,     \* the lease of the watch has run out
    caller,   \* the calls: tool, submission and stage
    posted,   \* history: posts of each submission
    blind,    \* history: a failed preparation was tried again unasked
    called,   \* history: submissions somebody was told are cancelled
    failures

ledgerRows == <<row, failed>>
watchVars == <<watch, report, over>>
controllerVars == <<row, failed, sent, rec, alone, watch, report, over, caller, posted, blind,
                    called, failures>>

Unsent == {"prepared", "queued"}
Open == {"queued", "sending", "submitted"}
Away == [tool |-> None, op |-> None, stage |-> "away"]

ControllerInit ==
    /\ row \in [Op -> {"prepared", "queued", "submitted"}]
    /\ row[First] # "queued" /\ row[Second] = "queued"
    /\ failed = [o \in Op |-> FALSE]
    /\ sent = "none" /\ rec = [o \in Op |-> "none"] /\ alone = [o \in Op |-> FALSE]
    /\ watch = "off" /\ report = "none" /\ over = FALSE
    /\ caller = [c \in Caller |-> Away]
    /\ posted = [o \in Op |-> 0] /\ blind = FALSE /\ called = {} /\ failures = 0

-----------------------------------------------------------------------------
(* The browser and its lock.                                               *)

Sending == sent \notin {"none", "failed"}
Working(o) == rec[o] \in {"looking", "preparing", "posting", "posted"}
Locked == sent \in {"preparing", "posting", "posted"} \/ \E o \in Op : Working(o) /\ alone[o]

\* Recoveries that are kept: running ones, and failed ones nobody collected.
Recoveries == {o \in Op : rec[o] # "none"}

\* What an input may still be typed for.
Inputs == (IF sent \in {"preparing", "posting"} THEN {<<"send", First>>} ELSE {})
          \cup {<<"recover", o>> : o \in {p \in Op : rec[p] \in {"preparing", "posting"}}}

-----------------------------------------------------------------------------
(* observe: what a call or the watch gets at once, and what it waits for.  *)

Fails(o) == failed[o] /\ row[o] \in Unsent

\* Whoever waits for a recovery wakes when it ends; the first takes its error
\* out of recoveries, without anybody it stays for the next observer.
Wake(o, stage) ==
    /\ caller' = [c \in Caller |-> IF caller[c].stage = "joined" /\ caller[c].op = o
                                   THEN [caller[c] EXCEPT !.stage = stage] ELSE caller[c]]
    /\ watch' = IF watch = "joined" /\ o = Second THEN stage ELSE watch

Waited(o) == \/ \E c \in Caller : caller[c].stage = "joined" /\ caller[c].op = o
             \/ watch = "joined" /\ o = Second

NeedsLock(o) == row[o] = "queued"

Observed(o, now, wait, error) ==
    \/ Fails(o) /\ error /\ UNCHANGED <<rec, alone>>
    \/ ~ Fails(o) /\ o = First /\ Sending /\ now /\ UNCHANGED <<rec, alone>>
    \/ /\ ~ Fails(o) /\ ~ (o = First /\ Sending)
       /\ \/ rec[o] = "failed" /\ error /\ rec' = [rec EXCEPT ![o] = "none"] /\ UNCHANGED alone
          \/ rec[o] \notin {"none", "failed"} /\ wait /\ UNCHANGED <<rec, alone>>
          \/ rec[o] = "none" /\ row[o] \notin Open /\ now /\ UNCHANGED <<rec, alone>>
          \/ /\ rec[o] = "none" /\ row[o] \in Open
             /\ \/ /\ Cardinality(Recoveries) >= MaxRecoveries
                   /\ error /\ UNCHANGED <<rec, alone>>
                \/ /\ Cardinality(Recoveries) < MaxRecoveries
                   /\ wait
                   /\ rec' = [rec EXCEPT ![o] = "waiting"]
                   /\ alone' = [alone EXCEPT ![o] = NeedsLock(o)]

-----------------------------------------------------------------------------
(* The calls.                                                              *)

Arrives(c, o) == caller[c].stage = "away"
At(c, tool, o, stage) ==
    caller' = [caller EXCEPT ![c] = [tool |-> tool, op |-> o, stage |-> stage]]
Leave(c) == caller' = [caller EXCEPT ![c] = Away]

\* subchat_recover: the explicit retry of a queued child that failed.
Recover(c, o) ==
    /\ Arrives(c, o)
    /\ failed' = [failed EXCEPT ![o] = @ /\ row[o] # "queued"]
    /\ At(c, "recover", o, "observing")
    /\ UNCHANGED <<row, sent, rec, alone, watchVars, posted, blind, called, failures>>

RecoverObserves(c) ==
    LET o == caller[c].op
    IN  /\ caller[c].tool = "recover" /\ caller[c].stage = "observing"
        /\ Observed(o, Leave(c), caller' = [caller EXCEPT ![c].stage = "joined"], Leave(c))
        /\ UNCHANGED <<ledgerRows, sent, watchVars, posted, blind, called, failures>>

RecoverAnswers(c) ==
    /\ caller[c].tool = "recover" /\ caller[c].stage \in {"resumed", "refused"}
    /\ Leave(c)
    /\ UNCHANGED <<ledgerRows, sent, rec, alone, watchVars, posted, blind, called, failures>>

\* subchat_wait: observe until the row is settled and no send prepares it, or
\* until the deadline; both answer with the row as it is then.
Preparing(o) == row[o] = "prepared" /\ o = First /\ Sending
Settled(o) == row[o] \notin Open /\ ~ Preparing(o)
Look(c, o) == IF Settled(o) THEN Leave(c)
              ELSE caller' = [caller EXCEPT ![c].stage = "observing"]

Wait(c, o) ==
    /\ Arrives(c, o) /\ ~ Fails(o) /\ ~ Settled(o)
    /\ At(c, "wait", o, "observing")
    /\ UNCHANGED <<ledgerRows, sent, rec, alone, watchVars, posted, blind, called, failures>>

WaitObserves(c) ==
    LET o == caller[c].op
    IN  /\ caller[c].tool = "wait" /\ caller[c].stage = "observing"
        /\ Observed(o, Look(c, o), caller' = [caller EXCEPT ![c].stage = "joined"], Leave(c))
        /\ UNCHANGED <<ledgerRows, sent, watchVars, posted, blind, called, failures>>

WaitResumes(c) ==
    LET o == caller[c].op
    IN  /\ caller[c].tool = "wait"
        /\ \/ caller[c].stage = "resumed" /\ Look(c, o)
           \/ caller[c].stage = "refused" /\ Leave(c)
           \/ caller[c].stage \in {"observing", "joined"} /\ Leave(c)
        /\ UNCHANGED <<ledgerRows, sent, rec, alone, watchVars, posted, blind, called, failures>>

\* subchat_send of First, again or for the first time.
Send(c) ==
    /\ Arrives(c, First) /\ row[First] = "prepared" /\ ~ Sending
    /\ sent' = "waiting" /\ failed' = [failed EXCEPT ![First] = FALSE]
    /\ UNCHANGED <<row, rec, alone, watchVars, caller, posted, blind, called, failures>>

\* subchat_cancel: the row first, then whatever works on it, one await later.
Cancel(c, o) ==
    /\ Arrives(c, o)
    /\ row[o] \in Unsent \cup {"cancelled"}
    /\ row' = [row EXCEPT ![o] = "cancelled"]
    /\ sent' = IF o = First THEN "none" ELSE sent
    /\ rec' = [rec EXCEPT ![o] = "none"]
    /\ Wake(o, "resumed")
    /\ called' = called \cup {o}
    /\ UNCHANGED <<failed, alone, report, over, posted, blind, failures>>

\* The gateway cancels through a connection of its own: no task hears of it.
CancelElsewhere(o) ==
    /\ row[o] \in Unsent /\ row' = [row EXCEPT ![o] = "cancelled"]
    /\ called' = called \cup {o}
    /\ UNCHANGED <<failed, sent, rec, alone, watchVars, caller, posted, blind, failures>>

\* subchat_queue_watch.
Disable(c) ==
    /\ Arrives(c, Second) /\ watch # "off"
    /\ report' = "disabling" /\ watch' = "cancelled"
    /\ At(c, "disable", Second, "awaiting")
    /\ UNCHANGED <<ledgerRows, sent, rec, alone, over, posted, blind, called, failures>>

Disabled(c) ==
    /\ caller[c].tool = "disable"
    /\ watch' = (IF watch = "cancelled" THEN "off" ELSE watch)
    /\ report' = "stopped"
    /\ Leave(c)
    /\ UNCHANGED <<ledgerRows, sent, rec, alone, over, posted, blind, called, failures>>

Enable(c) ==
    /\ Arrives(c, Second) /\ row[Second] = "queued"
    /\ watch = "off" \/ report = "expired"
    /\ watch' = "looping" /\ report' = "watching" /\ over' = FALSE
    /\ UNCHANGED <<ledgerRows, sent, rec, alone, caller, posted, blind, called, failures>>

-----------------------------------------------------------------------------
(* watch_queue.                                                            *)

Stop(why) == watch' = "ended" /\ report' = why

Lapse == /\ watch \in {"looping", "joined", "resumed", "refused"} /\ ~ over /\ over' = TRUE
         /\ UNCHANGED <<ledgerRows, sent, rec, alone, watch, report, caller, posted, blind,
                        called, failures>>

\* The tab of the Chat is there, or it is not.
WatchLoops ==
    /\ watch = "looping"
    /\ \/ over /\ Stop("expired") /\ UNCHANGED <<rec, alone>>
       \/ ~ over /\ row[Second] \notin Open /\ Stop("stopped") /\ UNCHANGED <<rec, alone>>
       \/ ~ over /\ row[Second] = "queued" /\ Stop("stopped") /\ UNCHANGED <<rec, alone>>
       \/ /\ ~ over /\ row[Second] \in Open
          /\ Observed(Second, UNCHANGED <<watch, report>>,
                      watch' = "joined" /\ UNCHANGED report, Stop("stopped"))
    /\ UNCHANGED <<ledgerRows, sent, over, caller, posted, blind, called, failures>>

WatchResumes ==
    /\ \/ watch = "resumed" /\ watch' = "looping" /\ UNCHANGED report
       \/ watch = "refused" /\ Stop("stopped")
    /\ UNCHANGED <<ledgerRows, sent, rec, alone, over, caller, posted, blind, called, failures>>

-----------------------------------------------------------------------------
(* Subchats.recover and _dispatch, in the task of a recovery.              *)

Step(o, from, to) == rec[o] = from /\ rec' = [rec EXCEPT ![o] = to]

Ends(o) == rec' = [rec EXCEPT ![o] = "none"] /\ Wake(o, "resumed")
Errs(o) == /\ rec' = [rec EXCEPT ![o] = IF Waited(o) THEN "none" ELSE "failed"]
           /\ Wake(o, "refused")

Starts(o) ==
    /\ Step(o, "waiting", "looking") /\ (alone[o] => ~ Locked)
    /\ UNCHANGED <<ledgerRows, sent, alone, watchVars, caller, posted, blind, called, failures>>

\* The Chat is read: for the row itself, or for what a queued row comes after.
Looked(o) ==
    LET p == IF row[o] = "queued" THEN First ELSE o
    IN  /\ rec[o] = "looking"
        /\ \/ /\ row[p] \in {"sending", "submitted"}
              /\ \/ row' = [row EXCEPT ![p] = "completed"]
                    /\ IF p = o THEN Ends(o)
                       ELSE rec' = [rec EXCEPT ![o] = "preparing"] /\ UNCHANGED <<caller, watch>>
                 \/ row' = [row EXCEPT ![p] = "submitted"] /\ Ends(o)
                 \/ row' = row /\ Ends(o)
           \/ /\ row[p] \notin {"sending", "submitted"} /\ UNCHANGED row
              /\ IF row[p] = "completed" /\ p # o
                    THEN rec' = [rec EXCEPT ![o] = "preparing"] /\ UNCHANGED <<caller, watch>>
                    ELSE Ends(o)
        /\ blind' = (blind \/ (rec'[o] = "preparing" /\ failed[o]))
        /\ UNCHANGED <<failed, sent, alone, report, over, posted, called, failures>>

\* A lost login or another Chat client: no verdict about the row is saved.
LookFails(o) ==
    /\ rec[o] \in {"looking", "preparing", "posted"} /\ Errs(o)
    /\ failures < MaxFailures /\ failures' = failures + 1
    /\ UNCHANGED <<ledgerRows, sent, alone, report, over, posted, blind, called>>

PreparationFails(o) ==
    /\ rec[o] = "preparing"
    /\ failures < MaxFailures /\ failures' = failures + 1
    /\ failed' = [failed EXCEPT ![o] = TRUE]
    /\ rec' = [rec EXCEPT ![o] = "none"] /\ Wake(o, "refused")
    /\ UNCHANGED <<row, sent, alone, report, over, posted, blind, called>>

BeginSend(o) ==
    /\ rec[o] = "preparing"
    /\ IF row[o] \in Unsent
          THEN Step(o, "preparing", "posting") /\ row' = [row EXCEPT ![o] = "sending"]
               /\ UNCHANGED <<caller, watch>>
          ELSE Ends(o) /\ UNCHANGED row
    /\ UNCHANGED <<failed, sent, alone, report, over, posted, blind, called, failures>>

Post(o) ==
    /\ Step(o, "posting", "posted") /\ posted' = [posted EXCEPT ![o] = @ + 1]
    /\ UNCHANGED <<ledgerRows, sent, alone, watchVars, caller, blind, called, failures>>

Accept(o) ==
    /\ rec[o] = "posted" /\ Ends(o)
    /\ row' = [row EXCEPT ![o] = IF @ = "sending" THEN "submitted" ELSE @]
    /\ UNCHANGED <<failed, sent, alone, report, over, posted, blind, called, failures>>

-----------------------------------------------------------------------------
(* The task that sends First.                                              *)

SendStarts ==
    /\ sent = "waiting" /\ ~ Locked
    /\ sent' = (IF row[First] = "prepared" THEN "preparing" ELSE "none")
    /\ blind' = (blind \/ failed[First])
    /\ UNCHANGED <<ledgerRows, rec, alone, watchVars, caller, posted, called, failures>>

SendFails ==
    /\ sent = "preparing" /\ sent' = "none"
    /\ failures < MaxFailures /\ failures' = failures + 1
    /\ failed' = [failed EXCEPT ![First] = TRUE]
    /\ UNCHANGED <<row, rec, alone, watchVars, caller, posted, blind, called>>

SendReserves ==
    /\ sent = "preparing"
    /\ IF row[First] = "prepared"
          THEN sent' = "posting" /\ row' = [row EXCEPT ![First] = "sending"]
          ELSE sent' = "none" /\ UNCHANGED row
    /\ UNCHANGED <<failed, rec, alone, watchVars, caller, posted, blind, called, failures>>

SendPosts ==
    /\ sent = "posting" /\ sent' = "posted" /\ posted' = [posted EXCEPT ![First] = @ + 1]
    /\ UNCHANGED <<ledgerRows, rec, alone, watchVars, caller, blind, called, failures>>

SendEnds ==
    /\ sent = "posted" /\ sent' \in {"none", "failed"}
    /\ row' = [row EXCEPT ![First] = IF sent' = "none" /\ @ = "sending" THEN "submitted" ELSE @]
    /\ UNCHANGED <<failed, rec, alone, watchVars, caller, posted, blind, called, failures>>

-----------------------------------------------------------------------------
ControllerNext ==
    \/ \E c \in Caller :
        \/ \E o \in Op : Recover(c, o) \/ Wait(c, o) \/ Cancel(c, o)
        \/ RecoverObserves(c) \/ RecoverAnswers(c) \/ WaitObserves(c) \/ WaitResumes(c)
        \/ Send(c) \/ Disable(c) \/ Disabled(c) \/ Enable(c)
    \/ Lapse \/ WatchLoops \/ WatchResumes
    \/ \E o \in Op : \/ CancelElsewhere(o) \/ Starts(o) \/ Looked(o) \/ LookFails(o) \/ PreparationFails(o)
                     \/ BeginSend(o) \/ Post(o) \/ Accept(o)
    \/ SendStarts \/ SendFails \/ SendReserves \/ SendPosts \/ SendEnds

ControllerSpec == ControllerInit /\ [][ControllerNext]_controllerVars

(***************************************************************************)
(* A submission that was cancelled has not been posted and never is,       *)
(* whatever sends, recovers or watches it at the time; no submission is    *)
(* posted twice, and a follow-up not before what it comes after is over.   *)
(***************************************************************************)
CancelledIsSilent ==
    /\ \A o \in Op : posted[o] <= (IF o \in called THEN 0 ELSE 1)
    /\ posted[Second] > 0 => row[First] = "completed"

(***************************************************************************)
(* The browser prepares one input at a time.                               *)
(***************************************************************************)
OneInput == Cardinality(Inputs) <= 1

(***************************************************************************)
(* A preparation that failed is not tried again before a caller asks:      *)
(* neither the watch nor an observation repeats it.                        *)
(***************************************************************************)
NoBlindRetry == ~ blind

(***************************************************************************)
(* Failed and running recoveries together stay within their limit.         *)
(***************************************************************************)
RecoveriesBounded == Cardinality(Recoveries) <= MaxRecoveries
=============================================================================
