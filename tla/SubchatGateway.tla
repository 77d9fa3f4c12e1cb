---------------------------- MODULE SubchatGateway ----------------------------
(***************************************************************************)
(* The service-owned controller behind the HTTPS endpoint                  *)
(* (subchat_gateway.py: LazySubchatGateway, which opens the Chat browser   *)
(* when it is needed and closes it when it is idle, and SubchatGateway,    *)
(* which keeps the task of a request apart from the HTTP call that carries *)
(* it) over the session that sends (subchat_mcp.py, subchat_send).         *)
(*                                                                         *)
(* A send has a request ID, an intent key and an input.  The first request *)
(* of an intent names the submission; other request IDs of the intent are  *)
(* aliases of it.  Calls disconnect, replies are given before the work     *)
(* ends, and what the gateway keeps in memory is evicted, closed and lost  *)
(* with the process: only the ledger stays.                                *)
(***************************************************************************)
EXTENDS Naturals, FiniteSets

CONSTANTS Id,          \* request IDs; a submission has the ID of its first request
          Sends,        \* the sends callers try: [id, intent, input]
          Reads,        \* the observations they try: [id, op]
          Call,        \* HTTP calls at one time
          Tasks,       \* request tasks that somebody still knows
          MaxPending,  \* 128 in the code: requests whose task is kept
          MaxStops,    \* bound: ends of the process
          None

Intent == {r.intent : r \in Sends}

VARIABLES
    row,      \* subchat_submissions: state, input, and a saved preparation failure
    intents,  \* subchat_send_intents: the submission of an intent
    aliases,  \* subchat_send_requests: the send of a request ID
    gateway,  \* "none", "opening", "up" or "closing"; the lock is held between
    barred,   \* _retry_after is not over
    closed,   \* the service is closing
    idle,     \* an idle task waits to close the gateway
    call,     \* the calls: where each is, its request, and the task it waits for
    pending,  \* the task kept for a request ID
    task,     \* request tasks: request, stage and reply
    worker,   \* the session's sends: the task that dispatches a submission
    posted,   \* history: how often a submission's input was posted
    misled,   \* history: a posted send was answered dispatched = False
    cut,      \* history: work that an idle close ended
    stops

ledgerVars == <<row, intents, aliases>>
serviceVars == <<gateway, barred, closed, idle>>
gatewayVars == <<row, intents, aliases, gateway, barred, closed, idle, call, pending,
                 task, worker, posted, misled, cut, stops>>

Away == [stage |-> "away", req |-> None, task |-> None, sent |-> FALSE]
NoTask == [req |-> None, stage |-> "free", reply |-> "none"]

GatewayInit ==
    /\ row = [o \in Id |-> None]
    /\ intents = [k \in Intent |-> None] /\ aliases = [i \in Id |-> None]
    /\ gateway = "none" /\ barred = FALSE /\ closed = FALSE /\ idle = FALSE
    /\ call = [c \in Call |-> Away]
    /\ pending = [i \in Id |-> None] /\ task = [t \in Tasks |-> NoTask]
    /\ worker = [o \in Id |-> "none"]
    /\ posted = [o \in Id |-> 0]
    /\ misled = FALSE /\ cut = {} /\ stops = 0

-----------------------------------------------------------------------------
(* What the parts know of each other.                                      *)

Final == {"completed", "cancelled", "preflight_failed"}
Live(o) == worker[o] \in {"waiting", "preparing", "posting", "posted"}
BrowserLocked == \E o \in Id : worker[o] \in {"preparing", "posting", "posted"}
Running(t) == task[t].stage \in {"new", "acking", "observing"}
Kept == {i \in Id : pending[i] # None}
Inside == {c \in Call : call[c].stage = "waiting"}
LockFree == gateway \in {"none", "up"}

HasLiveWork == \/ \E t \in Tasks : Running(t)
               \/ \E o \in Id : Live(o)

\* The submission of a send, if the ledger has it: under its request ID, or
\* of its intent.
Saved(r) == IF aliases[r.id] # None THEN intents[aliases[r.id].intent] ELSE None
WasSent(r) == r \in Sends /\ aliases[r.id] = r /\ posted[Saved(r)] > 0

\* A reply leaves the caller; denying says it promises dispatched = False.
Answer(c, denying) ==
    /\ call' = [call EXCEPT ![c] = Away]
    /\ misled' = (misled \/ (denying /\ call[c].sent))

\* Leaving the gateway starts the idle task when nobody else is inside.
AnswerInside(c, denying) ==
    /\ Answer(c, denying)
    /\ idle' = (~ closed /\ Inside \subseteq {c})

-----------------------------------------------------------------------------
(* SubchatGateway.execute.                                                 *)

\* A request ID stays bound to its send when nothing in memory knows it.
Bound(r) == aliases[r.id] # None /\ aliases[r.id] # r
BoundHere(r) == pending[r.id] # None /\ task[pending[r.id]].req # r

\* A retry may reach the session again when the last reply is no verdict.
Reopened(r) ==
    LET t == pending[r.id]
    IN  /\ t # None /\ task[t].stage = "done"
        /\ \/ task[t].reply = "conflict"
           \/ /\ task[t].req = r /\ r \in Sends
              /\ \/ task[t].reply = "denied"
                 \/ task[t].reply = "running" /\ ~ Live(r.id)

\* _durable: a kept reply that the ledger can give as well.
Durable(i) ==
    LET t == pending[i]
        o == IF task[t].req \in Sends THEN Saved(task[t].req) ELSE None
    IN  /\ task[t].stage = "done"
        /\ \/ task[t].req \in Reads
           \/ o = None /\ task[t].reply \in {"denied", "conflict"}
           \/ o # None /\ aliases[i] = task[t].req /\ row[o].state \in Final /\ ~ Live(o)

Free == {t \in Tasks : /\ \A i \in Id : pending[i] # t
                       /\ \A c \in Call : call[c].task # t
                       /\ ~ Running(t)}
Fresh == CHOOSE t \in Free : TRUE

\* A call that waits for a task keeps the gateway from its idle close.
Waits(c, t) ==
    /\ call' = [call EXCEPT ![c].stage = "waiting", ![c].task = t]
    /\ idle' = FALSE /\ UNCHANGED misled

\* Room for a new task: an entry is dropped only if it is durable.
Dropped(r) == {i \in Kept \ {r.id} : Durable(i)}
Start(c, r) ==
    /\ Free # {}
    /\ LET kept == {i \in Kept : ~ (i = r.id /\ Reopened(r))}
       IN  \/ /\ Cardinality(kept) < MaxPending
              /\ pending' = [pending EXCEPT ![r.id] = Fresh]
           \/ /\ Cardinality(kept) >= MaxPending
              /\ \E i \in Dropped(r) :
                    pending' = [pending EXCEPT ![i] = None, ![r.id] = Fresh]
    /\ task' = [task EXCEPT ![Fresh] = [req |-> r, stage |-> "new", reply |-> "none"]]
    /\ Waits(c, Fresh)

\* Full of uncertain requests: a send is refused.  That refusal promises
\* dispatched = False without a look at the ledger, see the README.
Refuse(c, r) ==
    /\ r \in Sends /\ Cardinality(Kept \ {r.id}) >= MaxPending /\ Dropped(r) = {}
    /\ AnswerInside(c, FALSE)
    /\ UNCHANGED <<pending, task>>

\* Full as well, but an observation needs no entry; it is not kept.
ReadThrough(c, r) ==
    /\ r \in Reads /\ Cardinality(Kept \ {r.id}) >= MaxPending /\ Dropped(r) = {} /\ Free # {}
    /\ task' = [task EXCEPT ![Fresh] = [req |-> r, stage |-> "new", reply |-> "none"]]
    /\ Waits(c, Fresh) /\ UNCHANGED pending

Execute(c, r) ==
    \/ /\ pending[r.id] = None \/ Reopened(r)
       /\ Start(c, r) \/ Refuse(c, r) \/ ReadThrough(c, r)
    \/ /\ pending[r.id] # None /\ ~ Reopened(r) /\ BoundHere(r)
       /\ AnswerInside(c, TRUE) /\ UNCHANGED <<pending, task>>
    \/ /\ pending[r.id] # None /\ ~ Reopened(r) /\ ~ BoundHere(r)
       /\ Waits(c, pending[r.id]) /\ UNCHANGED <<pending, task>>

\* What an observation of its own shows to be final makes room.
Collected(o, i) ==
    \/ i = o
    \/ /\ pending[i] # None /\ task[pending[i]].req \in Sends
       /\ Saved(task[pending[i]].req) = o /\ Durable(i)

\* The reply of the task, or after 20 seconds "running".
Receive(c) ==
    LET t == call[c].task
        o == task[t].req.op
    IN  /\ call[c].stage = "waiting"
        /\ pending' = IF /\ \A i \in Id : pending[i] # t
                         /\ task[t].stage = "done" /\ task[t].req \in Reads
                         /\ row[o] # None /\ row[o].state \in Final
                      THEN [i \in Id |-> IF Collected(o, i) THEN None ELSE pending[i]]
                      ELSE pending
        /\ AnswerInside(c, task[t].stage = "done" /\ task[t].reply \in {"denied", "conflict"})
        /\ UNCHANGED <<ledgerVars, gateway, barred, closed, task, worker, posted, cut, stops>>

-----------------------------------------------------------------------------
(* LazySubchatGateway.                                                     *)

Arrive(c, r) ==
    /\ call[c].stage = "away" /\ ~ closed
    /\ call' = [call EXCEPT ![c] = [stage |-> "arrived", req |-> r, task |-> None,
                                    sent |-> WasSent(r)]]
    /\ UNCHANGED <<ledgerVars, serviceVars, pending, task, worker, posted, misled, cut, stops>>

\* _check_saved_send_request and _acquire: the check reads the ledger a moment
\* before the lock is taken, and what holds the lock then binds no request.
\* Whoever gets the gateway executes its request before anybody else runs.
Enter(c) ==
    LET r == call[c].req
    IN  /\ call[c].stage = "arrived" /\ LockFree
        /\ IF Bound(r)
              THEN Answer(c, TRUE) /\ UNCHANGED <<gateway, idle, pending, task>>
              ELSE \/ /\ closed \/ (gateway = "none" /\ barred)
                      /\ call' = [call EXCEPT ![c].stage = "unavailable"]
                      /\ idle' = (idle /\ closed)
                      /\ UNCHANGED <<gateway, pending, task, misled>>
                   \/ /\ ~ closed /\ gateway = "up"
                      /\ Execute(c, r)
                      /\ UNCHANGED gateway
                   \/ /\ ~ closed /\ gateway = "none" /\ ~ barred
                      /\ call' = [call EXCEPT ![c].stage = "opening"]
                      /\ gateway' = "opening" /\ idle' = FALSE
                      /\ UNCHANGED <<pending, task, misled>>
        /\ UNCHANGED <<ledgerVars, barred, closed, worker, posted, cut, stops>>

Open(c) ==
    /\ call[c].stage = "opening"
    /\ \/ /\ gateway' = "up" /\ UNCHANGED barred
          /\ Execute(c, call[c].req)
       \/ /\ gateway' = "none"
          /\ \/ barred' = TRUE /\ call' = [call EXCEPT ![c].stage = "unavailable"]
             \/ UNCHANGED barred /\ call' = [call EXCEPT ![c] = Away]
          /\ UNCHANGED <<idle, misled, pending, task>>
    /\ UNCHANGED <<ledgerVars, closed, worker, posted, cut, stops>>

RetryAgain ==
    /\ barred /\ barred' = FALSE
    /\ UNCHANGED <<ledgerVars, gateway, closed, idle, call, pending, task, worker, posted,
                   misled, cut, stops>>

\* Without a gateway a send with an intent is never denied: its row, or the
\* failure to find one, is the answer.
Unavailable(c) ==
    /\ call[c].stage = "unavailable"
    /\ Answer(c, FALSE)
    /\ UNCHANGED <<ledgerVars, serviceVars, pending, task, worker, posted, cut, stops>>

\* _cancel_unsent: through its own connection, without the gateway.
CancelUnsent(o) ==
    /\ row[o] # None /\ row[o].state = "prepared" /\ ~ closed
    /\ row' = [row EXCEPT ![o].state = "cancelled"]
    /\ UNCHANGED <<intents, aliases, serviceVars, call, pending, task, worker, posted,
                   misled, cut, stops>>

\* An HTTP call ends early; what it started goes on.
Disconnect(c) ==
    /\ call[c].stage = "waiting"
    /\ AnswerInside(c, FALSE)
    /\ UNCHANGED <<ledgerVars, gateway, barred, closed, pending, task, worker, posted, cut, stops>>

Unowned == [o \in Id |-> "none"]
Emptied == /\ pending' = [i \in Id |-> None] /\ task' = [t \in Tasks |-> NoTask]
           /\ worker' = Unowned

CloseWhenIdle ==
    /\ idle /\ LockFree
    /\ IF closed \/ Inside # {}
          THEN UNCHANGED <<gateway, pending, task, worker, cut>>
          ELSE /\ gateway = "up" /\ ~ HasLiveWork
               /\ gateway' = "closing"
               /\ cut' = cut \cup {o \in Id : Live(o)}
               /\ Emptied
    /\ idle' = FALSE
    /\ UNCHANGED <<ledgerVars, barred, closed, call, posted, misled, stops>>

Close ==
    /\ ~ closed /\ LockFree
    /\ closed' = TRUE /\ idle' = FALSE
    /\ UNCHANGED <<ledgerVars, gateway, barred, call, pending, task, worker, posted, misled,
                   cut, stops>>

\* close() goes on when the last call has left.
CloseResources ==
    /\ closed /\ gateway = "up" /\ Inside = {}
    /\ gateway' = "closing"
    /\ Emptied
    /\ UNCHANGED <<ledgerVars, barred, closed, idle, call, posted, misled, cut, stops>>

Closed ==
    /\ gateway = "closing" /\ gateway' = "none"
    /\ UNCHANGED <<ledgerVars, barred, closed, idle, call, pending, task, worker, posted,
                   misled, cut, stops>>

\* The process ends, after close() or without it, and another one starts.
Restart ==
    /\ stops < MaxStops /\ stops' = stops + 1
    /\ gateway' = "none" /\ barred' = FALSE /\ closed' = FALSE /\ idle' = FALSE
    /\ call' = [c \in Call |-> Away]
    /\ Emptied
    /\ UNCHANGED <<ledgerVars, posted, misled, cut>>

-----------------------------------------------------------------------------
(* The session's handlers.                                                 *)

Reply(t, reply) == task' = [task EXCEPT ![t].stage = "done", ![t].reply = reply]

\* SubchatSubmissions.prepare: the submission of the intent, or a conflict.
Target(r) == IF intents[r.intent] # None THEN intents[r.intent] ELSE r.id
Conflicts(r) == \/ Bound(r)
                \/ intents[r.intent] = None /\ row[r.id] # None
                \/ intents[r.intent] # None /\ row[Target(r)].input # r.input

PrepareConflict(t) ==
    /\ task[t].stage = "new" /\ task[t].req \in Sends /\ Conflicts(task[t].req)
    /\ Reply(t, "conflict")
    /\ UNCHANGED <<ledgerVars, serviceVars, call, pending, worker, posted, misled, cut, stops>>

Prepare(t) ==
    LET r == task[t].req
        o == Target(r)
    IN  /\ task[t].stage = "new" /\ r \in Sends /\ ~ Conflicts(r)
        /\ intents' = [intents EXCEPT ![r.intent] = o]
        /\ aliases' = [aliases EXCEPT ![r.id] = r]
        /\ IF row[o] # None /\ row[o].state # "prepared"
              THEN Reply(t, "result") /\ UNCHANGED <<row, worker>>
              ELSE /\ task' = [task EXCEPT ![t].stage = "acking"]
                   /\ IF Live(o) THEN UNCHANGED <<row, worker>>
                      ELSE /\ row' = [row EXCEPT ![o] = [state |-> "prepared",
                                                         input |-> r.input, failed |-> FALSE]]
                           /\ worker' = [worker EXCEPT ![o] = "waiting"]
        /\ UNCHANGED <<serviceVars, call, pending, posted, misled, cut, stops>>

\* The send is over, or SEND_ACK_TIMEOUT is.
Acknowledge(t) ==
    LET o == Target(task[t].req)
    IN  /\ task[t].stage = "acking"
        /\ \/ Live(o) /\ Reply(t, "running")
           \/ ~ Live(o) /\ row[o].failed /\ row[o].state = "prepared" /\ Reply(t, "denied")
           \/ ~ Live(o) /\ worker[o] = "failed" /\ Reply(t, "unknown")
           \/ ~ Live(o) /\ worker[o] = "none" /\ row[o].state # "prepared" /\ Reply(t, "result")
        /\ UNCHANGED <<ledgerVars, serviceVars, call, pending, worker, posted, misled, cut, stops>>

\* recover: what the ledger says, or a look at the Chat under the browser lock.
Observe(t) ==
    LET o == task[t].req.op
    IN  /\ task[t].stage = "new" /\ task[t].req \in Reads
        /\ IF row[o] # None /\ row[o].state \in {"sending", "submitted"} /\ ~ Live(o)
              THEN task' = [task EXCEPT ![t].stage = "observing"]
              ELSE Reply(t, "result")
        /\ UNCHANGED <<ledgerVars, serviceVars, call, pending, worker, posted, misled, cut, stops>>

Recover(t) ==
    LET o == task[t].req.op
    IN  /\ task[t].stage = "observing" /\ ~ BrowserLocked
        /\ Reply(t, "result")
        /\ \/ UNCHANGED row
           \/ row[o].state = "sending" /\ posted[o] > 0
              /\ row' = [row EXCEPT ![o].state = "submitted"]
           \/ posted[o] > 0 /\ row' = [row EXCEPT ![o].state = "completed"]
        /\ UNCHANGED <<intents, aliases, serviceVars, call, pending, worker, posted, misled,
                       cut, stops>>

-----------------------------------------------------------------------------
(* The task that dispatches a submission, under the browser lock.          *)

Worker(o, from, to) == worker[o] = from /\ worker' = [worker EXCEPT ![o] = to]

BeginPreparation(o) ==
    /\ worker[o] = "waiting" /\ ~ BrowserLocked
    /\ IF row[o].state = "prepared" THEN Worker(o, "waiting", "preparing")
                                    ELSE Worker(o, "waiting", "none")
    /\ UNCHANGED <<ledgerVars, serviceVars, call, pending, task, posted, misled, cut, stops>>

PreparationFails(o) ==
    /\ worker[o] = "preparing" /\ Worker(o, "preparing", "none")
    /\ row' = [row EXCEPT ![o].failed = (row[o].state = "prepared")]
    /\ UNCHANGED <<intents, aliases, serviceVars, call, pending, task, posted, misled, cut, stops>>

\* A lost login or a send of another controller: an error of no saved reason.
PreparationRefused(o) ==
    /\ Worker(o, "preparing", "failed")
    /\ UNCHANGED <<ledgerVars, serviceVars, call, pending, task, posted, misled, cut, stops>>

\* begin_send reserves a prepared row only.
Reservable(o) == row[o].state = "prepared"
BeginSend(o) ==
    /\ worker[o] = "preparing"
    /\ IF Reservable(o)
          THEN /\ Worker(o, "preparing", "posting")
               /\ row' = [row EXCEPT ![o].state = "sending"]
          ELSE Worker(o, "preparing", "none") /\ UNCHANGED row
    /\ UNCHANGED <<intents, aliases, serviceVars, call, pending, task, posted, misled, cut, stops>>

Post(o) ==
    /\ Worker(o, "posting", "posted")
    /\ posted' = [posted EXCEPT ![o] = @ + 1]
    /\ UNCHANGED <<ledgerVars, serviceVars, call, pending, task, misled, cut, stops>>

\* fail_http_before_dispatch: nothing was posted and nothing will be.
PreflightFails(o) ==
    /\ Worker(o, "posting", "failed")
    /\ row' = [row EXCEPT ![o].state = "preflight_failed"]
    /\ UNCHANGED <<intents, aliases, serviceVars, call, pending, task, posted, misled, cut, stops>>

Posted(o) ==
    /\ \/ Worker(o, "posted", "none") /\ row' = [row EXCEPT ![o].state = "submitted"]
       \/ Worker(o, "posted", "none") /\ UNCHANGED row
       \/ Worker(o, "posted", "failed") /\ UNCHANGED row
    /\ UNCHANGED <<intents, aliases, serviceVars, call, pending, task, posted, misled, cut, stops>>

-----------------------------------------------------------------------------
GatewayNext ==
    \/ \E c \in Call : \/ \E r \in Sends \cup Reads : Arrive(c, r)
                       \/ Enter(c) \/ Open(c)
                       \/ Unavailable(c) \/ Receive(c) \/ Disconnect(c)
    \/ \E t \in Tasks : \/ PrepareConflict(t) \/ Prepare(t) \/ Acknowledge(t)
                        \/ Observe(t) \/ Recover(t)
    \/ \E o \in Id : \/ CancelUnsent(o) \/ BeginPreparation(o) \/ PreparationFails(o)
                     \/ PreparationRefused(o) \/ BeginSend(o) \/ Post(o)
                     \/ PreflightFails(o) \/ Posted(o)
    \/ RetryAgain \/ CloseWhenIdle \/ Close \/ CloseResources \/ Closed \/ Restart

GatewaySpec == GatewayInit /\ [][GatewayNext]_gatewayVars

(***************************************************************************)
(* However often an intent is sent, under however many request IDs, over   *)
(* evictions, idle closes and restarts, one input is posted for it, once.  *)
(***************************************************************************)
IntentOnce ==
    \A o \in Id : posted[o] <= (IF \E k \in Intent : intents[k] = o THEN 1 ELSE 0)

(***************************************************************************)
(* A send is not answered dispatched = False when its input had been       *)
(* posted before the call arrived (refusals of a full gateway apart).      *)
(***************************************************************************)
NotMisled == ~ misled

(***************************************************************************)
(* The idle close of the browser never ends a send that is under way,      *)
(* although the calls that started it have been answered or are gone.      *)
(***************************************************************************)
WorkOutlivesCalls == cut = {}

(***************************************************************************)
(* The gateway keeps no more requests than its limit.                      *)
(***************************************************************************)
PendingBounded == Cardinality(Kept) <= MaxPending

(***************************************************************************)
(* When the service has closed, nothing of it sends any more.              *)
(***************************************************************************)
SilentWhenClosed == (closed /\ gateway = "none") => ~ HasLiveWork
=============================================================================
