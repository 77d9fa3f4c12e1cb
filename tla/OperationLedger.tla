--------------------------- MODULE OperationLedger ---------------------------
(***************************************************************************)
(* The durable operation ledger (state.py, class Ledger) together with the *)
(* dispatcher that drives it (engine.py, Engine.execute, and the delegated *)
(* file worker of authorized_http.py, which follows the same protocol).    *)
(*                                                                         *)
(* A caller picks an operation ID and a request (tool and arguments, here  *)
(* one member of Arg).  The dispatcher claims the ID in SQLite, runs the   *)
(* handler in a task that outlives the caller, and records one reply.  A   *)
(* repeated ID is answered from the ledger and never runs a handler again. *)
(*                                                                         *)
(* Exclusive says whether an opener of the directory holds a process lock  *)
(* from Ledger() to close(): TRUE for the agent (agent.lock in             *)
(* connection.py), FALSE for http-server/delegated-tasks/                  *)
(* delegated-operations, which the HTTP service, every SSH child and every *)
(* delegation command open side by side.                                   *)
(***************************************************************************)
EXTENDS Naturals, FiniteSets

CONSTANTS Op,        \* operation IDs callers use
          Arg,       \* distinct requests (tool and arguments)
          Body,      \* result bodies a completed handler can return
          Notice,    \* the body of every reply that is not "completed"
          Process,   \* processes that may open the ledger directory
          Exclusive, \* whether opening takes the directory's process lock
          None       \* SQL NULL, or no value

ASSUME ConstantAssumption ==
    /\ Exclusive \in BOOLEAN
    /\ None \notin Arg \cup Body \cup {Notice} \cup Process
    /\ Notice \notin Body
    /\ None \notin Op \X Arg

VARIABLES
    state,     \* operations.state, "absent" when there is no row
    digest,    \* operations.digest
    result,    \* operations.result_sha256
    restarted, \* the row's error text is "Agent restarted before ..."
    bodies,    \* the rows of operation_results
    up,        \* the process holds an open Ledger
    claiming,  \* a claim whose SELECT found no row and has not inserted yet
    task,      \* the execution task of an operation in a process
    claimant,  \* history: the process that inserted the row
    lost,      \* history: that process has closed or died since
    effects,   \* history: how often a handler's side effect was applied
    answers    \* history: final answers given to callers

rowVars  == <<state, digest, result, restarted, bodies>>
history  == <<claimant, lost, effects, answers>>
vars     == <<state, digest, result, restarted, bodies, up, claiming, task,
              claimant, lost, effects, answers>>

Terminal   == {"completed", "failed", "unknown"}
RowState   == {"absent", "running"} \cup Terminal
TaskPhase  == {"none", "created", "dispatched"}
\* An expired body is answered with the result_expired marker.
Expired    == "expired"
Answer     == [op : Op, arg : Arg, state : Terminal,
               dispatched : {"no", "maybe"},
               data : Body \cup {Notice, Expired}]

TypeOK ==
    /\ state \in [Op -> RowState]
    /\ digest \in [Op -> Arg \cup {None}]
    /\ result \in [Op -> Body \cup {Notice, None}]
    /\ restarted \in [Op -> BOOLEAN]
    /\ bodies \subseteq Body \cup {Notice}
    /\ up \in [Process -> BOOLEAN]
    /\ claiming \in [Process -> (Op \X Arg) \cup {None}]
    /\ task \in [Process -> [Op -> TaskPhase]]
    /\ claimant \in [Op -> Process \cup {None}]
    /\ lost \in [Op -> BOOLEAN]
    /\ effects \in [Op -> [Arg -> Nat]]
    /\ answers \subseteq Answer

Init ==
    /\ state = [o \in Op |-> "absent"]
    /\ digest = [o \in Op |-> None]
    /\ result = [o \in Op |-> None]
    /\ restarted = [o \in Op |-> FALSE]
    /\ bodies = {}
    /\ up = [p \in Process |-> FALSE]
    /\ claiming = [p \in Process |-> None]
    /\ task = [p \in Process |-> [o \in Op |-> "none"]]
    /\ claimant = [o \in Op |-> None]
    /\ lost = [o \in Op |-> FALSE]
    /\ effects = [o \in Op |-> [a \in Arg |-> 0]]
    /\ answers = {}

(***************************************************************************)
(* Ledger.get as a caller sees it: a row whose body was expired keeps its  *)
(* state and is answered with the marker.  (A saved refusal is repeated    *)
(* with its dispatched = False; that answer is already in answers.)        *)
(***************************************************************************)
SavedReply(o, a) ==
    [op |-> o, arg |-> a, state |-> state[o], dispatched |-> "maybe",
     data |-> IF result[o] \in bodies THEN result[o] ELSE Expired]

\* What the caller who is refused before anything ran is told.
Refusal(o, a) ==
    [op |-> o, arg |-> a, state |-> "failed", dispatched |-> "no",
     data |-> Notice]

\* A coroutine cannot be interleaved inside the synchronous claim.
Ready(p) == up[p] /\ claiming[p] = None

(***************************************************************************)
(* Ledger.__init__: one BEGIN IMMEDIATE transaction creates the tables and *)
(* turns every row still running into an unknown one.                      *)
(***************************************************************************)
\* Mutant: the UPDATE without its WHERE state = 'running'.
UnfinishedOrFailed == {o \in Op : state[o] \in {"running", "failed"}}

Unfinished == {o \in Op : state[o] = "running"}

\* Mutant: recovery drops unfinished rows so that they can be tried again.
RecoverForgetting ==
    /\ state' = [o \in Op |-> IF o \in Unfinished THEN "absent" ELSE state[o]]
    /\ UNCHANGED <<digest, result, restarted, bodies>>

Recover ==
    /\ state' = [o \in Op |-> IF o \in Unfinished THEN "unknown" ELSE state[o]]
    /\ result' = [o \in Op |-> IF o \in Unfinished THEN Notice ELSE result[o]]
    /\ restarted' = [o \in Op |-> o \in Unfinished \/ restarted[o]]
    /\ bodies' = IF Unfinished = {} THEN bodies ELSE bodies \cup {Notice}
    /\ digest' = digest

OpenLedger(p) ==
    /\ ~up[p]
    /\ Exclusive => \A q \in Process : ~up[q]
    /\ Recover
    /\ up' = [up EXCEPT ![p] = TRUE]
    /\ UNCHANGED <<claiming, task, history>>

(***************************************************************************)
(* Ledger.claim.  The SELECT and the INSERT are separate statements; only  *)
(* the primary key stands between two processes that both found no row.    *)
(***************************************************************************)
ClaimLookup(p, o, a) ==
    /\ Ready(p)
    /\ state[o] = "absent"
    /\ claiming' = [claiming EXCEPT ![p] = <<o, a>>]
    /\ UNCHANGED <<rowVars, up, task, history>>

InsertRow(p, o, a) ==
    /\ state' = [state EXCEPT ![o] = "running"]
    /\ digest' = [digest EXCEPT ![o] = a]
    /\ claimant' = [claimant EXCEPT ![o] = p]
    /\ UNCHANGED <<result, restarted, bodies, lost>>

ClaimNew(p, o, a) ==
    /\ claiming[p] = <<o, a>>
    /\ state[o] = "absent"
    /\ InsertRow(p, o, a)
    /\ claiming' = [claiming EXCEPT ![p] = None]
    /\ task' = [task EXCEPT ![p][o] = "created"]
    /\ UNCHANGED <<up, effects, answers>>

\* sqlite3.IntegrityError is not a ValueError: it leaves execute and the
\* caller gets an exception instead of a reply.
ClaimCollision(p, o, a) ==
    /\ claiming[p] = <<o, a>>
    /\ state[o] # "absent"
    /\ claiming' = [claiming EXCEPT ![p] = None]
    /\ UNCHANGED <<rowVars, up, task, history>>

\* INSERT: another opener of the directory may have inserted meanwhile.
ClaimInsert(p, o, a) ==
    IF state[o] = "absent" THEN ClaimNew(p, o, a) ELSE ClaimCollision(p, o, a)

(***************************************************************************)
(* A repeated ID: other arguments are refused; the same request observes   *)
(* the live task (no new answer) or gets the saved reply.  A running reply *)
(* tells the caller to poll and is not recorded as an answer.              *)
(***************************************************************************)
ClaimConflict(p, o, a) ==
    /\ Ready(p)
    /\ state[o] # "absent"
    /\ digest[o] # a
    /\ answers' = answers \cup {Refusal(o, a)}
    /\ UNCHANGED <<rowVars, up, claiming, task, claimant, lost, effects>>

ClaimReplay(p, o) ==
    /\ Ready(p)
    /\ state[o] \in Terminal
    /\ task[p][o] = "none"
    /\ answers' = answers \cup {SavedReply(o, digest[o])}
    /\ UNCHANGED <<rowVars, up, claiming, task, claimant, lost, effects>>

\* operations_get reads the row whether or not a task is in flight.
OperationsGet(p, o) ==
    /\ Ready(p)
    /\ state[o] \in Terminal
    /\ answers' = answers \cup {SavedReply(o, digest[o])}
    /\ UNCHANGED <<rowVars, up, claiming, task, claimant, lost, effects>>

(***************************************************************************)
(* The execution task.  DispatchHandler is the moment the handler's side   *)
(* effect takes place; everything it awaits lies before or after it.       *)
(***************************************************************************)
DispatchHandler(p, o) ==
    /\ Ready(p)
    /\ task[p][o] = "created"
    /\ task' = [task EXCEPT ![p][o] = "dispatched"]
    /\ effects' = [effects EXCEPT ![o][digest[o]] = @ + 1]
    /\ UNCHANGED <<rowVars, up, claiming, claimant, lost, answers>>

(***************************************************************************)
(* Ledger._store and Ledger.finish: the body is content addressed and the  *)
(* UPDATE is unconditional.                                                *)
(***************************************************************************)
Store(o, s, b) ==
    /\ state' = [state EXCEPT ![o] = s]
    /\ result' = [result EXCEPT ![o] = b]
    /\ restarted' = [restarted EXCEPT ![o] = FALSE]
    /\ bodies' = bodies \cup {b}
    /\ digest' = digest

\* finish(reply) and the return of the task, whose observers all get reply.
Finish(p, o, s, dispatched, b) ==
    /\ Store(o, s, b)
    /\ task' = [task EXCEPT ![p][o] = "none"]
    /\ answers' = answers \cup {[op |-> o, arg |-> digest[o], state |-> s,
                                 dispatched |-> dispatched, data |-> b]}
    /\ UNCHANGED <<up, claiming, claimant, lost, effects>>

\* Mutant: any failure of the handler is reported as a preflight failure.
FinishAsPreflight(p, o) ==
    /\ Ready(p)
    /\ task[p][o] # "none"
    /\ Finish(p, o, "failed", "no", Notice)

\* Where a task can be when its failure is answered with dispatched = False:
\* the agent's preflight errors precede the side effect, but the delegated
\* worker answers so for every OSError, ValueError and sqlite3.Error, one
\* raised by the clean-up after the write included.
Refusable == IF Exclusive THEN {"created"} ELSE {"created", "dispatched"}

FinishPreflight(p, o) ==
    /\ Ready(p)
    /\ task[p][o] \in Refusable
    /\ Finish(p, o, "failed", "no", Notice)

\* OutcomeUnknown exceptions and withheld failures do not say whether the
\* side effect happened.
FinishUncertain(p, o, s) ==
    /\ Ready(p)
    /\ task[p][o] \in {"created", "dispatched"}
    /\ s \in {"failed", "unknown"}
    /\ Finish(p, o, s, "maybe", Notice)

\* Mutant: completion is recorded before the handler ran.
FinishEarly(p, o, b) ==
    /\ Ready(p)
    /\ task[p][o] = "created"
    /\ Finish(p, o, "completed", "maybe", b)

FinishCompleted(p, o, b) ==
    /\ Ready(p)
    /\ task[p][o] = "dispatched"
    /\ Finish(p, o, "completed", "maybe", b)

\* finish itself raises (disk, a body json.dumps refuses) or the task is
\* cancelled: the row stays running with nothing behind it.
FinishLost(p, o) ==
    /\ Ready(p)
    /\ task[p][o] # "none"
    /\ task' = [task EXCEPT ![p][o] = "none"]
    /\ UNCHANGED <<rowVars, up, claiming, history>>

(***************************************************************************)
(* Ledger.expire_results: bodies of rows older than the cut-off go, unless *)
(* a kept or unfinished row refers to the same body.  keep is the set of   *)
(* rows with started >= before.                                            *)
(***************************************************************************)
Needed(keep) ==
    {result[o] : o \in {x \in Op : x \in keep \/ state[x] = "running"}}

ExpireResults(p, keep) ==
    /\ Ready(p)
    /\ bodies' = bodies \cap Needed(keep)
    /\ UNCHANGED <<state, digest, result, restarted, up, claiming, task,
                   history>>

(***************************************************************************)
(* The end of a process.  Engine.close waits for the tasks in flight; a    *)
(* crash waits for nothing and keeps only what SQLite has committed.       *)
(***************************************************************************)
Leave(p) ==
    /\ up' = [up EXCEPT ![p] = FALSE]
    /\ lost' = [o \in Op |-> lost[o] \/ claimant[o] = p]
    /\ UNCHANGED <<rowVars, claimant, effects, answers>>

Close(p) ==
    /\ Ready(p)
    /\ \A o \in Op : task[p][o] = "none"
    /\ Leave(p)
    /\ UNCHANGED <<claiming, task>>

Crash(p) ==
    /\ up[p]
    /\ Leave(p)
    /\ claiming' = [claiming EXCEPT ![p] = None]
    /\ task' = [task EXCEPT ![p] = [o \in Op |-> "none"]]

Next ==
    \/ \E p \in Process : OpenLedger(p) \/ Close(p) \/ Crash(p)
    \/ \E p \in Process, o \in Op, a \in Arg :
          \/ ClaimLookup(p, o, a)
          \/ ClaimInsert(p, o, a)
          \/ ClaimConflict(p, o, a)
    \/ \E p \in Process, o \in Op :
          \/ ClaimReplay(p, o)
          \/ OperationsGet(p, o)
          \/ DispatchHandler(p, o)
          \/ FinishPreflight(p, o)
          \/ FinishLost(p, o)
          \/ \E s \in {"failed", "unknown"} : FinishUncertain(p, o, s)
          \/ \E b \in Body : FinishCompleted(p, o, b)
    \/ \E p \in Process, keep \in SUBSET Op : ExpireResults(p, keep)

Spec == Init /\ [][Next]_vars

-----------------------------------------------------------------------------
(* Properties *)

(***************************************************************************)
(* The side effect of an operation ID happens at most once, for at most    *)
(* one request, over every order of duplicate calls, crashes, restarts and *)
(* expiries (engine.py execute: "claims ID before dispatch").              *)
(***************************************************************************)
AtMostOnce ==
    \A o \in Op : \A a, b \in Arg :
        /\ effects[o][a] <= 1
        /\ effects[o][a] > 0 /\ effects[o][b] > 0 => a = b

(***************************************************************************)
(* A caller told dispatched = False for a request may safely choose a new  *)
(* ID for it: that request never takes effect under the refused ID, then   *)
(* or later.  Of the agent's ledger: the delegated worker does not promise *)
(* it, see Refusable.                                                      *)
(***************************************************************************)
RefusalHonest ==
    \A r \in answers : r.dispatched = "no" => effects[r.op][r.arg] = 0

(***************************************************************************)
(* Two final answers about one operation ID and one request never          *)
(* contradict each other: same state, and same data unless the body was    *)
(* expired meanwhile.  Relies on the process lock: see RestartHonest.      *)
(***************************************************************************)
AnswersAgree ==
    \A r, s \in answers :
        /\ r.op = s.op
        /\ r.arg = s.arg
        => /\ r.state = s.state
           /\ r.data = s.data \/ Expired \in {r.data, s.data}

(***************************************************************************)
(* A row that says "Agent restarted before the outcome was recorded"       *)
(* belongs to a process that has really stopped since it claimed the row   *)
(* (state.py _initialize).                                                 *)
(***************************************************************************)
RestartHonest == \A o \in Op : restarted[o] => lost[o]

(***************************************************************************)
(* What the ledger promises its callers, and the detailed steps as steps   *)
(* of it: an ID is bound to one request, its effect is applied at most     *)
(* once while the verdict is open, and the verdict is given once.          *)
(***************************************************************************)
Applied == {o \in Op : \E a \in Arg : effects[o][a] > 0}
Verdict == [o \in Op |-> IF state[o] \in Terminal THEN state[o] ELSE "open"]

Promise == INSTANCE OperationPromise
              WITH bound <- digest, applied <- Applied, verdict <- Verdict

KeepsPromise == Promise!Spec
=============================================================================
