-------------------------- MODULE SubchatAutoQueue ---------------------------
(***************************************************************************)
(* Unattended delivery of queued follow-ups: the rows of subchat_auto_queue *)
(* (subchat_state.py arm_auto_queue, disable_auto_queue,                   *)
(* finish_auto_queue) and the workers of the controllers that carry them   *)
(* out (subchat_mcp.py run_auto_queue, start_auto_queue).                  *)
(*                                                                         *)
(* An arming has a lease and an epoch.  A controller runs at most one      *)
(* worker per queued submission; several controllers of one owner share    *)
(* the rows.  The submission itself is reduced to its state (SubchatLedger *)
(* has the rest), and Limit is 8 in the code.                              *)
(***************************************************************************)
EXTENDS Naturals, FiniteSets

CONSTANTS Op,         \* queued submissions of one owner
          Controller, \* processes that run workers
          Limit,      \* armed rows per owner and live workers per controller
          MaxEpoch    \* bound on armings of one submission

ASSUME LimitAssumption == Limit \in Nat \ {0} /\ MaxEpoch \in Nat

VARIABLES
    child,   \* state of the queued submission
    ready,   \* submissions whose predecessor's answer is saved
    arming,  \* subchat_auto_queue.state, "none" when there is no row
    epoch,   \* subchat_auto_queue.epoch
    lapsed,  \* history: the armings <<submission, epoch>> whose lease is over
    armer,   \* history: the controllers that armed or resumed this arming
    events,  \* subchat_auto_queue_events, with the epoch each one ended
    closed,  \* history: how many events each arming has
    up,      \* the controller is running
    worker,  \* auto_queue_tasks of a controller
    restart  \* auto_queue_restarts of a controller

rows == <<arming, epoch, armer, events, closed>>
vars == <<child, ready, arming, epoch, lapsed, armer, events, closed, up,
          worker, restart>>

Final   == {"completed", "cancelled", "interrupted", "preflight_failed"}
Child   == {"queued", "sending", "submitted"} \cup Final
Epochs  == 1..MaxEpoch
Reason  == Final \cup {"lease_expired", "failed"}
Phase   == {"none", "head", "decide", "observing", "preparing", "disarmed",
            "emitting", "ended"}
Task    == [phase : Phase, seen : 0..MaxEpoch, event : Reason \cup {"none"}]
NoTask  == [phase |-> "none", seen |-> 0, event |-> "none"]
NewTask == [NoTask EXCEPT !.phase = "head"]

TypeOK ==
    /\ child \in [Op -> Child]
    /\ ready \subseteq Op
    /\ arming \in [Op -> {"none", "armed", "disabled", "stopped"}]
    /\ epoch \in [Op -> 0..MaxEpoch]
    /\ lapsed \subseteq Op \X Epochs
    /\ armer \in [Op -> SUBSET Controller]
    /\ events \subseteq [op : Op, epoch : Epochs, event : Reason \cup {"disabled"}]
    /\ closed \in [Op -> [Epochs -> Nat]]
    /\ up \subseteq Controller
    /\ worker \in [Controller -> [Op -> Task]]
    /\ restart \in [Controller -> SUBSET Op]

Init ==
    /\ child = [o \in Op |-> "queued"]
    /\ ready = {}
    /\ arming = [o \in Op |-> "none"]
    /\ epoch = [o \in Op |-> 0]
    /\ lapsed = {}
    /\ armer = [o \in Op |-> {}]
    /\ events = {}
    /\ closed = [o \in Op |-> [e \in Epochs |-> 0]]
    /\ up = {}
    /\ worker = [c \in Controller |-> [o \in Op |-> NoTask]]
    /\ restart = [c \in Controller |-> {}]

Armed    == {o \in Op : arming[o] = "armed"}
Alive(c) == {o \in Op : worker[c][o].phase \notin {"none", "ended"}}

(***************************************************************************)
(* start_auto_queue: a live worker is told to have a successor; otherwise  *)
(* a new task replaces a finished one, unless too many are alive.          *)
(***************************************************************************)
\* Mutant: a live worker is taken to be enough.
StartIfIdle(c, o) ==
    \/ o \in Alive(c) /\ UNCHANGED <<restart, worker>>
    \/ /\ o \notin Alive(c)
       /\ Cardinality(Alive(c)) < Limit
       /\ restart' = [restart EXCEPT ![c] = @ \ {o}]
       /\ worker' = [worker EXCEPT ![c][o] = NewTask]

Start(c, o) ==
    \/ /\ o \in Alive(c)
       /\ restart' = [restart EXCEPT ![c] = @ \cup {o}]
       /\ worker' = worker
    \/ /\ o \notin Alive(c)
       /\ Cardinality(Alive(c)) < Limit
       /\ restart' = [restart EXCEPT ![c] = @ \ {o}]
       /\ worker' = [worker EXCEPT ![c][o] = NewTask]

\* The subchat_queue_auto call that arms or re-arms: the checks of the
\* handler, the transaction, and the worker, with no await between them.
Arm(c, o) ==
    /\ c \in up
    /\ child[o] = "queued"
    /\ Cardinality(Armed \ {o}) < Limit
    /\ epoch[o] < MaxEpoch
    /\ arming' = [arming EXCEPT ![o] = "armed"]
    /\ epoch' = [epoch EXCEPT ![o] = @ + 1]
    /\ armer' = [armer EXCEPT ![o] = {c}]
    /\ Start(c, o)
    /\ UNCHANGED <<child, ready, lapsed, events, closed, up>>

\* The same call repeated: its receipt is found and only the worker starts.
RepeatArm(c, o) ==
    /\ c \in up
    /\ o \in Armed
    /\ Start(c, o)
    /\ armer' = [armer EXCEPT ![o] = @ \cup {c}]
    /\ UNCHANGED <<child, ready, arming, epoch, lapsed, events, closed, up>>

\* An armed row ends, in one transaction with its event.
EndArming(o, s, event) ==
    /\ arming' = [arming EXCEPT ![o] = s]
    /\ events' = events \cup {[op |-> o, epoch |-> epoch[o], event |-> event]}
    /\ closed' = [closed EXCEPT ![o][epoch[o]] = @ + 1]
    /\ UNCHANGED <<epoch, armer>>

\* disable_auto_queue, from any controller or the gateway.
Disable(o) ==
    /\ o \in Armed
    /\ EndArming(o, "disabled", "disabled")
    /\ UNCHANGED <<child, ready, lapsed, up, worker, restart>>

-----------------------------------------------------------------------------
(* Controllers. *)

\* session(): a new controller resumes every armed row, up to eight.
Boot(c) ==
    /\ c \notin up
    /\ up' = up \cup {c}
    /\ worker' = [worker EXCEPT ![c] =
                      [o \in Op |-> IF o \in Armed THEN NewTask ELSE NoTask]]
    /\ armer' = [o \in Op |-> IF o \in Armed THEN armer[o] \cup {c} ELSE armer[o]]
    /\ UNCHANGED <<child, ready, arming, epoch, lapsed, events, closed, restart>>

\* SubchatSession.close, or the death of the process.
Shut(c) ==
    /\ c \in up
    /\ up' = up \ {c}
    /\ worker' = [worker EXCEPT ![c] = [o \in Op |-> NoTask]]
    /\ restart' = [restart EXCEPT ![c] = {}]
    /\ armer' = [o \in Op |-> armer[o] \ {c}]
    /\ UNCHANGED <<child, ready, arming, epoch, lapsed, events, closed>>

-----------------------------------------------------------------------------
(* run_auto_queue, between its awaits and its SQLite statements. *)

At(c, o, p)   == worker[c][o].phase = p
\* The next round, and the end, do not look at what the worker has read.
Goto(c, o, p) ==
    worker' = [worker EXCEPT ![c][o] =
                  IF p \in {"head", "disarmed", "ended"} THEN [NoTask EXCEPT !.phase = p]
                  ELSE [@ EXCEPT !.phase = p]]
Emit(c, o, e) == worker' = [worker EXCEPT ![c][o].phase = "emitting",
                                          ![c][o].event = e]

ReadStatus(c, o) ==
    /\ At(c, o, "head")
    /\ IF o \in Armed
       THEN worker' = [worker EXCEPT ![c][o].phase = "decide",
                                     ![c][o].seen = epoch[o]]
       ELSE Goto(c, o, "ended")
    /\ UNCHANGED <<child, ready, rows, lapsed, up, restart>>

\* Mutant: the lease is not read.
DecideWithoutLease(c, o) ==
    /\ At(c, o, "decide")
    /\ IF child[o] \in Final THEN Emit(c, o, child[o])
       ELSE Emit(c, o, "failed") \/ Goto(c, o, "observing")
    /\ UNCHANGED <<child, ready, rows, lapsed, up, restart>>

Decide(c, o) ==
    /\ At(c, o, "decide")
    /\ \/ Emit(c, o, "failed") \* the grant bound to the arming is inactive
       \/ /\ <<o, worker[c][o].seen>> \in lapsed
          /\ Emit(c, o, "lease_expired")
       \/ /\ <<o, worker[c][o].seen>> \notin lapsed
          /\ child[o] \in Final
          /\ Emit(c, o, child[o])
       \/ /\ <<o, worker[c][o].seen>> \notin lapsed
          /\ child[o] \notin Final
          /\ Goto(c, o, "observing")
    /\ UNCHANGED <<child, ready, rows, lapsed, up, restart>>

\* observe and recover: nothing new, an error, or a child to prepare.
Observe(c, o) ==
    /\ At(c, o, "observing")
    /\ \/ Goto(c, o, "head")
       \/ Emit(c, o, "failed")
       \/ /\ child[o] = "queued"
          /\ o \in ready
          /\ Goto(c, o, "preparing")
    /\ UNCHANGED <<child, ready, rows, lapsed, up, restart>>

\* backend.prepare returns and begin_send reserves the child, if its arming
\* stands: _replace with require_auto_queue_armed.
Reserve(c, o) ==
    /\ At(c, o, "preparing")
    /\ child[o] = "queued"
    /\ o \in Armed
    /\ <<o, epoch[o]>> \notin lapsed
    /\ child' = [child EXCEPT ![o] = "sending"]
    /\ Goto(c, o, "head")
    /\ UNCHANGED <<ready, rows, lapsed, up, restart>>

\* SubchatAutoQueueDisarmed: the prepared page is discarded, which awaits.
Refuse(c, o) ==
    /\ At(c, o, "preparing")
    /\ child[o] = "queued"
    /\ o \notin Armed \/ <<o, epoch[o]>> \in lapsed
    /\ Goto(c, o, "disarmed")
    /\ UNCHANGED <<child, ready, rows, lapsed, up, restart>>

\* Another controller moved the child, or an edit of it won: look again.
\* Any other preparation error ends the arming.
AbandonPreparation(c, o) ==
    /\ At(c, o, "preparing")
    /\ Goto(c, o, "head") \/ Emit(c, o, "failed")
    /\ UNCHANGED <<child, ready, rows, lapsed, up, restart>>

\* except SubchatAutoQueueDisarmed: return
Return(c, o) ==
    /\ At(c, o, "disarmed")
    /\ Goto(c, o, "ended")
    /\ UNCHANGED <<child, ready, rows, lapsed, up, restart>>

\* Mutants: finish_auto_queue compares only the state, or only the epoch.
EmitForAnyEpoch(c, o) ==
    /\ At(c, o, "emitting")
    /\ IF o \in Armed
       THEN EndArming(o, "stopped", worker[c][o].event)
       ELSE UNCHANGED rows
    /\ Goto(c, o, "ended")
    /\ UNCHANGED <<child, ready, lapsed, up, restart>>

EmitForAnyState(c, o) ==
    /\ At(c, o, "emitting")
    /\ IF epoch[o] = worker[c][o].seen
       THEN EndArming(o, "stopped", worker[c][o].event)
       ELSE UNCHANGED rows
    /\ Goto(c, o, "ended")
    /\ UNCHANGED <<child, ready, lapsed, up, restart>>

\* emit_auto_event: finish_auto_queue with the epoch the worker has seen.
EmitEvent(c, o) ==
    /\ At(c, o, "emitting")
    /\ IF o \in Armed /\ epoch[o] = worker[c][o].seen
       THEN EndArming(o, "stopped", worker[c][o].event)
       ELSE UNCHANGED rows
    /\ Goto(c, o, "ended")
    /\ UNCHANGED <<child, ready, lapsed, up, restart>>

\* restart_if_rearmed, the done callback of the task.
Callback(c, o) ==
    /\ At(c, o, "ended")
    /\ restart' = [restart EXCEPT ![c] = @ \ {o}]
    /\ worker' = [worker EXCEPT ![c][o] =
                      IF /\ o \in restart[c]
                         /\ o \in Armed
                         /\ Cardinality(Alive(c)) < Limit
                      THEN NewTask ELSE NoTask]
    /\ UNCHANGED <<child, ready, rows, lapsed, up>>

-----------------------------------------------------------------------------
(* The surroundings: time, the predecessor, other controllers and the user. *)

Lapse(o) ==
    /\ epoch[o] # 0
    /\ <<o, epoch[o]>> \notin lapsed
    /\ lapsed' = lapsed \cup {<<o, epoch[o]>>}
    /\ UNCHANGED <<child, ready, rows, up, worker, restart>>

PredecessorAnswered(o) ==
    /\ o \notin ready
    /\ ready' = ready \cup {o}
    /\ UNCHANGED <<child, rows, lapsed, up, worker, restart>>

ChildMoves(o) ==
    /\ \/ /\ child[o] = "queued"
          /\ \/ child' = [child EXCEPT ![o] = "cancelled"]
             \/ o \in ready /\ child' = [child EXCEPT ![o] = "sending"]
       \/ /\ child[o] = "sending"
          /\ \E s \in {"submitted", "preflight_failed"} :
                child' = [child EXCEPT ![o] = s]
       \/ /\ child[o] = "submitted"
          /\ \E s \in {"completed", "interrupted"} :
                child' = [child EXCEPT ![o] = s]
    /\ UNCHANGED <<ready, rows, lapsed, up, worker, restart>>

WorkerStep(c, o) ==
    \/ ReadStatus(c, o) \/ Decide(c, o) \/ Observe(c, o)
    \/ Reserve(c, o) \/ Refuse(c, o) \/ AbandonPreparation(c, o)
    \/ Return(c, o) \/ EmitEvent(c, o) \/ Callback(c, o)

Next ==
    \/ \E c \in Controller : Boot(c) \/ Shut(c)
    \/ \E c \in Controller, o \in Op :
          Arm(c, o) \/ RepeatArm(c, o) \/ WorkerStep(c, o)
    \/ \E o \in Op :
          Disable(o) \/ Lapse(o) \/ PredecessorAnswered(o) \/ ChildMoves(o)

Spec == Init /\ [][Next]_vars

(***************************************************************************)
(* The event loop runs every task that can go on (each await in the loop   *)
(* has a timeout of its own), and time passes.  Nothing obliges a user, a  *)
(* predecessor or a provider.                                              *)
(***************************************************************************)
Fairness ==
    /\ \A c \in Controller, o \in Op : WF_vars(WorkerStep(c, o))
    /\ \A o \in Op : WF_vars(Lapse(o))

FairSpec == Spec /\ Fairness

-----------------------------------------------------------------------------
(* Properties *)

\* The controller carries the arming on: a worker, or one about to start.
Watched(c, o) ==
    \/ o \in Alive(c)
    \/ At(c, o, "ended") /\ o \in restart[c]

(***************************************************************************)
(* An arming whose lease runs is carried on by every controller that armed *)
(* or resumed it, across re-arms that race with the end of an older        *)
(* worker (subchat_mcp.py start_auto_queue and restart_if_rearmed).        *)
(***************************************************************************)
ArmedIsWatched ==
    \A o \in Op : \A c \in armer[o] :
        o \in Armed /\ <<o, epoch[o]>> \notin lapsed => Watched(c, o)

(***************************************************************************)
(* A worker stops only for a reason that is saved: while its controller    *)
(* lives, a row it armed or resumed does not stay armed without it         *)
(* (docs/SUBCHAT-PROBE.md: "Terminal completion and failure reasons are    *)
(* saved for subchat_queue_events").                                       *)
(***************************************************************************)
StopIsSaved ==
    \A o \in Op : \A c \in armer[o] : o \in Armed => Watched(c, o)

(***************************************************************************)
(* Every arming ends at most once and has an event exactly when it ended,  *)
(* whatever workers of whatever controllers and epochs race to end it      *)
(* (subchat_state.py finish_auto_queue, disable_auto_queue).               *)
(***************************************************************************)
OneEventPerArming ==
    \A o \in Op, e \in Epochs :
        /\ closed[o][e] <= 1
        /\ e = epoch[o] => (closed[o][e] = 0 <=> o \in Armed)
        /\ e > epoch[o] => closed[o][e] = 0

(***************************************************************************)
(* An event says what happened to the arming it ended: a lease that is     *)
(* over, or the outcome of the child (subchat_mcp.py emit_auto_event).     *)
(***************************************************************************)
EventHonest ==
    \A r \in events :
        /\ r.event = "lease_expired" => <<r.op, r.epoch>> \in lapsed
        /\ r.event \in Final => child[r.op] = r.event

(***************************************************************************)
(* A lease bounds a worker: none keeps polling for ever, even if edits of  *)
(* its queued child keep sending it back to the start of its loop.         *)
(***************************************************************************)
WorkersEnd ==
    \A c \in Controller, o \in Op : o \in Alive(c) ~> o \notin Alive(c)
=============================================================================
