------------------------ MODULE SubchatAutoQueueProofs ------------------------
(***************************************************************************)
(* TLAPS proofs about SubchatAutoQueue for every set of submissions and    *)
(* controllers, every limit and every number of armings.                   *)
(*                                                                         *)
(* That an arming ends once and that its event tells the truth both rest   *)
(* on the conditional UPDATE of finish_auto_queue.  What a worker is about *)
(* to emit was true of the epoch it has seen (Reported), and stays true:   *)
(* a lease that is over stays over and a final child stays final.          *)
(***************************************************************************)
EXTENDS SubchatAutoQueue, FiniteSetTheorems, TLAPS

\* Only a row that has been armed can be armed or have a lease.
Numbered == \A o \in Op : arming[o] = "armed" => epoch[o] \in Epochs

\* The reason a worker is about to save was true when it was found.
Reported ==
    \A c \in Controller, o \in Op :
        worker[c][o].phase = "emitting" =>
            /\ worker[c][o].event \in Reason
            /\ worker[c][o].event = "lease_expired" =>
                  <<o, worker[c][o].seen>> \in lapsed
            /\ worker[c][o].event \in Final => child[o] = worker[c][o].event

IInv ==
    /\ TypeOK
    /\ Numbered
    /\ Reported
    /\ OneEventPerArming
    /\ EventHonest

\* No row, no worker, no event.
LEMMA QueueInit == Init => IInv
  BY LimitAssumption
  DEF Init, IInv, TypeOK, Numbered, Reported, OneEventPerArming, EventHonest,
      Armed, Child, Task, NoTask, Phase, Reason, Final, Epochs

-----------------------------------------------------------------------------
(* What Goto, Emit, Start and EndArming do to the tables. *)

\* Going on to another phase changes one task and nothing else of it.
LEMMA GotoTypes ==
  ASSUME worker \in [Controller -> [Op -> Task]],
         NEW c \in Controller, NEW o \in Op, NEW p \in Phase, Goto(c, o, p)
  PROVE  /\ worker' \in [Controller -> [Op -> Task]]
         /\ worker'[c][o].phase = p
         /\ p \notin {"head", "disarmed", "ended"} =>
               worker'[c][o].seen = worker[c][o].seen
         /\ \A d \in Controller, q \in Op :
               <<d, q>> # <<c, o>> => worker'[d][q] = worker[d][q]
<1> DEFINE t == IF p \in {"head", "disarmed", "ended"} THEN [NoTask EXCEPT !.phase = p]
                ELSE [worker[c][o] EXCEPT !.phase = p]
<1>1. t \in Task
  <2>1. worker[c][o] \in Task /\ NoTask \in Task
    BY LimitAssumption DEF NoTask, Task, Phase
  <2>2. \A s \in Task : [s EXCEPT !.phase = p] \in Task
    BY DEF Task
  <2>3. QED
    BY <2>1, <2>2
<1>2. worker' = [worker EXCEPT ![c] = [worker[c] EXCEPT ![o] = t]]
  BY DEF Goto
<1>3. worker'[c][o] = t
  BY <1>2
<1>4. /\ t.phase = p
      /\ p \notin {"head", "disarmed", "ended"} => t.seen = worker[c][o].seen
  <2>1. worker[c][o] \in Task
    OBVIOUS
  <2>2. QED
    BY <2>1 DEF Task, NoTask
<1> HIDE DEF t
<1>5. QED
  BY <1>1, <1>2, <1>3, <1>4

\* A worker about to emit has its reason and the epoch it has seen.
LEMMA EmitTypes ==
  ASSUME worker \in [Controller -> [Op -> Task]],
         NEW c \in Controller, NEW o \in Op, NEW e \in Reason, Emit(c, o, e)
  PROVE  /\ worker' \in [Controller -> [Op -> Task]]
         /\ worker'[c][o].phase = "emitting"
         /\ worker'[c][o].event = e
         /\ worker'[c][o].seen = worker[c][o].seen
         /\ \A d \in Controller, q \in Op :
               <<d, q>> # <<c, o>> => worker'[d][q] = worker[d][q]
<1> DEFINE u == [worker[c][o] EXCEPT !.phase = "emitting"]
           t == [u EXCEPT !.event = e]
<1>1. t \in Task /\ t.phase = "emitting" /\ t.event = e
      /\ t.seen = worker[c][o].seen
  <2> "emitting" \in Phase
    BY DEF Phase
  <2>0. worker[c][o] \in Task
    OBVIOUS
  <2>1. u \in Task /\ u.phase = "emitting" /\ u.seen = worker[c][o].seen
    BY <2>0 DEF Task
  <2> HIDE DEF u
  <2>2. QED
    BY <2>1 DEF Task
<1>2. worker' = [worker EXCEPT ![c] = [worker[c] EXCEPT ![o] = t]]
  BY DEF Emit
<1>3. worker'[c][o] = t
  BY <1>2
<1> HIDE DEF t
<1>4. QED
  BY <1>1, <1>2, <1>3

\* A fresh task is at the head of its loop.
LEMMA FreshTask == NewTask \in Task /\ NewTask.phase = "head"
                   /\ NoTask \in Task /\ NoTask.phase = "none"
  BY LimitAssumption DEF NewTask, NoTask, Task, Phase

\* A started worker has emitted nothing; the others go on as they are.
LEMMA StartTypes ==
  ASSUME TypeOK, NEW c \in Controller, NEW o \in Op, Start(c, o)
  PROVE  /\ worker' \in [Controller -> [Op -> Task]]
         /\ restart' \in [Controller -> SUBSET Op]
         /\ \A d \in Controller, q \in Op :
               \/ worker'[d][q] = worker[d][q]
               \/ worker'[d][q] = NewTask
<1>0. restart' \in [Controller -> SUBSET Op]
  <2>1. restart \in [Controller -> SUBSET Op]
    BY DEF TypeOK
  <2>2. CASE restart' = [restart EXCEPT ![c] = @ \cup {o}]
    BY <2>1, <2>2
  <2>3. CASE restart' = [restart EXCEPT ![c] = @ \ {o}]
    BY <2>1, <2>3
  <2>4. QED
    BY <2>2, <2>3 DEF Start
<1>1. CASE worker' = worker
  BY <1>0, <1>1 DEF TypeOK
<1>2. CASE worker' = [worker EXCEPT ![c][o] = NewTask]
  <2>1. worker' = [worker EXCEPT ![c] = [worker[c] EXCEPT ![o] = NewTask]]
    BY <1>2
  <2>2. worker \in [Controller -> [Op -> Task]]
    BY DEF TypeOK
  <2>3. QED
    BY <1>0, <2>1, <2>2, FreshTask
<1>3. QED
  BY <1>1, <1>2 DEF Start

\* The transaction that ends an arming keeps the tables well formed, adds
\* one event for the current epoch and counts it once.
LEMMA EndTypes ==
  ASSUME IInv, NEW o \in Op, o \in Armed, NEW s \in {"disabled", "stopped"},
         NEW e \in Reason \cup {"disabled"}, EndArming(o, s, e)
  PROVE  /\ arming' \in [Op -> {"none", "armed", "disabled", "stopped"}]
         /\ epoch' \in [Op -> 0..MaxEpoch]
         /\ armer' \in [Op -> SUBSET Controller]
         /\ events' \subseteq [op : Op, epoch : Epochs,
                               event : Reason \cup {"disabled"}]
         /\ closed' \in [Op -> [Epochs -> Nat]]
         /\ Numbered'
         /\ OneEventPerArming'
<1> DEFINE n == epoch[o]
<1>1. n \in Epochs /\ arming[o] = "armed"
  BY DEF IInv, Numbered, Armed
<1>2. closed[o][n] = 0
  BY <1>1 DEF IInv, OneEventPerArming
<1>3. closed' = [closed EXCEPT ![o] = [closed[o] EXCEPT ![n] = closed[o][n] + 1]]
  BY DEF EndArming
<1>4. closed' \in [Op -> [Epochs -> Nat]]
  BY <1>1, <1>3 DEF IInv, TypeOK
<1>5. /\ closed'[o][n] = 1
      /\ \A q \in Op, k \in Epochs :
            <<q, k>> # <<o, n>> => closed'[q][k] = closed[q][k]
  BY <1>1, <1>2, <1>3 DEF IInv, TypeOK
<1>6. arming' = [arming EXCEPT ![o] = s] /\ epoch' = epoch /\ armer' = armer
  BY DEF EndArming
<1>7. arming' \in [Op -> {"none", "armed", "disabled", "stopped"}]
  BY <1>6 DEF IInv, TypeOK
<1>8. events' \subseteq [op : Op, epoch : Epochs, event : Reason \cup {"disabled"}]
  BY <1>1 DEF IInv, TypeOK, EndArming
<1>9. Armed' = Armed \ {o}
  BY <1>6 DEF IInv, TypeOK, Armed
<1>10. Numbered'
  BY <1>6 DEF IInv, TypeOK, Numbered
<1>11. OneEventPerArming'
  <2> SUFFICES ASSUME NEW q \in Op, NEW k \in Epochs
               PROVE  /\ closed'[q][k] <= 1
                      /\ k = epoch[q] => (closed'[q][k] = 0 <=> q \in Armed')
                      /\ k > epoch[q] => closed'[q][k] = 0
    BY <1>6 DEF OneEventPerArming
  <2>1. CASE <<q, k>> = <<o, n>>
    BY <2>1, <1>5, <1>9 DEF IInv, TypeOK, Epochs
  <2>2. CASE <<q, k>> # <<o, n>>
    <3>1. closed'[q][k] = closed[q][k]
      BY <2>2, <1>5
    <3>2. k = epoch[q] => (q \in Armed' <=> q \in Armed)
      BY <2>2, <1>9
    <3>3. QED
      BY <3>1, <3>2 DEF IInv, OneEventPerArming
  <2>3. QED
    BY <2>1, <2>2
<1>12. QED
  BY <1>4, <1>6, <1>7, <1>8, <1>10, <1>11 DEF IInv, TypeOK

-----------------------------------------------------------------------------
(* One lemma per kind of action: it preserves IInv. *)

\* Arming or re-arming opens a new epoch without an event.
LEMMA ArmPreserves ==
  ASSUME IInv, NEW c \in Controller, NEW o \in Op, Arm(c, o)
  PROVE  IInv'
<1> DEFINE n == epoch[o] + 1
<1>1. /\ arming' = [arming EXCEPT ![o] = "armed"]
      /\ epoch' = [epoch EXCEPT ![o] = n]
      /\ closed' = closed /\ events' = events
      /\ lapsed' = lapsed /\ child' = child
  BY DEF Arm
<1>2. n \in Epochs
  BY LimitAssumption DEF IInv, TypeOK, Arm, Epochs
<1>3. closed[o][n] = 0
  BY <1>2 DEF IInv, TypeOK, OneEventPerArming, Epochs
<1>4. TypeOK'
  <2>1. epoch' \in [Op -> 0..MaxEpoch]
    BY <1>1, <1>2 DEF IInv, TypeOK, Epochs
  <2>2. QED
    BY <1>1, <2>1, StartTypes DEF IInv, TypeOK, Arm
<1>5. Numbered'
  BY <1>1, <1>2 DEF IInv, TypeOK, Numbered
<1>6. Reported'
  <2>1. \A d \in Controller, q \in Op :
           worker'[d][q] = worker[d][q] \/ worker'[d][q] = NewTask
    BY StartTypes DEF IInv, Arm
  <2>2. QED
    BY <1>1, <2>1, FreshTask DEF IInv, Reported
<1>7. OneEventPerArming'
  <2> SUFFICES ASSUME NEW q \in Op, NEW k \in Epochs
               PROVE  /\ closed[q][k] <= 1
                      /\ k = epoch'[q] => (closed[q][k] = 0 <=> q \in Armed')
                      /\ k > epoch'[q] => closed[q][k] = 0
    BY <1>1 DEF OneEventPerArming
  <2>1. CASE q = o
    <3>1. epoch'[q] = n /\ q \in Armed'
      BY <1>1, <2>1 DEF IInv, TypeOK, Armed
    <3>2. k > n => k > epoch[o]
      BY DEF IInv, TypeOK, Epochs
    <3>3. QED
      BY <2>1, <3>1, <3>2, <1>3 DEF IInv, OneEventPerArming
  <2>2. CASE q # o
    <3>1. epoch'[q] = epoch[q] /\ (q \in Armed' <=> q \in Armed)
      BY <1>1, <2>2 DEF IInv, TypeOK, Armed
    <3>2. QED
      BY <3>1 DEF IInv, OneEventPerArming
  <2>3. QED
    BY <2>1, <2>2
<1>8. EventHonest'
  BY <1>1 DEF IInv, EventHonest
<1>9. QED
  BY <1>4, <1>5, <1>6, <1>7, <1>8 DEF IInv

\* A repeated call and a new controller only start workers; the end of one
\* removes them.
LEMMA ControllerPreserves ==
  ASSUME IInv, NEW c \in Controller,
         Boot(c) \/ Shut(c) \/ \E o \in Op : RepeatArm(c, o)
  PROVE  IInv'
<1>1. UNCHANGED <<child, ready, arming, epoch, lapsed, events, closed>>
  BY DEF Boot, Shut, RepeatArm
<1>2. /\ worker' \in [Controller -> [Op -> Task]]
      /\ \A d \in Controller, q \in Op :
            worker'[d][q] \in {worker[d][q], NewTask, NoTask}
  <2>1. CASE Boot(c)
    BY <2>1, FreshTask DEF IInv, TypeOK, Boot
  <2>2. CASE Shut(c)
    BY <2>2, FreshTask DEF IInv, TypeOK, Shut
  <2>3. ASSUME NEW o \in Op, RepeatArm(c, o)
        PROVE  <1>2!1 /\ <1>2!2
    BY <2>3, StartTypes DEF IInv, RepeatArm
  <2>4. QED
    BY <2>1, <2>2, <2>3
<1>3. /\ armer' \in [Op -> SUBSET Controller]
      /\ up' \subseteq Controller
      /\ restart' \in [Controller -> SUBSET Op]
  <2>1. CASE Boot(c)
    BY <2>1 DEF IInv, TypeOK, Boot
  <2>2. CASE Shut(c)
    BY <2>2 DEF IInv, TypeOK, Shut
  <2>3. ASSUME NEW o \in Op, RepeatArm(c, o)
        PROVE  <1>3!1 /\ <1>3!2 /\ <1>3!3
    BY <2>3, StartTypes DEF IInv, TypeOK, RepeatArm
  <2>4. QED
    BY <2>1, <2>2, <2>3
<1>4. TypeOK'
  BY <1>1, <1>2, <1>3 DEF IInv, TypeOK
<1>5. Reported'
  BY <1>1, <1>2, FreshTask DEF IInv, Reported
<1>6. Numbered' /\ OneEventPerArming' /\ EventHonest'
  BY <1>1 DEF IInv, Numbered, OneEventPerArming, EventHonest, Armed
<1>7. QED
  BY <1>4, <1>5, <1>6 DEF IInv

\* Disabling ends an arming with an event that claims nothing else.
LEMMA DisablePreserves ==
  ASSUME IInv, NEW o \in Op, Disable(o)
  PROVE  IInv'
<1>1. /\ o \in Armed
      /\ EndArming(o, "disabled", "disabled")
      /\ UNCHANGED <<child, ready, lapsed, up, worker, restart>>
  BY DEF Disable
<1>2. TypeOK' /\ Numbered' /\ OneEventPerArming'
  BY <1>1, EndTypes DEF IInv, TypeOK
<1>3. Reported'
  BY <1>1 DEF IInv, Reported
<1>4. EventHonest'
  <2>1. \A r \in events' : r \in events \/ r.event = "disabled"
    BY <1>1 DEF EndArming
  <2>2. QED
    BY <1>1, <2>1 DEF IInv, EventHonest, Final
<1>5. QED
  BY <1>2, <1>3, <1>4 DEF IInv

\* Time, the predecessor, other controllers and the user: leases stay over
\* and final children stay final.
LEMMA SurroundingsPreserve ==
  ASSUME IInv, NEW o \in Op,
         Lapse(o) \/ PredecessorAnswered(o) \/ ChildMoves(o)
  PROVE  IInv'
<1>1. UNCHANGED <<arming, epoch, armer, events, closed, up, worker, restart>>
  BY DEF Lapse, PredecessorAnswered, ChildMoves, rows
<1>2. child' \in [Op -> Child] /\ ready' \subseteq Op
  BY DEF IInv, TypeOK, Lapse, PredecessorAnswered, ChildMoves, Child, Final
<1>3. lapsed \subseteq lapsed' /\ lapsed' \subseteq Op \X Epochs
  <2>1. CASE Lapse(o)
    <3>1. epoch[o] \in Epochs
      BY <2>1, LimitAssumption DEF IInv, TypeOK, Lapse, Epochs
    <3>2. QED
      BY <2>1, <3>1 DEF IInv, TypeOK, Lapse
  <2>2. CASE PredecessorAnswered(o) \/ ChildMoves(o)
    BY <2>2 DEF IInv, TypeOK, PredecessorAnswered, ChildMoves
  <2>3. QED
    BY <2>1, <2>2
<1>4. \A q \in Op : child[q] \in Final => child'[q] = child[q]
  BY DEF IInv, TypeOK, Lapse, PredecessorAnswered, ChildMoves, Final
<1>5. TypeOK'
  BY <1>1, <1>2, <1>3 DEF IInv, TypeOK
<1>6. Reported'
  BY <1>1, <1>3, <1>4 DEF IInv, Reported
<1>7. Numbered' /\ OneEventPerArming'
  BY <1>1 DEF IInv, Numbered, OneEventPerArming, Armed
<1>8. EventHonest'
  BY <1>1, <1>3, <1>4 DEF IInv, TypeOK, EventHonest
<1>9. QED
  BY <1>5, <1>6, <1>7, <1>8 DEF IInv

\* A worker that only goes on to a phase other than "emitting", while the
\* row and the lease stay and the child does not leave a final state.
LEMMA GotoPreserves ==
  ASSUME IInv, NEW c \in Controller, NEW o \in Op,
         NEW p \in Phase \ {"emitting"}, Goto(c, o, p),
         UNCHANGED <<ready, rows, lapsed, up, restart>>,
         child' = child \/ (child[o] = "queued"
                            /\ child' = [child EXCEPT ![o] = "sending"])
  PROVE  IInv'
<1>1. /\ worker' \in [Controller -> [Op -> Task]]
      /\ worker'[c][o].phase = p
      /\ \A d \in Controller, q \in Op :
            <<d, q>> # <<c, o>> => worker'[d][q] = worker[d][q]
  BY GotoTypes DEF IInv, TypeOK
<1>2. child' \in [Op -> Child]
      /\ \A q \in Op : child[q] \in Final => child'[q] = child[q]
  BY DEF IInv, TypeOK, Child, Final
<1>3. TypeOK'
  BY <1>1, <1>2 DEF IInv, TypeOK, rows
<1>4. Reported'
  BY <1>1, <1>2 DEF IInv, Reported
<1>5. Numbered' /\ OneEventPerArming'
  BY DEF IInv, Numbered, OneEventPerArming, Armed, rows
<1>6. EventHonest'
  BY <1>2 DEF IInv, TypeOK, EventHonest, rows
<1>7. QED
  BY <1>3, <1>4, <1>5, <1>6 DEF IInv

\* A worker that has found a reason to stop, true of the epoch it has seen.
LEMMA EmitPreserves ==
  ASSUME IInv, NEW c \in Controller, NEW o \in Op, NEW e \in Reason,
         Emit(c, o, e), UNCHANGED <<child, ready, rows, lapsed, up, restart>>,
         e = "lease_expired" => <<o, worker[c][o].seen>> \in lapsed,
         e \in Final => child[o] = e
  PROVE  IInv'
<1>1. /\ worker' \in [Controller -> [Op -> Task]]
      /\ worker'[c][o].event = e
      /\ worker'[c][o].seen = worker[c][o].seen
      /\ \A d \in Controller, q \in Op :
            <<d, q>> # <<c, o>> => worker'[d][q] = worker[d][q]
  BY EmitTypes DEF IInv, TypeOK
<1>2. TypeOK'
  BY <1>1 DEF IInv, TypeOK, rows
<1>3. Reported'
  BY <1>1 DEF IInv, Reported
<1>4. Numbered' /\ OneEventPerArming' /\ EventHonest'
  BY DEF IInv, Numbered, OneEventPerArming, EventHonest, Armed, rows
<1>5. QED
  BY <1>2, <1>3, <1>4 DEF IInv

\* The head of the loop: a status is read, and nothing is emitted yet.
LEMMA ReadPreserves ==
  ASSUME IInv, NEW c \in Controller, NEW o \in Op, ReadStatus(c, o)
  PROVE  IInv'
<1>1. CASE o \notin Armed
  BY <1>1, GotoPreserves DEF ReadStatus, Phase
<1>2. CASE o \in Armed
  <2> DEFINE u == [worker[c][o] EXCEPT !.phase = "decide"]
             t == [u EXCEPT !.seen = epoch[o]]
  <2>1. t \in Task /\ t.phase = "decide"
    <3> "decide" \in Phase
      BY DEF Phase
    <3> worker \in [Controller -> [Op -> Task]]
      BY DEF IInv, TypeOK
    <3>1. u \in Task /\ u.phase = "decide"
      BY DEF Task
    <3> HIDE DEF u
    <3>2. epoch[o] \in 0..MaxEpoch
      BY DEF IInv, TypeOK
    <3>3. QED
      BY <3>1, <3>2 DEF Task
  <2>2. worker' = [worker EXCEPT ![c] = [worker[c] EXCEPT ![o] = t]]
    <3>1. worker' = [worker EXCEPT ![c][o].phase = "decide", ![c][o].seen = epoch[o]]
      BY <1>2 DEF ReadStatus
    <3>2. worker \in [Controller -> [Op -> Task]]
      BY DEF IInv, TypeOK
    <3>3. QED
      BY <3>1, <3>2
  <2>3. /\ UNCHANGED <<child, ready, lapsed, up, restart>>
        /\ UNCHANGED <<arming, epoch, armer, events, closed>>
    BY DEF ReadStatus, rows
  <2> HIDE DEF t
  <2>4. TypeOK'
    BY <2>1, <2>2, <2>3 DEF IInv, TypeOK
  <2>5. \A d \in Controller, q \in Op :
           worker'[d][q] = worker[d][q] \/ worker'[d][q] = t
    BY <2>2 DEF IInv, TypeOK
  <2>6. Reported'
    BY <2>1, <2>3, <2>5 DEF IInv, Reported
  <2>7. Numbered' /\ OneEventPerArming' /\ EventHonest'
    BY <2>3 DEF IInv, Numbered, OneEventPerArming, EventHonest, Armed
  <2>8. QED
    BY <2>4, <2>6, <2>7 DEF IInv
<1>3. QED
  BY <1>1, <1>2

\* The decision of an iteration and what preparing a message can end in.
LEMMA LoopPreserves ==
  ASSUME IInv, NEW c \in Controller, NEW o \in Op,
         \/ Decide(c, o) \/ Observe(c, o) \/ Reserve(c, o)
         \/ Refuse(c, o) \/ AbandonPreparation(c, o) \/ Return(c, o)
  PROVE  IInv'
<1>1. CASE Decide(c, o)
  <2>1. CASE Emit(c, o, "failed")
    BY <1>1, <2>1, EmitPreserves DEF Decide, Reason, Final
  <2>2. CASE <<o, worker[c][o].seen>> \in lapsed /\ Emit(c, o, "lease_expired")
    BY <1>1, <2>2, EmitPreserves DEF Decide, Reason, Final
  <2>3. CASE child[o] \in Final /\ Emit(c, o, child[o])
    BY <1>1, <2>3, EmitPreserves DEF Decide, Reason, Final
  <2>4. CASE Goto(c, o, "observing")
    BY <1>1, <2>4, GotoPreserves DEF Decide, Phase
  <2>5. QED
    BY <1>1, <2>1, <2>2, <2>3, <2>4 DEF Decide
<1>2. CASE Observe(c, o)
  BY <1>2, GotoPreserves, EmitPreserves DEF Observe, Phase, Reason, Final
<1>3. CASE Reserve(c, o)
  BY <1>3, GotoPreserves DEF Reserve, Phase
<1>4. CASE Refuse(c, o)
  BY <1>4, GotoPreserves DEF Refuse, Phase
<1>5. CASE AbandonPreparation(c, o)
  BY <1>5, GotoPreserves, EmitPreserves
  DEF AbandonPreparation, Phase, Reason, Final
<1>6. CASE Return(c, o)
  BY <1>6, GotoPreserves DEF Return, Phase
<1>7. QED
  BY <1>1, <1>2, <1>3, <1>4, <1>5, <1>6

\* finish_auto_queue ends the arming the worker has seen, or nothing.
LEMMA EventPreserves ==
  ASSUME IInv, NEW c \in Controller, NEW o \in Op, EmitEvent(c, o)
  PROVE  IInv'
<1> DEFINE e == worker[c][o].event
<1>1. CASE ~(o \in Armed /\ epoch[o] = worker[c][o].seen)
  BY <1>1, GotoPreserves DEF EmitEvent, Phase
<1>2. CASE o \in Armed /\ epoch[o] = worker[c][o].seen
  <2>1. /\ EndArming(o, "stopped", e)
        /\ Goto(c, o, "ended")
        /\ worker[c][o].phase = "emitting"
        /\ UNCHANGED <<child, ready, lapsed, up, restart>>
    BY <1>2 DEF EmitEvent, At
  <2>2. /\ e \in Reason
        /\ e = "lease_expired" => <<o, epoch[o]>> \in lapsed
        /\ e \in Final => child[o] = e
    BY <1>2, <2>1 DEF IInv, Reported
  <2>3. /\ worker' \in [Controller -> [Op -> Task]]
        /\ worker'[c][o].phase = "ended"
        /\ \A d \in Controller, q \in Op :
              <<d, q>> # <<c, o>> => worker'[d][q] = worker[d][q]
    BY <2>1, GotoTypes DEF IInv, TypeOK, Phase
  <2>4. TypeOK' /\ Numbered' /\ OneEventPerArming'
    BY <1>2, <2>1, <2>2, <2>3, EndTypes DEF IInv, TypeOK
  <2>5. Reported'
    BY <2>1, <2>3 DEF IInv, Reported
  <2>6. EventHonest'
    <3>1. events' = events \cup {[op |-> o, epoch |-> epoch[o], event |-> e]}
      BY <2>1 DEF EndArming
    <3>2. SUFFICES ASSUME NEW r \in events'
                   PROVE  /\ r.event = "lease_expired" =>
                                <<r.op, r.epoch>> \in lapsed
                          /\ r.event \in Final => child[r.op] = r.event
      BY <2>1 DEF EventHonest
    <3>3. CASE r \in events
      BY <3>3 DEF IInv, EventHonest
    <3>4. CASE r = [op |-> o, epoch |-> epoch[o], event |-> e]
      <4>1. r.op = o /\ r.epoch = epoch[o] /\ r.event = e
        BY <3>4
      <4>2. QED
        BY <4>1, <2>2
    <3>5. QED
      BY <3>1, <3>3, <3>4
  <2>7. QED
    BY <2>4, <2>5, <2>6 DEF IInv
<1>3. QED
  BY <1>1, <1>2

\* The done callback starts a successor or leaves nothing behind.
LEMMA CallbackPreserves ==
  ASSUME IInv, NEW c \in Controller, NEW o \in Op, Callback(c, o)
  PROVE  IInv'
<1>1. PICK t \in {NewTask, NoTask} :
         worker' = [worker EXCEPT ![c] = [worker[c] EXCEPT ![o] = t]]
  BY DEF Callback
<1>2. t \in Task /\ t.phase # "emitting"
  BY FreshTask
<1>3. /\ UNCHANGED <<child, ready, lapsed, up>>
      /\ UNCHANGED <<arming, epoch, armer, events, closed>>
  BY DEF Callback, rows
<1>4. TypeOK'
  BY <1>1, <1>2, <1>3 DEF IInv, TypeOK, Callback
<1>5. \A d \in Controller, q \in Op :
         worker'[d][q] = worker[d][q] \/ worker'[d][q] = t
  BY <1>1 DEF IInv, TypeOK
<1>6. Reported'
  BY <1>2, <1>3, <1>5 DEF IInv, Reported
<1>7. Numbered' /\ OneEventPerArming' /\ EventHonest'
  BY <1>3 DEF IInv, Numbered, OneEventPerArming, EventHonest, Armed
<1>8. QED
  BY <1>4, <1>6, <1>7 DEF IInv

-----------------------------------------------------------------------------
\* Every step of a controller and of its surroundings preserves the invariant.
LEMMA QueueNext ==
  ASSUME IInv, [Next]_vars
  PROVE  IInv'
<1>1. CASE UNCHANGED vars
  BY <1>1
  DEF vars, IInv, TypeOK, Numbered, Reported, OneEventPerArming, EventHonest,
      Armed
<1>2. ASSUME NEW c \in Controller, NEW o \in Op, WorkerStep(c, o)
      PROVE  IInv'
  BY <1>2, ReadPreserves, LoopPreserves, EventPreserves, CallbackPreserves
  DEF WorkerStep
<1>3. CASE Next
  BY <1>2, <1>3, ArmPreserves, ControllerPreserves, DisablePreserves,
     SurroundingsPreserve
  DEF Next
<1>4. QED
  BY <1>1, <1>3

\* The invariant that carries the theorems below: what a worker is about to
\* report stays true of the epoch it has seen.
THEOREM QueueInductive == Spec => []IInv
<1>1. Init => IInv
  BY QueueInit
<1>2. IInv /\ [Next]_vars => IInv'
  BY QueueNext
<1>3. QED
  BY <1>1, <1>2, PTL DEF Spec

\* The rows and the tasks of the controllers hold what they should.
THEOREM QueueTypeCorrect == Spec => []TypeOK
<1>1. IInv => TypeOK
  BY DEF IInv
<1>2. QED
  BY <1>1, QueueInductive, PTL

\* Every arming ends at most once and has its event exactly when it ended,
\* for any number of controllers, submissions and re-armings.
THEOREM ArmingsEndOnce == Spec => []OneEventPerArming
<1>1. IInv => OneEventPerArming
  BY DEF IInv
<1>2. QED
  BY <1>1, QueueInductive, PTL

\* An event is never about another arming than the one it ended.
THEOREM EventsHonest == Spec => []EventHonest
<1>1. IInv => EventHonest
  BY DEF IInv
<1>2. QED
  BY <1>1, QueueInductive, PTL

-----------------------------------------------------------------------------
(***************************************************************************)
(* Whoever carries an arming goes on with it.  Its controller has a worker *)
(* for it or is about to start one, and a worker that may end without      *)
(* ending the arming, because it was disarmed or because it saw an older   *)
(* epoch, has been told that it has a successor.                           *)
(***************************************************************************)
Carries(c, o) ==
    /\ Watched(c, o)
    /\ \/ o \in restart[c]
       \/ At(c, o, "head")
       \/ ~At(c, o, "disarmed") /\ worker[c][o].seen = epoch[o]

Carried ==
    \A o \in Armed : \A c \in armer[o] :
        <<o, epoch[o]>> \notin lapsed => Carries(c, o)

\* There is room for the successor of every worker that ends.
Roomy ==
    \A c \in Controller, o \in Op :
        At(c, o, "ended") => Cardinality(Alive(c)) < Limit

\* What is carried stays so when its task, its epoch and the word about a
\* successor stay.
LEMMA StillCarried ==
  ASSUME NEW c, NEW o \in Op, Carries(c, o), worker'[c][o] = worker[c][o],
         epoch'[o] = epoch[o], o \in restart[c] => o \in restart'[c]
  PROVE  Carries(c, o)'
  BY DEF Carries, Watched, Alive, At

\* start_auto_queue leaves a fresh worker, or a live one with a successor.
LEMMA StartCarries ==
  ASSUME IInv, NEW c \in Controller, NEW o \in Op, Start(c, o)
  PROVE  /\ Carries(c, o)'
         /\ \A d \in Controller, q \in Op : <<d, q>> # <<c, o>> =>
               /\ worker'[d][q] = worker[d][q]
               /\ q \in restart[d] => q \in restart'[d]
<1>0. /\ worker \in [Controller -> [Op -> Task]]
      /\ restart \in [Controller -> SUBSET Op]
  BY DEF IInv, TypeOK
<1>1. CASE /\ o \in Alive(c)
           /\ restart' = [restart EXCEPT ![c] = @ \cup {o}]
           /\ worker' = worker
  BY <1>0, <1>1 DEF Carries, Watched, Alive
<1>2. CASE /\ restart' = [restart EXCEPT ![c] = @ \ {o}]
           /\ worker' = [worker EXCEPT ![c][o] = NewTask]
  <2>1. worker' = [worker EXCEPT ![c] = [worker[c] EXCEPT ![o] = NewTask]]
    BY <1>2
  <2>2. worker'[c][o].phase = "head"
    BY <1>0, <2>1, FreshTask
  <2>3. Carries(c, o)'
    BY <2>2 DEF Carries, Watched, Alive, At
  <2>4. QED
    BY <1>0, <1>2, <2>1, <2>3
<1>3. QED
  BY <1>1, <1>2 DEF Start

\* A step of a worker changes nothing for the others.
LEMMA OthersStand ==
  ASSUME IInv, NEW c \in Controller, NEW o \in Op, WorkerStep(c, o)
  PROVE  /\ armer' = armer /\ epoch' = epoch /\ lapsed' = lapsed
         /\ Armed' \subseteq Armed
         /\ \A d \in Controller, q \in Op : <<d, q>> # <<c, o>> =>
               /\ worker'[d][q] = worker[d][q]
               /\ q \in restart[d] => q \in restart'[d]
<1>0. /\ worker \in [Controller -> [Op -> Task]]
      /\ restart \in [Controller -> SUBSET Op]
      /\ arming \in [Op -> {"none", "armed", "disabled", "stopped"}]
  BY DEF IInv, TypeOK
<1>1. armer' = armer /\ epoch' = epoch /\ lapsed' = lapsed
  BY DEF WorkerStep, ReadStatus, Decide, Observe, Reserve, Refuse,
         AbandonPreparation, Return, EmitEvent, Callback, EndArming, rows
<1>2. Armed' \subseteq Armed
  <2>1. arming' = arming \/ arming' = [arming EXCEPT ![o] = "stopped"]
    BY DEF WorkerStep, ReadStatus, Decide, Observe, Reserve, Refuse,
           AbandonPreparation, Return, EmitEvent, Callback, EndArming, rows
  <2>2. QED
    BY <1>0, <2>1 DEF Armed
<1>3. restart' = restart \/ restart' = [restart EXCEPT ![c] = @ \ {o}]
  BY DEF WorkerStep, ReadStatus, Decide, Observe, Reserve, Refuse,
         AbandonPreparation, Return, EmitEvent, Callback
<1>4. \E t : worker' = [worker EXCEPT ![c] = [worker[c] EXCEPT ![o] = t]]
  <2>1. CASE ReadStatus(c, o)
    <3>1. CASE o \in Armed
      <4>1. worker' = [worker EXCEPT ![c] = [worker[c] EXCEPT
                         ![o] = [[worker[c][o] EXCEPT !.phase = "decide"]
                                 EXCEPT !.seen = epoch[o]]]]
        BY <1>0, <2>1, <3>1 DEF ReadStatus
      <4>2. QED
        BY <4>1
    <3>2. CASE o \notin Armed
      BY <1>0, <2>1, <3>2 DEF ReadStatus, Goto
    <3>3. QED
      BY <3>1, <3>2
  <2>2. ASSUME NEW p, Goto(c, o, p)
        PROVE  <1>4
    BY <1>0, <2>2 DEF Goto
  <2>3. ASSUME NEW e, Emit(c, o, e)
        PROVE  <1>4
    <3>1. worker' = [worker EXCEPT ![c] = [worker[c] EXCEPT
                       ![o] = [[worker[c][o] EXCEPT !.phase = "emitting"]
                               EXCEPT !.event = e]]]
      BY <1>0, <2>3 DEF Emit
    <3>2. QED
      BY <3>1
  <2>4. CASE Callback(c, o)
    BY <1>0, <2>4 DEF Callback
  <2>5. CASE \/ Decide(c, o) \/ Observe(c, o) \/ Reserve(c, o) \/ Refuse(c, o)
             \/ AbandonPreparation(c, o) \/ Return(c, o) \/ EmitEvent(c, o)
    <3>1. \/ \E p : Goto(c, o, p)
          \/ \E e : Emit(c, o, e)
      BY <2>5 DEF Decide, Observe, Reserve, Refuse, AbandonPreparation,
                  Return, EmitEvent
    <3>2. QED
      BY <3>1, <2>2, <2>3
  <2>6. QED
    BY <2>1, <2>4, <2>5 DEF WorkerStep
<1>5. \A d \in Controller, q \in Op : <<d, q>> # <<c, o>> =>
         worker'[d][q] = worker[d][q]
  BY <1>0, <1>4
<1>6. QED
  BY <1>0, <1>1, <1>2, <1>3, <1>5

\* What a step of the worker leaves of the promise it is under itself.
LEMMA WorkerCarries ==
  ASSUME IInv, Roomy, NEW c \in Controller, NEW o \in Armed, Carries(c, o),
         <<o, epoch[o]>> \notin lapsed, WorkerStep(c, o), o \in Armed'
  PROVE  Carries(c, o)'
<1>0. /\ worker \in [Controller -> [Op -> Task]]
      /\ restart \in [Controller -> SUBSET Op]
      /\ o \in Op /\ epoch' = epoch
  BY OthersStand DEF IInv, TypeOK, Armed
<1>1. CASE ReadStatus(c, o)
  <2> DEFINE u == [worker[c][o] EXCEPT !.phase = "decide"]
             t == [u EXCEPT !.seen = epoch[o]]
  <2>1. worker' = [worker EXCEPT ![c] = [worker[c] EXCEPT ![o] = t]]
    BY <1>0, <1>1 DEF ReadStatus
  <2>2. worker[c][o] \in Task
    BY <1>0
  <2>3. t.phase = "decide" /\ t.seen = epoch[o]
    <3>1. u.phase = "decide" /\ u \in [phase : {"decide"}, seen : 0..MaxEpoch,
                                       event : Reason \cup {"none"}]
      BY <2>2 DEF Task
    <3> HIDE DEF u
    <3>2. QED
      BY <3>1
  <2> HIDE DEF t
  <2>4. worker'[c][o].phase = "decide" /\ worker'[c][o].seen = epoch'[o]
    BY <1>0, <2>1, <2>3
  <2>5. QED
    BY <1>0, <2>4 DEF Carries, Watched, Alive, At
<1>2. CASE Decide(c, o)
  <2>1. restart' = restart /\ At(c, o, "decide")
    BY <1>2 DEF Decide
  <2>2. ASSUME NEW e \in Reason, Emit(c, o, e)
        PROVE  Carries(c, o)'
    BY <1>0, <2>1, <2>2, EmitTypes DEF Carries, Watched, Alive, At
  <2>3. CASE Goto(c, o, "observing")
    BY <1>0, <2>1, <2>3, GotoTypes DEF Carries, Watched, Alive, At, Phase
  <2>4. QED
    BY <1>2, <2>2, <2>3 DEF Decide, Reason, Final
<1>3. CASE Observe(c, o) \/ AbandonPreparation(c, o)
  <2>1. restart' = restart /\ (At(c, o, "observing") \/ At(c, o, "preparing"))
    BY <1>3 DEF Observe, AbandonPreparation
  <2>2. CASE Emit(c, o, "failed")
    BY <1>0, <2>1, <2>2, EmitTypes DEF Carries, Watched, Alive, At, Reason
  <2>3. CASE Goto(c, o, "head")
    BY <1>0, <2>1, <2>3, GotoTypes DEF Carries, Watched, Alive, At, Phase
  <2>4. CASE Goto(c, o, "preparing")
    BY <1>0, <2>1, <2>4, GotoTypes DEF Carries, Watched, Alive, At, Phase
  <2>5. QED
    BY <1>3, <2>2, <2>3, <2>4 DEF Observe, AbandonPreparation
<1>4. CASE Reserve(c, o)
  <2>1. restart' = restart /\ Goto(c, o, "head")
    BY <1>4 DEF Reserve
  <2>2. QED
    BY <1>0, <2>1, GotoTypes DEF Carries, Watched, Alive, At, Phase
<1>5. CASE Refuse(c, o)
  BY <1>5 DEF Refuse
<1>6. CASE Return(c, o)
  <2>1. o \in restart[c] /\ restart' = restart /\ Goto(c, o, "ended")
    BY <1>0, <1>6 DEF Return, Carries, At
  <2>2. QED
    BY <1>0, <2>1, GotoTypes DEF Carries, Watched, At, Phase
<1>7. CASE EmitEvent(c, o)
  <2>1. restart' = restart /\ Goto(c, o, "ended") /\ At(c, o, "emitting")
    BY <1>7 DEF EmitEvent
  <2>2. epoch[o] # worker[c][o].seen
    <3>1. SUFFICES ASSUME epoch[o] = worker[c][o].seen
                   PROVE  FALSE
      OBVIOUS
    <3>2. arming' = [arming EXCEPT ![o] = "stopped"]
      BY <1>7, <3>1 DEF EmitEvent, EndArming
    <3>3. QED
      BY <3>2 DEF IInv, TypeOK, Armed
  <2>3. o \in restart[c]
    BY <1>0, <2>1, <2>2 DEF Carries, At
  <2>4. QED
    BY <1>0, <2>1, <2>3, GotoTypes DEF Carries, Watched, At, Phase
<1>8. CASE Callback(c, o)
  <2>1. o \in restart[c] /\ At(c, o, "ended")
    BY <1>8 DEF Callback, Carries, Watched, Alive, At
  <2>2. Cardinality(Alive(c)) < Limit
    BY <1>0, <2>1 DEF Roomy
  <2>3. worker' = [worker EXCEPT ![c][o] = NewTask]
    BY <1>8, <2>1, <2>2 DEF Callback
  <2>4. worker'[c][o].phase = "head"
    BY <1>0, <2>3, FreshTask
  <2>5. QED
    BY <1>0, <2>4 DEF Carries, Watched, Alive, At
<1>9. QED
  BY <1>1, <1>2, <1>3, <1>4, <1>5, <1>6, <1>7, <1>8 DEF WorkerStep

\* While there is room, every step keeps the promise.
LEMMA CarriedNext ==
  ASSUME IInv, Carried, Roomy, [Next]_vars
  PROVE  Carried'
<1> SUFFICES ASSUME NEW q \in Armed', NEW d \in armer'[q],
                    <<q, epoch'[q]>> \notin lapsed'
             PROVE  Carries(d, q)'
  BY DEF Carried
<1>0. /\ worker \in [Controller -> [Op -> Task]]
      /\ arming \in [Op -> {"none", "armed", "disabled", "stopped"}]
      /\ epoch \in [Op -> 0..MaxEpoch]
      /\ armer \in [Op -> SUBSET Controller]
      /\ restart \in [Controller -> SUBSET Op]
      /\ q \in Op
  BY DEF IInv, TypeOK, Armed
<1>1. ASSUME q \in Armed, d \in armer[q], epoch'[q] = epoch[q],
             lapsed \subseteq lapsed', worker'[d][q] = worker[d][q],
             q \in restart[d] => q \in restart'[d]
      PROVE  Carries(d, q)'
  <2>1. Carries(d, q)
    BY <1>1 DEF Carried
  <2>2. QED
    BY <1>0, <1>1, <2>1, StillCarried
<1>2. CASE UNCHANGED vars
  BY <1>1, <1>2 DEF vars, Armed
<1>3. ASSUME NEW c \in Controller, Boot(c)
      PROVE  Carries(d, q)'
  <2>0. UNCHANGED <<arming, epoch, lapsed, restart>>
    BY <1>3 DEF Boot
  <2>1. q \in Armed
    BY <2>0 DEF Armed
  <2>2. CASE d = c
    <3>1. worker'[d][q] = NewTask
      BY <1>0, <1>3, <2>1, <2>2 DEF Boot
    <3>2. QED
      BY <1>0, <3>1, FreshTask DEF Carries, Watched, Alive, At
  <2>3. CASE d # c
    <3>1. worker'[d] = worker[d]
      BY <1>0, <1>3, <2>3 DEF Boot
    <3>2. armer'[q] = armer[q] \cup {c}
      BY <1>0, <1>3, <2>1 DEF Boot
    <3>3. QED
      BY <1>1, <2>0, <2>1, <2>3, <3>1, <3>2
  <2>4. QED
    BY <2>2, <2>3
<1>4. ASSUME NEW c \in Controller, Shut(c)
      PROVE  Carries(d, q)'
  <2>1. UNCHANGED <<arming, epoch, lapsed>> /\ armer'[q] = armer[q] \ {c}
    BY <1>0, <1>4 DEF Shut
  <2>2. worker'[d] = worker[d] /\ restart'[d] = restart[d]
    BY <1>0, <1>4, <2>1 DEF Shut
  <2>3. QED
    BY <1>1, <2>1, <2>2 DEF Armed
<1>5. ASSUME NEW c \in Controller, NEW o \in Op, Arm(c, o)
      PROVE  Carries(d, q)'
  <2>0. /\ arming' = [arming EXCEPT ![o] = "armed"]
        /\ epoch' = [epoch EXCEPT ![o] = @ + 1]
        /\ armer' = [armer EXCEPT ![o] = {c}]
        /\ Start(c, o) /\ lapsed' = lapsed
    BY <1>5 DEF Arm
  <2>1. CASE q = o
    BY <1>0, <2>0, <2>1, StartCarries
  <2>2. CASE q # o
    <3>1. q \in Armed /\ armer'[q] = armer[q] /\ epoch'[q] = epoch[q]
      BY <1>0, <2>0, <2>2 DEF Armed
    <3>2. QED
      BY <1>0, <1>1, <2>0, <2>2, <3>1, StartCarries
  <2>3. QED
    BY <2>1, <2>2
<1>6. ASSUME NEW c \in Controller, NEW o \in Op, RepeatArm(c, o)
      PROVE  Carries(d, q)'
  <2>0. /\ UNCHANGED <<arming, epoch, lapsed>>
        /\ armer' = [armer EXCEPT ![o] = @ \cup {c}]
        /\ Start(c, o)
    BY <1>6 DEF RepeatArm
  <2>1. CASE <<d, q>> = <<c, o>>
    BY <2>0, <2>1, StartCarries
  <2>2. CASE <<d, q>> # <<c, o>>
    <3>1. q \in Armed /\ d \in armer[q]
      BY <1>0, <2>0, <2>2 DEF Armed
    <3>2. d \in Controller
      BY <1>0, <3>1
    <3>3. QED
      BY <1>0, <1>1, <2>0, <2>2, <3>1, <3>2, StartCarries
  <2>3. QED
    BY <2>1, <2>2
<1>7. ASSUME NEW o \in Op, Disable(o)
      PROVE  Carries(d, q)'
  <2>0. /\ arming' = [arming EXCEPT ![o] = "disabled"]
        /\ UNCHANGED <<epoch, armer, lapsed, worker, restart>>
    BY <1>7 DEF Disable, EndArming
  <2>1. q \in Armed
    BY <1>0, <2>0 DEF Armed
  <2>2. QED
    BY <1>1, <2>0, <2>1
<1>8. ASSUME NEW o \in Op, Lapse(o) \/ PredecessorAnswered(o) \/ ChildMoves(o)
      PROVE  Carries(d, q)'
  <2>0. /\ UNCHANGED <<arming, epoch, armer, worker, restart>>
        /\ lapsed \subseteq lapsed'
    BY <1>8 DEF Lapse, PredecessorAnswered, ChildMoves, rows
  <2>1. QED
    BY <1>1, <2>0 DEF Armed
<1>9. ASSUME NEW c \in Controller, NEW o \in Op, WorkerStep(c, o)
      PROVE  Carries(d, q)'
  <2>0. /\ q \in Armed /\ d \in armer[q] /\ d \in Controller
        /\ epoch' = epoch /\ lapsed' = lapsed
    BY <1>0, <1>9, OthersStand
  <2>1. CASE <<d, q>> = <<c, o>>
    <3>1. Carries(c, o)
      BY <2>0, <2>1 DEF Carried
    <3>2. QED
      BY <1>9, <2>0, <2>1, <3>1, WorkerCarries
  <2>2. CASE <<d, q>> # <<c, o>>
    BY <1>0, <1>1, <1>9, <2>0, <2>2, OthersStand
  <2>3. QED
    BY <2>1, <2>2
<1>10. QED
  BY <1>2, <1>3, <1>4, <1>5, <1>6, <1>7, <1>8, <1>9 DEF Next

\* An arming is carried on by every controller that armed or resumed it, over
\* every race of re-arming with the end of an older worker, as long as there
\* is room for the successor of a worker that ends: the limit on live workers
\* is the only thing that can leave an arming without one.
THEOREM RoomKeepsWatch == Spec /\ []Roomy => []ArmedIsWatched
<1>1. Init => Carried
  BY DEF Init, Carried, Armed
<1>2. IInv /\ Carried /\ Roomy /\ [Next]_vars => Carried'
  BY CarriedNext
<1>3. Carried => ArmedIsWatched
  BY DEF Carried, Carries, ArmedIsWatched
<1>4. QED
  BY <1>1, <1>2, <1>3, QueueInductive, PTL DEF Spec

\* With no more queued submissions than live workers are allowed, there always
\* is room: no arming is left alone.
THEOREM FewAreWatched ==
  ASSUME IsFiniteSet(Op), Cardinality(Op) <= Limit
  PROVE  Spec => []ArmedIsWatched
<1>1. Roomy
  <2> SUFFICES ASSUME NEW c \in Controller, NEW o \in Op, At(c, o, "ended")
               PROVE  Cardinality(Alive(c)) < Limit
    BY DEF Roomy
  <2>1. Alive(c) \subseteq Op \ {o}
    BY DEF Alive, At
  <2>2. /\ IsFiniteSet(Op \ {o})
        /\ Cardinality(Op \ {o}) = Cardinality(Op) - 1
    BY FS_RemoveElement
  <2>3. Cardinality(Alive(c)) <= Cardinality(Op \ {o})
    BY <2>1, <2>2, FS_Subset
  <2>4. Cardinality(Op) \in Nat /\ Cardinality(Alive(c)) \in Nat
    BY <2>1, <2>2, FS_Subset, FS_CardinalityType
  <2>5. QED
    BY <2>2, <2>3, <2>4, LimitAssumption
<1>2. QED
  BY <1>1, RoomKeepsWatch, PTL
=============================================================================
