---------------------------- MODULE AgentProofs ------------------------------
(***************************************************************************)
(* TLAPS proofs about the local agent and its parts, for every set of      *)
(* operation IDs, requests, bodies, processes, agents and calls, and for   *)
(* every bound: the ledger, the answers it gives, one tab of the isolated  *)
(* browser, the pipe, the isolated browsers, and the agents with their     *)
(* releases.  Every part has an inductive invariant, and the agent the     *)
(* theorems at the end.                                                    *)
(*                                                                         *)
(* AtMostOnce and RefusalHonest of the ledger are not inductive: that a    *)
(* handler has not run yet follows from the phase of the one task that may *)
(* run it, and that there is only one follows from the row, which exists   *)
(* as soon as the ID is claimed and is never deleted.  IInv says so.       *)
(***************************************************************************)
EXTENDS MCAgent, Sequences, FiniteSetTheorems, TLAPS

-----------------------------------------------------------------------------
(* The ledger of operations. *)

\* An ID without a row has no trace anywhere; a row is bound to a request.
RowBinding ==
    \A o \in Op :
        /\ state[o] = "absent" =>
              /\ digest[o] = None
              /\ ~restarted[o]
              /\ \A p \in Process : task[p][o] = "none"
              /\ \A a \in Arg : effects[o][a] = 0
        /\ state[o] # "absent" => digest[o] \in Arg /\ claimant[o] \in Process

\* Only the process that inserted the row executes the operation, and only
\* while it is up; a claim in progress belongs to a live process as well.
TaskOwnership ==
    \A p \in Process :
        /\ claiming[p] # None => up[p]
        /\ \A o \in Op : task[p][o] # "none" => claimant[o] = p /\ up[p]

\* Effects are of the bound request, at most one, and none while the task
\* has not dispatched.
EffectAccount ==
    \A o \in Op :
        /\ \A a \in Arg : /\ effects[o][a] \in {0, 1}
                          /\ effects[o][a] = 1 => digest[o] = a
        /\ \A p \in Process : /\ task[p][o] = "created" =>
                                    \A a \in Arg : effects[o][a] = 0
                              /\ task[p][o] = "dispatched" =>
                                    \E a \in Arg : effects[o][a] = 1

\* Why a refusal of the agent stays true: the row is bound to another
\* request, or the only task the row will ever have is over.
RefusalGround ==
    Exclusive = TRUE => \A r \in answers : r.dispatched = "no" =>
        /\ effects[r.op][r.arg] = 0
        /\ state[r.op] # "absent"
        /\ \/ digest[r.op] # r.arg
           \/ \A p \in Process : task[p][r.op] = "none"

IInv ==
    /\ TypeOK
    /\ RowBinding
    /\ TaskOwnership
    /\ EffectAccount
    /\ RefusalGround

\* An empty directory satisfies the invariant.
LEMMA InitIInv == Init => IInv
  BY ConstantAssumption
  DEF Init, IInv, TypeOK, RowBinding, TaskOwnership, EffectAccount,
      RefusalGround, RowState, Terminal, TaskPhase, Answer

-----------------------------------------------------------------------------
(* One lemma per group of actions: each preserves IInv. *)

\* Recovery closes running rows and touches no task or effect.
LEMMA OpenPreserves ==
  ASSUME IInv, NEW p \in Process, OpenLedger(p)
  PROVE  IInv'
<1> USE ConstantAssumption
        DEF OpenLedger, Recover, Unfinished, rowVars, history, RowState, Terminal
<1>1. TypeOK'
  BY DEF IInv, TypeOK
<1>2. RowBinding'
  BY DEF IInv, TypeOK, RowBinding
<1>3. TaskOwnership'
  BY DEF IInv, TypeOK, TaskOwnership
<1>4. EffectAccount'
  BY DEF IInv, TypeOK, EffectAccount
<1>5. RefusalGround'
  BY DEF IInv, TypeOK, RefusalGround, Answer
<1>6. QED
  BY <1>1, <1>2, <1>3, <1>4, <1>5 DEF IInv

\* A claim binds an absent ID to one request and one task.
LEMMA ClaimPreserves ==
  ASSUME IInv, NEW p \in Process, NEW o \in Op, NEW a \in Arg,
         \/ ClaimLookup(p, o, a)
         \/ ClaimNew(p, o, a)
         \/ ClaimCollision(p, o, a)
         \/ ClaimConflict(p, o, a)
  PROVE  IInv'
<1> USE ConstantAssumption DEF rowVars, history, Ready
<1>0. <<o, a>> \in Op \X Arg /\ <<o, a>> # None
  OBVIOUS
<1>1. CASE ClaimLookup(p, o, a) \/ ClaimCollision(p, o, a)
  <2>1. UNCHANGED <<state, digest, result, restarted, bodies, up, task,
                    claimant, lost, effects, answers>>
    BY <1>1 DEF ClaimLookup, ClaimCollision
  <2>2. PICK v \in {<<o, a>>, None} : claiming' = [claiming EXCEPT ![p] = v]
    BY <1>1 DEF ClaimLookup, ClaimCollision
  <2>3. claiming' \in [Process -> (Op \X Arg) \cup {None}]
    BY <1>0, <2>2 DEF IInv, TypeOK
  <2>4. up[p]
    BY <1>0, <1>1 DEF IInv, TaskOwnership, ClaimLookup, ClaimCollision
  <2>5. TypeOK'
    BY <2>1, <2>3 DEF IInv, TypeOK
  <2>6. TaskOwnership'
    BY <2>1, <2>2, <2>4 DEF IInv, TypeOK, TaskOwnership
  <2>7. QED
    BY <2>1, <2>5, <2>6
    DEF IInv, RowBinding, EffectAccount, RefusalGround
<1>2. CASE ClaimNew(p, o, a)
  <2> USE <1>2 DEF ClaimNew, InsertRow
  <2>0. up[p]
    BY <1>0 DEF IInv, TaskOwnership
  <2>1. TypeOK'
    BY DEF IInv, TypeOK, RowState, TaskPhase
  <2>2. RowBinding'
    BY DEF IInv, TypeOK, RowBinding
  <2>3. TaskOwnership'
    BY <2>0 DEF IInv, TypeOK, RowBinding, TaskOwnership
  <2>4. EffectAccount'
    BY DEF IInv, TypeOK, RowBinding, EffectAccount
  <2>5. RefusalGround'
    BY DEF IInv, TypeOK, RefusalGround, Answer
  <2>6. QED
    BY <2>1, <2>2, <2>3, <2>4, <2>5 DEF IInv
<1>3. CASE ClaimConflict(p, o, a)
  <2> USE <1>3 DEF ClaimConflict, Refusal
  <2>1. TypeOK'
    BY DEF IInv, TypeOK, Answer, Terminal
  <2>2. RowBinding' /\ TaskOwnership' /\ EffectAccount'
    BY DEF IInv, RowBinding, TaskOwnership, EffectAccount
  <2>3. RefusalGround'
    BY DEF IInv, TypeOK, RefusalGround, EffectAccount, Answer
  <2>4. QED
    BY <2>1, <2>2, <2>3 DEF IInv
<1>4. QED
  BY <1>1, <1>2, <1>3

\* A saved answer is only read.
LEMMA AnswerPreserves ==
  ASSUME IInv, NEW p \in Process, NEW o \in Op,
         ClaimReplay(p, o) \/ OperationsGet(p, o)
  PROVE  IInv'
<1> USE ConstantAssumption
        DEF ClaimReplay, OperationsGet, rowVars, history, SavedReply
<1>1. digest[o] \in Arg /\ state[o] \in Terminal
  BY DEF IInv, RowBinding, Terminal
<1>2. TypeOK'
  BY <1>1 DEF IInv, TypeOK, Answer, Terminal
<1>3. RowBinding' /\ TaskOwnership' /\ EffectAccount'
  BY DEF IInv, RowBinding, TaskOwnership, EffectAccount
<1>4. RefusalGround'
  <2>1. SavedReply(o, digest[o]).dispatched = "maybe"
    OBVIOUS
  <2>2. \A r \in answers' : r.dispatched = "no" => r \in answers
    BY <2>1
  <2>3. QED
    BY <2>2 DEF IInv, RefusalGround
<1>5. QED
  BY <1>2, <1>3, <1>4 DEF IInv

\* The one task of a row applies the effect of the bound request.
LEMMA DispatchPreserves ==
  ASSUME IInv, NEW p \in Process, NEW o \in Op, DispatchHandler(p, o)
  PROVE  IInv'
<1> USE ConstantAssumption DEF DispatchHandler, rowVars, history
<1>1. /\ state[o] # "absent"
      /\ digest[o] \in Arg
      /\ \A a \in Arg : effects[o][a] = 0
      /\ \A q \in Process : q # p => task[q][o] = "none"
  BY DEF IInv, TypeOK, RowBinding, TaskOwnership, EffectAccount, TaskPhase
<1>2. effects' = [effects EXCEPT ![o] = [effects[o] EXCEPT ![digest[o]] = 1]]
  <2>1. effects[o][digest[o]] + 1 = 1
    BY <1>1
  <2>2. QED
    BY <2>1
<1>3. TypeOK'
  BY <1>1, <1>2 DEF IInv, TypeOK, TaskPhase
<1>4. RowBinding'
  BY <1>1, <1>2 DEF IInv, TypeOK, RowBinding
<1>5. TaskOwnership'
  BY <1>1 DEF IInv, TypeOK, TaskOwnership
<1>6. EffectAccount'
  BY <1>1, <1>2 DEF IInv, TypeOK, EffectAccount
<1>7. RefusalGround'
  <2> SUFFICES ASSUME Exclusive = TRUE, NEW r \in answers, r.dispatched = "no"
               PROVE  /\ effects'[r.op][r.arg] = 0
                      /\ state[r.op] # "absent"
                      /\ \/ digest[r.op] # r.arg
                         \/ \A q \in Process : task'[q][r.op] = "none"
    BY DEF RefusalGround
  <2>1. /\ effects[r.op][r.arg] = 0
        /\ state[r.op] # "absent"
        /\ \/ digest[r.op] # r.arg
           \/ \A q \in Process : task[q][r.op] = "none"
    BY DEF IInv, RefusalGround
  <2>2. r.op \in Op /\ r.arg \in Arg
    BY DEF IInv, TypeOK, Answer
  <2>3. CASE r.op = o
    <3>1. digest[o] # r.arg
      BY <2>1, <2>3
    <3>2. effects'[o][r.arg] = effects[o][r.arg]
      BY <1>2, <2>2, <3>1 DEF IInv, TypeOK
    <3>3. QED
      BY <2>1, <2>3, <3>1, <3>2
  <2>4. CASE r.op # o
    <3>1. effects'[r.op] = effects[r.op]
      BY <1>2, <2>2, <2>4 DEF IInv, TypeOK
    <3>2. \A q \in Process : task'[q][r.op] = task[q][r.op]
      BY <2>2, <2>4 DEF IInv, TypeOK
    <3>3. QED
      BY <2>1, <3>1, <3>2
  <2>5. QED
    BY <2>3, <2>4
<1>8. QED
  BY <1>3, <1>4, <1>5, <1>6, <1>7 DEF IInv

\* A task that ends records its reply and is over.
LEMMA FinishPreserves ==
  ASSUME IInv, NEW p \in Process, NEW o \in Op,
         NEW s \in Terminal, NEW d \in {"no", "maybe"},
         NEW b \in Body \cup {Notice},
         task[p][o] # "none",
         d = "no" /\ Exclusive = TRUE => task[p][o] = "created",
         Finish(p, o, s, d, b)
  PROVE  IInv'
<1> USE ConstantAssumption DEF Finish, Store
<1>1. /\ state[o] # "absent"
      /\ digest[o] \in Arg
      /\ \A q \in Process : q # p => task[q][o] = "none"
  BY DEF IInv, TypeOK, RowBinding, TaskOwnership, TaskPhase
<1>2. TypeOK'
  BY <1>1 DEF IInv, TypeOK, TaskPhase, RowState, Answer
<1>3. RowBinding'
  BY <1>1 DEF IInv, TypeOK, RowBinding, Terminal
<1>4. TaskOwnership'
  BY DEF IInv, TypeOK, TaskOwnership
<1>5. EffectAccount'
  BY DEF IInv, TypeOK, EffectAccount
<1>6. RefusalGround'
  <2>1. \A q \in Process : task'[q][o] = "none"
    BY <1>1 DEF IInv, TypeOK
  <2>2. d = "no" /\ Exclusive = TRUE => effects[o][digest[o]] = 0
    BY <1>1 DEF IInv, EffectAccount
  <2>3. state'[o] # "absent"
    BY DEF IInv, TypeOK, Terminal
  <2>4. QED
    BY <2>1, <2>2, <2>3, <1>1
    DEF IInv, TypeOK, RefusalGround, Answer, Terminal
<1>7. QED
  BY <1>2, <1>3, <1>4, <1>5, <1>6 DEF IInv

\* A task that ends without a record leaves the row running.
LEMMA FinishLostPreserves ==
  ASSUME IInv, NEW p \in Process, NEW o \in Op, FinishLost(p, o)
  PROVE  IInv'
<1> USE ConstantAssumption DEF FinishLost, rowVars, history
<1>1. TypeOK'
  BY DEF IInv, TypeOK, TaskPhase
<1>2. RowBinding' /\ TaskOwnership' /\ EffectAccount'
  BY DEF IInv, TypeOK, RowBinding, TaskOwnership, EffectAccount
<1>3. RefusalGround'
  BY DEF IInv, TypeOK, RefusalGround, Answer
<1>4. QED
  BY <1>1, <1>2, <1>3 DEF IInv

\* Expiry removes bodies, never rows.
LEMMA ExpirePreserves ==
  ASSUME IInv, NEW p \in Process, NEW keep \in SUBSET Op,
         ExpireResults(p, keep)
  PROVE  IInv'
<1>1. TypeOK'
  BY DEF IInv, TypeOK, ExpireResults, history
<1>2. QED
  BY <1>1 DEF IInv, ExpireResults, history, RowBinding, TaskOwnership,
              EffectAccount, RefusalGround

\* A process that closes or dies takes its tasks with it.
LEMMA LeavePreserves ==
  ASSUME IInv, NEW p \in Process, Close(p) \/ Crash(p)
  PROVE  IInv'
<1> USE ConstantAssumption DEF Leave, rowVars
<1>1. TypeOK'
  <2>1. up' \in [Process -> BOOLEAN] /\ lost' \in [Op -> BOOLEAN]
    <3>1. /\ up' = [up EXCEPT ![p] = FALSE]
          /\ lost' = [o \in Op |-> lost[o] \/ claimant[o] = p]
      BY DEF Close, Crash
    <3>2. lost' \in [Op -> BOOLEAN]
      BY <3>1, Zenon
    <3>3. up' \in [Process -> BOOLEAN]
      BY <3>1 DEF IInv, TypeOK
    <3>4. QED
      BY <3>2, <3>3
  <2>2. claiming' \in [Process -> (Op \X Arg) \cup {None}]
    BY DEF IInv, TypeOK, Close, Crash
  <2>3. task' \in [Process -> [Op -> TaskPhase]]
    <3>1. CASE Close(p)
      BY <3>1 DEF IInv, TypeOK, Close
    <3>2. CASE Crash(p)
      <4>1. [x \in Op |-> "none"] \in [Op -> TaskPhase]
        BY DEF TaskPhase
      <4>2. task' = [task EXCEPT ![p] = [x \in Op |-> "none"]]
        BY <3>2 DEF Crash
      <4>3. QED
        BY <4>1, <4>2 DEF IInv, TypeOK
    <3>3. QED
      BY <3>1, <3>2
  <2>4. QED
    BY <2>1, <2>2, <2>3 DEF IInv, TypeOK, Close, Crash
<1>2. \A q \in Process, o \in Op :
         task'[q][o] = IF q = p THEN "none" ELSE task[q][o]
  BY DEF IInv, TypeOK, Close, Crash
<1>3. UNCHANGED <<state, digest, restarted, claimant, effects, answers>>
  BY DEF Close, Crash
<1>4. RowBinding' /\ EffectAccount'
  BY <1>2, <1>3 DEF IInv, RowBinding, EffectAccount
<1>5. TaskOwnership'
  <2>1. \A q \in Process : claiming'[q] # None => q # p /\ claiming[q] # None
    BY DEF IInv, TypeOK, Close, Crash, Ready
  <2>2. \A q \in Process : q # p => up'[q] = up[q]
    BY DEF IInv, TypeOK, Close, Crash
  <2>3. QED
    BY <1>2, <1>3, <2>1, <2>2 DEF IInv, TaskOwnership
<1>6. RefusalGround'
  BY <1>2, <1>3 DEF IInv, TypeOK, RefusalGround, Answer
<1>7. QED
  BY <1>1, <1>4, <1>5, <1>6 DEF IInv

\* Every step of the specification preserves the inductive invariant.
LEMMA NextIInv == IInv /\ [Next]_vars => IInv'
<1> SUFFICES ASSUME IInv, [Next]_vars PROVE IInv'
  OBVIOUS
<1>1. ASSUME NEW p \in Process, OpenLedger(p) \/ Close(p) \/ Crash(p)
      PROVE  IInv'
  BY <1>1, OpenPreserves, LeavePreserves
<1>2. ASSUME NEW p \in Process, NEW o \in Op, NEW a \in Arg,
             \/ ClaimLookup(p, o, a)
             \/ ClaimNew(p, o, a)
             \/ ClaimCollision(p, o, a)
             \/ ClaimConflict(p, o, a)
      PROVE  IInv'
  BY <1>2, ClaimPreserves
<1>3. ASSUME NEW p \in Process, NEW o \in Op,
             ClaimReplay(p, o) \/ OperationsGet(p, o)
      PROVE  IInv'
  BY <1>3, AnswerPreserves
<1>4. ASSUME NEW p \in Process, NEW o \in Op, DispatchHandler(p, o)
      PROVE  IInv'
  BY <1>4, DispatchPreserves
<1>5. ASSUME NEW p \in Process, NEW o \in Op, FinishPreflight(p, o)
      PROVE  IInv'
  <2>1. /\ task[p][o] # "none"
        /\ Exclusive = TRUE => task[p][o] = "created"
        /\ Finish(p, o, "failed", "no", Notice)
    BY <1>5, ConstantAssumption DEF FinishPreflight, Refusable
  <2>2. QED
    BY <2>1, FinishPreserves DEF Terminal
<1>6. ASSUME NEW p \in Process, NEW o \in Op, NEW s \in {"failed", "unknown"},
             FinishUncertain(p, o, s)
      PROVE  IInv'
  <2>1. task[p][o] # "none" /\ Finish(p, o, s, "maybe", Notice)
    BY <1>6 DEF FinishUncertain
  <2>2. QED
    BY <2>1, FinishPreserves DEF Terminal
<1>7. ASSUME NEW p \in Process, NEW o \in Op, NEW b \in Body,
             FinishCompleted(p, o, b)
      PROVE  IInv'
  <2>1. task[p][o] # "none" /\ Finish(p, o, "completed", "maybe", b)
    BY <1>7 DEF FinishCompleted
  <2>2. QED
    BY <2>1, FinishPreserves DEF Terminal
<1>8. ASSUME NEW p \in Process, NEW o \in Op, FinishLost(p, o)
      PROVE  IInv'
  BY <1>8, FinishLostPreserves
<1>9. ASSUME NEW p \in Process, NEW keep \in SUBSET Op,
             ExpireResults(p, keep)
      PROVE  IInv'
  BY <1>9, ExpirePreserves
<1>10. CASE UNCHANGED vars
  BY <1>10 DEF vars, IInv, TypeOK, RowBinding, TaskOwnership, EffectAccount,
               RefusalGround
<1>11. QED
  BY <1>1, <1>2, <1>3, <1>4, <1>5, <1>6, <1>7, <1>8, <1>9, <1>10
  DEF Next, ClaimInsert

\* The inductive invariant holds in every reachable state.
THEOREM Inductive == Spec => []IInv
  BY InitIInv, NextIInv, PTL DEF Spec

\* Every variable keeps its type: operations.sqlite3 rows and engine tasks.
THEOREM TypeCorrect == Spec => []TypeOK
<1>1. IInv => TypeOK
  BY DEF IInv
<1>2. QED
  BY <1>1, Inductive, PTL

\* Engine.execute applies the side effect of an operation ID at most once,
\* whatever the number of processes, duplicate calls, crashes and expiries,
\* and whether or not a process lock guards the directory.
THEOREM EffectOnce == Spec => []AtMostOnce
<1>1. IInv => AtMostOnce
  BY DEF IInv, EffectAccount, AtMostOnce
<1>2. QED
  BY <1>1, Inductive, PTL

\* A reply of the agent with dispatched = False stays true for ever.
THEOREM RefusalsHold ==
  ASSUME Exclusive = TRUE
  PROVE  Spec => []RefusalHonest
<1>1. IInv => RefusalHonest
  BY DEF IInv, RefusalGround, RefusalHonest
<1>2. QED
  BY <1>1, Inductive, PTL

-----------------------------------------------------------------------------
(***************************************************************************)
(* Under the process lock: recovery never meets a live task, so a row that *)
(* blames a restart is right, and the ledger keeps the abstract promise.   *)
(***************************************************************************)

\* At most one process is up, a row it claimed is not lost, a row with a
\* task is still running, and a dispatched row has been applied.
LockInv ==
    /\ \A p, q \in Process : up[p] /\ up[q] => p = q
    /\ \A o \in Op :
          /\ state[o] # "absent" => lost[o] \/ up[claimant[o]]
          /\ restarted[o] => lost[o]
          /\ \A p \in Process : task[p][o] # "none" => state[o] = "running"

\* No process is up at first.
LEMMA InitLockInv == Init => LockInv
  BY DEF Init, LockInv

\* With the process lock every step keeps at most one owner.
LEMMA NextLockInv ==
  ASSUME Exclusive = TRUE
  PROVE  IInv /\ LockInv /\ [Next]_vars => LockInv'
<1> SUFFICES ASSUME IInv, LockInv, [Next]_vars PROVE LockInv'
  OBVIOUS
<1> USE DEF IInv, TypeOK, LockInv, rowVars, history
<1>1. ASSUME NEW p \in Process, OpenLedger(p) PROVE LockInv'
  <2>1. \A q \in Process : ~up[q]
    BY <1>1 DEF OpenLedger
  <2>2. \A q \in Process, o \in Op : task[q][o] = "none"
    BY <2>1 DEF TaskOwnership
  <2>3. \A o \in Op : state[o] # "absent" => lost[o]
    BY <2>1 DEF RowBinding
  <2>4. \A o \in Op : restarted'[o] => lost[o]
    BY <1>1, <2>3 DEF OpenLedger, Recover, Unfinished
  <2>5. \A o \in Op : state'[o] # "absent" => lost[o]
    BY <1>1, <2>3 DEF OpenLedger, Recover, Unfinished
  <2>6. QED
    BY <1>1, <2>1, <2>2, <2>4, <2>5 DEF OpenLedger
<1>2. ASSUME NEW p \in Process, NEW o \in Op, NEW a \in Arg,
             ClaimNew(p, o, a)
      PROVE  LockInv'
  <2>1. up[p]
    <3>1. <<o, a>> \in Op \X Arg /\ <<o, a>> # None
      BY ConstantAssumption
    <3>2. claiming[p] # None
      BY <1>2, <3>1 DEF ClaimNew
    <3>3. QED
      BY <3>2 DEF TaskOwnership
  <2>2. QED
    BY <1>2, <2>1 DEF ClaimNew, InsertRow, RowBinding
<1>3. ASSUME NEW p \in Process, NEW o \in Op, NEW a \in Arg,
             \/ ClaimLookup(p, o, a)
             \/ ClaimCollision(p, o, a)
             \/ ClaimConflict(p, o, a)
      PROVE  LockInv'
  BY <1>3 DEF ClaimLookup, ClaimCollision, ClaimConflict
<1>4. ASSUME NEW p \in Process, NEW o \in Op,
             ClaimReplay(p, o) \/ OperationsGet(p, o)
      PROVE  LockInv'
  BY <1>4 DEF ClaimReplay, OperationsGet
<1>5. ASSUME NEW p \in Process, NEW o \in Op,
             DispatchHandler(p, o) \/ FinishLost(p, o)
      PROVE  LockInv'
  <2>1. \A q \in Process, x \in Op : task'[q][x] # "none" => task[q][x] # "none"
    BY <1>5 DEF DispatchHandler, FinishLost
  <2>2. UNCHANGED <<state, restarted, up, claimant, lost>>
    BY <1>5 DEF DispatchHandler, FinishLost
  <2>3. QED
    BY <2>1, <2>2
<1>6. ASSUME NEW p \in Process, NEW o \in Op, NEW s \in Terminal,
             NEW d \in {"no", "maybe"}, NEW b \in Body \cup {Notice},
             task[p][o] # "none", Finish(p, o, s, d, b)
      PROVE  LockInv'
  <2>1. \A q \in Process : q # p => task[q][o] = "none"
    BY <1>6 DEF TaskOwnership
  <2>2. state[o] = "running"
    BY <1>6
  <2>3. QED
    BY <1>6, <2>1, <2>2 DEF Finish, Store, Terminal
<1>7. ASSUME NEW p \in Process, Close(p) \/ Crash(p) PROVE LockInv'
  <2>1. \A q \in Process : up'[q] => up[q] /\ q # p
    BY <1>7 DEF Close, Crash, Leave
  <2>2. \A q \in Process, o \in Op : task'[q][o] # "none" => task[q][o] # "none"
    <3>1. CASE Close(p)
      BY <3>1 DEF Close
    <3>2. CASE Crash(p)
      BY <3>2 DEF Crash
    <3>3. QED
      BY <1>7, <3>1, <3>2
  <2>3. \A o \in Op : lost'[o] <=> (lost[o] \/ claimant[o] = p)
    BY <1>7 DEF Close, Crash, Leave
  <2>4. \A q \in Process : q # p => up'[q] = up[q]
    BY <1>7 DEF Close, Crash, Leave
  <2>5. UNCHANGED <<state, restarted, claimant>>
    BY <1>7 DEF Close, Crash, Leave
  <2>6. QED
    BY <2>1, <2>2, <2>3, <2>4, <2>5 DEF RowBinding
<1>8. ASSUME NEW p \in Process, NEW keep \in SUBSET Op,
             ExpireResults(p, keep)
      PROVE  LockInv'
  BY <1>8 DEF ExpireResults
<1>9. ASSUME NEW p \in Process, NEW o \in Op,
             \/ FinishPreflight(p, o)
             \/ \E s \in {"failed", "unknown"} : FinishUncertain(p, o, s)
             \/ \E b \in Body : FinishCompleted(p, o, b)
      PROVE  LockInv'
  <2>1. ASSUME FinishPreflight(p, o) PROVE LockInv'
    BY <2>1, <1>6 DEF FinishPreflight, Refusable, Terminal
  <2>2. ASSUME NEW s \in {"failed", "unknown"}, FinishUncertain(p, o, s)
        PROVE  LockInv'
    <3>1. task[p][o] # "none" /\ Finish(p, o, s, "maybe", Notice)
      BY <2>2 DEF FinishUncertain
    <3>2. QED
      BY <3>1, <1>6 DEF Terminal
  <2>3. ASSUME NEW b \in Body, FinishCompleted(p, o, b) PROVE LockInv'
    <3>1. task[p][o] # "none" /\ Finish(p, o, "completed", "maybe", b)
      BY <2>3 DEF FinishCompleted
    <3>2. QED
      BY <3>1, <1>6 DEF Terminal
  <2>4. QED
    BY <1>9, <2>1, <2>2, <2>3
<1>10. CASE UNCHANGED vars
  BY <1>10 DEF vars
<1>11. QED
  BY <1>1, <1>2, <1>3, <1>4, <1>5, <1>7, <1>8, <1>9, <1>10 DEF Next, ClaimInsert

\* When agent.lock is held from Ledger() to close(), only a process that
\* stopped can have its rows marked "Agent restarted".
THEOREM RestartsHonest ==
  ASSUME Exclusive = TRUE
  PROVE  Spec => []RestartHonest
<1>1. LockInv => RestartHonest
  BY DEF LockInv, RestartHonest
<1>2. IInv /\ LockInv /\ [Next]_vars => LockInv'
  BY NextLockInv
<1>3. QED
  BY <1>1, <1>2, InitLockInv, Inductive, PTL DEF Spec

\* Under the lock at most one process is up and a task's row is running.
THEOREM LockInductive ==
  ASSUME Exclusive = TRUE
  PROVE  Spec => []LockInv
<1>1. IInv /\ LockInv /\ [Next]_vars => LockInv'
  BY NextLockInv
<1>2. QED
  BY <1>1, InitLockInv, Inductive, PTL DEF Spec

-----------------------------------------------------------------------------
(***************************************************************************)
(* Refinement.  A claim is Bind, a dispatch is Apply, the end of a task is *)
(* Settle, a recovery is SettleAll; every other step changes nothing the   *)
(* promise can see.                                                        *)
(***************************************************************************)
\* Recovery settles every open operation of the promise at once.
LEMMA OpenRefines ==
  ASSUME IInv, NEW p \in Process, OpenLedger(p)
  PROVE  Promise!SettleAll
<1> USE DEF IInv, TypeOK, OpenLedger, Recover, Unfinished, history
<1>1. Applied' = Applied
  BY DEF Applied
<1>2. \A o \in Op : state[o] = "running" <=> digest[o] # None /\ Verdict[o] = "open"
  BY ConstantAssumption DEF RowBinding, Verdict, Terminal, RowState
<1>3. Verdict' = [o \in Op |-> IF digest[o] # None /\ Verdict[o] = "open"
                               THEN "unknown" ELSE Verdict[o]]
  <2>1. Verdict' = [o \in Op |-> IF state[o] = "running" THEN "unknown"
                                 ELSE Verdict[o]]
    BY DEF Verdict, Terminal
  <2>2. QED
    BY <1>2, <2>1
<1>4. QED
  BY <1>1, <1>3 DEF Promise!SettleAll

\* A recorded reply settles its operation, once.
LEMMA FinishRefines ==
  ASSUME IInv, LockInv, NEW p \in Process, NEW o \in Op, NEW s \in Terminal,
         NEW d \in {"no", "maybe"}, NEW b \in Body \cup {Notice},
         task[p][o] # "none", s = "completed" => task[p][o] = "dispatched",
         Finish(p, o, s, d, b)
  PROVE  Promise!Settle(o, s)
<1> USE DEF IInv, TypeOK, Finish, Store
<1>1. state[o] = "running"
  BY DEF LockInv
<1>2. digest[o] # None
  BY <1>1, ConstantAssumption DEF RowBinding
<1>3. Applied' = Applied
  BY DEF Applied
<1>4. Verdict[o] = "open"
  BY <1>1 DEF Verdict, Terminal
<1>5. Verdict' = [Verdict EXCEPT ![o] = s]
  BY DEF Verdict
<1>6. s = "completed" => o \in Applied
  BY DEF EffectAccount, Applied
<1>7. QED
  BY <1>2, <1>3, <1>4, <1>5, <1>6 DEF Promise!Settle

\* The side effect is the promise's Apply.
LEMMA DispatchRefines ==
  ASSUME IInv, LockInv, NEW p \in Process, NEW o \in Op, DispatchHandler(p, o)
  PROVE  Promise!Apply(o)
<1> USE DEF IInv, TypeOK, DispatchHandler, rowVars
<1>1. /\ state[o] = "running"
      /\ digest[o] \in Arg
      /\ \A a \in Arg : effects[o][a] = 0
  BY DEF LockInv, RowBinding, EffectAccount
<1>2. effects' = [effects EXCEPT ![o] = [effects[o] EXCEPT ![digest[o]] = 1]]
  <2>1. effects[o][digest[o]] + 1 = 1
    BY <1>1
  <2>2. QED
    BY <2>1
<1>3. o \notin Applied
  BY <1>1 DEF Applied
<1>4. Applied' = Applied \cup {o}
  <2>1. \A x \in Op : x # o => effects'[x] = effects[x]
    BY <1>2
  <2>2. effects'[o][digest[o]] = 1
    BY <1>1, <1>2
  <2>3. o \in Applied'
    BY <1>1, <2>2 DEF Applied
  <2>4. QED
    BY <2>1, <2>3 DEF Applied
<1>5. UNCHANGED <<digest, Verdict>>
  BY DEF Verdict
<1>6. digest[o] # None /\ Verdict[o] = "open"
  BY <1>1, ConstantAssumption DEF Verdict, Terminal
<1>7. QED
  BY <1>3, <1>4, <1>5, <1>6 DEF Promise!Apply

\* The inserted row is the promise's Bind.
LEMMA ClaimRefines ==
  ASSUME IInv, NEW p \in Process, NEW o \in Op, NEW a \in Arg,
         ClaimNew(p, o, a)
  PROVE  Promise!Bind(o, a)
<1> USE DEF IInv, TypeOK, ClaimNew, InsertRow
<1>1. digest[o] = None
  BY DEF RowBinding
<1>2. Applied' = Applied
  BY DEF Applied
<1>3. Verdict' = Verdict
  BY DEF Verdict, Terminal
<1>4. QED
  BY <1>1, <1>2, <1>3 DEF Promise!Bind

\* Every step of the ledger is a step of the promise or leaves it alone.
LEMMA StepRefines ==
  ASSUME Exclusive = TRUE
  PROVE  IInv /\ LockInv /\ [Next]_vars => [Promise!Next]_(Promise!pvars)
<1> SUFFICES ASSUME IInv, LockInv, [Next]_vars
             PROVE  [Promise!Next]_(Promise!pvars)
  OBVIOUS
<1> USE DEF Promise!Next
<1>1. ASSUME NEW p \in Process, OpenLedger(p) PROVE Promise!Next
  BY <1>1, OpenRefines
<1>2. ASSUME NEW p \in Process, NEW o \in Op, NEW a \in Arg,
             ClaimNew(p, o, a)
      PROVE  Promise!Next
  BY <1>2, ClaimRefines
<1>3. ASSUME NEW p \in Process, NEW o \in Op, DispatchHandler(p, o)
      PROVE  Promise!Next
  BY <1>3, DispatchRefines
<1>4. ASSUME NEW p \in Process, NEW o \in Op, FinishPreflight(p, o)
      PROVE  Promise!Next
  <2>1. Promise!Settle(o, "failed")
    BY <1>4, FinishRefines DEF FinishPreflight, Refusable, Terminal
  <2>2. QED
    BY <2>1
<1>5. ASSUME NEW p \in Process, NEW o \in Op, NEW s \in {"failed", "unknown"},
             FinishUncertain(p, o, s)
      PROVE  Promise!Next
  <2>1. task[p][o] # "none" /\ Finish(p, o, s, "maybe", Notice)
    BY <1>5 DEF FinishUncertain
  <2>2. Promise!Settle(o, s)
    BY <2>1, FinishRefines DEF Terminal
  <2>3. QED
    BY <2>2
<1>6. ASSUME NEW p \in Process, NEW o \in Op, NEW b \in Body,
             FinishCompleted(p, o, b)
      PROVE  Promise!Next
  <2>1. task[p][o] = "dispatched" /\ Finish(p, o, "completed", "maybe", b)
    BY <1>6 DEF FinishCompleted
  <2>2. Promise!Settle(o, "completed")
    BY <2>1, FinishRefines DEF Terminal
  <2>3. QED
    BY <2>2
<1>7. ASSUME UNCHANGED <<state, digest, effects>>
      PROVE  UNCHANGED Promise!pvars
  BY <1>7 DEF Promise!pvars, Applied, Verdict
<1>8. ASSUME \/ UNCHANGED vars
             \/ \E p \in Process : Close(p) \/ Crash(p)
             \/ \E p \in Process, o \in Op, a \in Arg :
                   \/ ClaimLookup(p, o, a)
                   \/ ClaimCollision(p, o, a)
                   \/ ClaimConflict(p, o, a)
             \/ \E p \in Process, o \in Op :
                   \/ ClaimReplay(p, o)
                   \/ OperationsGet(p, o)
                   \/ FinishLost(p, o)
             \/ \E p \in Process, keep \in SUBSET Op : ExpireResults(p, keep)
      PROVE  UNCHANGED <<state, digest, effects>>
  BY <1>8
  DEF vars, rowVars, history, Close, Crash, Leave, ClaimLookup, ClaimCollision,
      ClaimConflict, ClaimReplay, OperationsGet, FinishLost, ExpireResults
<1>9. QED
  BY <1>1, <1>2, <1>3, <1>4, <1>5, <1>6, <1>7, <1>8 DEF Next, ClaimInsert

\* The agent's ledger implements the promise made to its callers.
THEOREM PromiseKept ==
  ASSUME Exclusive = TRUE
  PROVE  Spec => KeepsPromise
<1>1. Init => Promise!PromiseInit
  BY DEF Init, Promise!PromiseInit, Applied, Verdict, Terminal
<1>2. IInv /\ LockInv /\ [Next]_vars => [Promise!Next]_(Promise!pvars)
  BY StepRefines
<1>3. QED
  BY <1>1, <1>2, Inductive, LockInductive, PTL
  DEF Spec, KeepsPromise, Promise!Spec

-----------------------------------------------------------------------------
(* The answers of the ledger. *)

\* An answer to the request that the row is bound to repeats the row, which is
\* settled; any other answer refused another request.
AnswerGround ==
    \A r \in answers :
        /\ state[r.op] # "absent"
        /\ r.arg = digest[r.op] => /\ state[r.op] \in Terminal /\ r.state = state[r.op]
                                   /\ r.data \in {result[r.op], Expired}
        /\ r.arg # digest[r.op] => r.state = "failed" /\ r.data = Notice

\* What leaves the rows and the answers alone leaves them in agreement.
LEMMA GroundStays ==
  ASSUME AnswerGround, UNCHANGED <<state, digest, result, answers>>
  PROVE  AnswerGround'
  BY DEF AnswerGround

\* An answer given now, and a row that no answer is about or that only gains one.
LEMMA GroundGrows ==
  ASSUME IInv, AnswerGround, NEW o \in Op, NEW r \in Answer, r.op = o,
         answers' = answers \cup {r},
         \A x \in Op : x # o => /\ state'[x] = state[x] /\ digest'[x] = digest[x]
                                /\ result'[x] = result[x],
         digest'[o] = digest[o], state'[o] # "absent",
         r.arg # digest[o] => r.state = "failed" /\ r.data = Notice,
         r.arg = digest[o] => /\ state'[o] \in Terminal /\ r.state = state'[o]
                              /\ r.data \in {result'[o], Expired},
         \/ state'[o] = state[o] /\ result'[o] = result[o]
         \/ state[o] \notin Terminal
  PROVE  AnswerGround'
<1> SUFFICES ASSUME NEW q \in answers'
             PROVE  /\ state'[q.op] # "absent"
                    /\ q.arg = digest'[q.op] => /\ state'[q.op] \in Terminal /\ q.state = state'[q.op]
                                                /\ q.data \in {result'[q.op], Expired}
                    /\ q.arg # digest'[q.op] => q.state = "failed" /\ q.data = Notice
  BY DEF AnswerGround
<1>1. CASE q = r
  BY <1>1
<1>2. CASE q \in answers
  <2>1. q.op \in Op
    BY <1>2 DEF IInv, TypeOK, Answer
  <2>2. CASE q.op # o
    BY <1>2, <2>1, <2>2 DEF AnswerGround
  <2>3. CASE q.op = o
    BY <1>2, <2>3 DEF AnswerGround
  <2>4. QED
    BY <2>2, <2>3
<1>3. QED
  BY <1>1, <1>2

\* Under the lock every step keeps the answers in agreement with the rows.
LEMMA NextGround ==
  ASSUME Exclusive = TRUE
  PROVE  IInv /\ LockInv /\ AnswerGround /\ [Next]_vars => AnswerGround'
<1> SUFFICES ASSUME IInv, LockInv, AnswerGround, [Next]_vars PROVE AnswerGround'
  OBVIOUS
<1>1. ASSUME NEW p \in Process, OpenLedger(p) PROVE AnswerGround'
  <2>1. /\ state' = [o \in Op |-> IF o \in Unfinished THEN "unknown" ELSE state[o]]
        /\ result' = [o \in Op |-> IF o \in Unfinished THEN Notice ELSE result[o]]
        /\ digest' = digest /\ answers' = answers
    BY <1>1 DEF OpenLedger, Recover, history
  <2>2. \A r \in answers : r.op \in Op
    BY DEF IInv, TypeOK, Answer
  <2>3. \A r \in answers : r.arg = digest[r.op] => r.op \notin Unfinished
    BY DEF AnswerGround, Unfinished, Terminal
  <2>4. QED
    BY <2>1, <2>2, <2>3 DEF AnswerGround
<1>2. ASSUME NEW p \in Process, NEW o \in Op, NEW a \in Arg, ClaimNew(p, o, a)
      PROVE  AnswerGround'
  <2>1. /\ state[o] = "absent" /\ state' = [state EXCEPT ![o] = "running"]
        /\ digest' = [digest EXCEPT ![o] = a] /\ result' = result /\ answers' = answers
    BY <1>2 DEF ClaimNew, InsertRow
  <2>2. \A r \in answers : r.op # o /\ r.op \in Op
    BY <2>1 DEF AnswerGround, IInv, TypeOK, Answer
  <2>3. QED
    BY <2>1, <2>2 DEF AnswerGround, IInv, TypeOK
<1>3. ASSUME NEW p \in Process, NEW o \in Op, NEW a \in Arg, ClaimConflict(p, o, a)
      PROVE  AnswerGround'
  <2>1. /\ state[o] # "absent" /\ digest[o] # a /\ answers' = answers \cup {Refusal(o, a)}
        /\ state' = state /\ digest' = digest /\ result' = result
    BY <1>3 DEF ClaimConflict, rowVars
  <2>2. /\ Refusal(o, a) \in Answer /\ Refusal(o, a).op = o /\ Refusal(o, a).arg = a
        /\ Refusal(o, a).state = "failed" /\ Refusal(o, a).data = Notice
    BY DEF Refusal, Answer, Terminal
  <2>3. QED
    BY <2>1, <2>2, GroundGrows
<1>4. ASSUME NEW p \in Process, NEW o \in Op, ClaimReplay(p, o) \/ OperationsGet(p, o)
      PROVE  AnswerGround'
  <2>1. /\ state[o] \in Terminal /\ answers' = answers \cup {SavedReply(o, digest[o])}
        /\ state' = state /\ digest' = digest /\ result' = result
    BY <1>4 DEF ClaimReplay, OperationsGet, rowVars
  <2>2. state[o] # "absent" /\ digest[o] \in Arg
    BY <2>1 DEF IInv, RowBinding, Terminal
  <2>3. PICK r : r = SavedReply(o, digest[o])
    OBVIOUS
  <2>4. /\ r.op = o /\ r.arg = digest[o] /\ r.state = state[o] /\ r.data \in {result[o], Expired}
    BY <2>3 DEF SavedReply
  <2>5. r \in Answer
    BY <2>1, <2>2, <2>3 DEF SavedReply, Answer, IInv, TypeOK
  <2>6. QED
    BY <2>1, <2>2, <2>3, <2>4, <2>5, GroundGrows
<1>5. ASSUME NEW p \in Process, NEW o \in Op, NEW s \in Terminal,
             NEW d \in {"no", "maybe"}, NEW b \in Body \cup {Notice},
             task[p][o] # "none", Finish(p, o, s, d, b)
      PROVE  AnswerGround'
  <2>1. PICK r : r = [op |-> o, arg |-> digest[o], state |-> s, dispatched |-> d, data |-> b]
    OBVIOUS
  <2>2. /\ answers' = answers \cup {r} /\ digest' = digest
        /\ state' = [state EXCEPT ![o] = s] /\ result' = [result EXCEPT ![o] = b]
    BY <1>5, <2>1 DEF Finish, Store
  <2>3. state[o] = "running" /\ digest[o] \in Arg
    BY <1>5 DEF LockInv, IInv, RowBinding
  <2>4. r \in Answer /\ r.op = o /\ r.arg = digest[o] /\ r.state = s /\ r.data = b
    BY <2>1, <2>3 DEF Answer
  <2>5. state'[o] = s /\ result'[o] = b /\ s # "absent" /\ state[o] \notin Terminal
    BY <2>2, <2>3 DEF IInv, TypeOK, Terminal
  <2>6. \A x \in Op : x # o => /\ state'[x] = state[x] /\ digest'[x] = digest[x]
                               /\ result'[x] = result[x]
    BY <2>2
  <2>7. QED
    BY <2>2, <2>4, <2>5, <2>6, GroundGrows
<1>6. ASSUME NEW p \in Process, NEW o \in Op,
             \/ FinishPreflight(p, o)
             \/ \E s \in {"failed", "unknown"} : FinishUncertain(p, o, s)
             \/ \E b \in Body : FinishCompleted(p, o, b)
      PROVE  AnswerGround'
  <2>1. CASE FinishPreflight(p, o)
    BY <2>1, <1>5 DEF FinishPreflight, Refusable, Terminal
  <2>2. ASSUME NEW s \in {"failed", "unknown"}, FinishUncertain(p, o, s)
        PROVE  AnswerGround'
    BY <2>2, <1>5 DEF FinishUncertain, Terminal
  <2>3. ASSUME NEW b \in Body, FinishCompleted(p, o, b) PROVE AnswerGround'
    BY <2>3, <1>5 DEF FinishCompleted, Terminal
  <2>4. QED
    BY <1>6, <2>1, <2>2, <2>3
<1>7. ASSUME \/ UNCHANGED vars
             \/ \E p \in Process : Close(p) \/ Crash(p)
             \/ \E p \in Process, o \in Op, a \in Arg : ClaimLookup(p, o, a) \/ ClaimCollision(p, o, a)
             \/ \E p \in Process, o \in Op : DispatchHandler(p, o) \/ FinishLost(p, o)
             \/ \E p \in Process, keep \in SUBSET Op : ExpireResults(p, keep)
      PROVE  AnswerGround'
  <2>1. UNCHANGED <<state, digest, result, answers>>
    BY <1>7 DEF vars, rowVars, history, Close, Crash, Leave, ClaimLookup, ClaimCollision,
       DispatchHandler, FinishLost, ExpireResults
  <2>2. QED
    BY <2>1, GroundStays
<1>8. QED
  BY <1>1, <1>2, <1>3, <1>4, <1>6, <1>7 DEF Next, ClaimInsert

\* Two answers about one row repeat it, two refusals say the same.
LEMMA GroundAgrees == AnswerGround => AnswersAgree
  BY DEF AnswerGround, AnswersAgree

-----------------------------------------------------------------------------
(* One tab of the isolated browser. *)

TabRow ==
    [does : {None, "observe", "act", "navigate", "respond"},
     pc : {"new", "lock", "aim", "sent", "read", "reading", "claim", "respond", "receipt", "done"},
     uses : Nat \cup {None}, scope : Tab!Scope, dialog : Nat, seen : [Tab!Scope -> Nat],
     answer : {None, "failed", "unknown", "completed"}]
Shot == [scope : Tab!Scope, seen : [Tab!Scope -> Nat]]

\* A snapshot that nothing has happened to is of the page that is there, and
\* nothing that happened in its scope leaves it.
Snapped ==
    /\ revision \in [Tab!Scope -> Nat] /\ shown \in Seq(Shot)
    /\ snapshot \in Tab!Taken \cup {None} /\ stale \subseteq Tab!Taken
    /\ snapshot # None =>
          /\ snapshot \notin stale
          /\ \A s \in Tab!Scope : s \in {"page", shown[snapshot].scope} =>
                shown[snapshot].seen[s] = revision[s]
    /\ misled = {}

\* A dialog is answered when it is claimed, and none before it was opened.
Answered ==
    /\ dialogs \in 0..MaxDialogs /\ responses \in [1..MaxDialogs -> {0, 1}]
    /\ dialog # None => /\ dialog \in [id : 1..dialogs, claimed : BOOLEAN]
                        /\ ~dialog.claimed => responses[dialog.id] = 0
    /\ \A d \in 1..MaxDialogs : d > dialogs => responses[d] = 0

\* Where a call is says what it has sent and whether that took effect.
Told(u, hasSent, hasActed) ==
    /\ u.pc \in {"new", "lock", "aim", "claim"} => ~hasSent
    /\ u.pc \in {"read", "reading", "receipt"} /\ hasSent => hasActed
    /\ u.answer = "failed" => ~hasSent
    /\ u.answer = "completed" /\ hasSent => hasActed
    /\ u.pc # "done" => u.answer = None
Calls ==
    /\ tabCall \in [TabCall -> TabRow]
    /\ \A k \in TabCall : Told(tabCall[k], k \in sent, k \in acted)

TabInv == Snapped /\ Answered /\ Calls

\* What becomes of the snapshots.
SnapSame == UNCHANGED <<revision, snapshot, shown, stale, misled>>
SnapGone == /\ snapshot' = None /\ (stale' = stale \/ stale' = stale \cup Tab!Taken)
            /\ UNCHANGED <<revision, shown, misled>>

\* Nothing a snapshot is compared with changes, or the snapshot is gone.
LEMMA SnapAside ==
  ASSUME Snapped, SnapSame \/ SnapGone
  PROVE  Snapped'
<1>1. CASE SnapSame
  BY <1>1 DEF SnapSame, Snapped, Tab!Taken
<1>2. CASE SnapGone
  BY <1>2 DEF SnapGone, Snapped, Tab!Taken
<1>3. QED
  BY <1>1, <1>2

\* A change of the page or of the frame.
LEMMA ChangeKeeps ==
  ASSUME Snapped, NEW s \in Tab!Scope, Tab!Changes(s)
  PROVE  Snapped'
<1> DEFINE gone == {i \in Tab!Taken : s = "page" \/ shown[i].scope = s}
<1>1. /\ revision' = [revision EXCEPT ![s] = @ + 1]
      /\ snapshot' = IF snapshot \in gone THEN None ELSE snapshot
      /\ stale' = stale \cup gone
      /\ shown' = shown /\ misled' = misled
  BY DEF Tab!Changes
<1>2. gone \subseteq Tab!Taken
  OBVIOUS
<1>3. Tab!Taken' = Tab!Taken
  BY <1>1 DEF Tab!Taken
<1> HIDE DEF gone
<1>4. /\ revision' \in [Tab!Scope -> Nat] /\ shown' \in Seq(Shot) /\ misled' = {}
      /\ snapshot' \in Tab!Taken \cup {None} /\ stale' \subseteq Tab!Taken
  BY <1>1, <1>2 DEF Snapped
<1>5. ASSUME snapshot' # None
      PROVE  /\ snapshot' \notin stale'
             /\ \A q \in Tab!Scope : q \in {"page", shown'[snapshot'].scope} =>
                   shown'[snapshot'].seen[q] = revision'[q]
  <2>1. /\ snapshot' = snapshot /\ snapshot \notin gone /\ snapshot # None
        /\ snapshot \in Tab!Taken
    BY <1>1, <1>5 DEF Snapped
  <2>2. s # "page" /\ shown[snapshot].scope # s
    BY <2>1 DEF gone
  <2>3. \A q \in {"page", shown[snapshot].scope} \cap Tab!Scope : revision'[q] = revision[q]
    BY <1>1, <2>2 DEF Snapped
  <2>4. QED
    BY <1>1, <2>1, <2>3 DEF Snapped
<1>6. QED
  BY <1>3, <1>4, <1>5 DEF Snapped

\* A new snapshot is of one document, the one that is there.
LEMMA ShotKeeps ==
  ASSUME Snapped, Calls, NEW k \in TabCall, Tab!ReadEnds(k)
  PROVE  Snapped'
<1>1. CASE ~Tab!Untorn(k)
  <2>1. SnapSame
    BY <1>1 DEF Tab!ReadEnds, SnapSame, Tab!page
  <2>2. QED
    BY <2>1, SnapAside
<1>2. CASE Tab!Untorn(k)
  <2>1. PICK shot : shot = [scope |-> tabCall[k].scope, seen |-> tabCall[k].seen]
    OBVIOUS
  <2>2. tabCall[k] \in TabRow
    BY DEF Calls
  <2>3. shot \in Shot
    BY <2>1, <2>2 DEF Shot, TabRow
  <2>4. /\ shown' = Append(shown, shot) /\ snapshot' = Len(shown')
        /\ revision' = revision /\ stale' = stale /\ misled' = misled
    BY <1>2, <2>1 DEF Tab!ReadEnds, Tab!page
  <2>5. /\ shown' \in Seq(Shot) /\ Len(shown') = Len(shown) + 1 /\ Len(shown) \in Nat
        /\ shown'[snapshot'] = shot
    BY <2>3, <2>4 DEF Snapped
  <2>6. /\ Tab!Taken \subseteq Tab!Taken' /\ snapshot' \in Tab!Taken'
        /\ snapshot' \notin Tab!Taken
    BY <2>4, <2>5 DEF Tab!Taken
  <2>7. /\ shot.seen["page"] = revision["page"]
        /\ shot.scope = "frame" => shot.seen = revision
    BY <1>2, <2>1 DEF Tab!Untorn
  <2>8. \A s \in Tab!Scope : s \in {"page", shot.scope} => shot.seen[s] = revision[s]
    BY <2>7 DEF Tab!Scope
  <2>9. QED
    BY <2>4, <2>5, <2>6, <2>8 DEF Snapped
<1>3. QED
  BY <1>1, <1>2

\* The snapshot an action names is current when it is sent.
LEMMA DispatchKeeps ==
  ASSUME Snapped, NEW k \in TabCall, Tab!Dispatch(k)
  PROVE  Snapped'
<1>1. CASE ~Tab!Current(k)
  <2>1. SnapSame
    BY <1>1 DEF Tab!Dispatch, SnapSame, Tab!page
  <2>2. QED
    BY <2>1, SnapAside
<1>2. CASE Tab!Current(k)
  <2>1. stale \subseteq Nat
    BY DEF Snapped, Tab!Taken
  <2>2. None \notin stale
    BY <2>1, AgentAssumption
  <2>3. tabCall[k].uses \notin stale
    BY <1>2, <2>2 DEF Tab!Current, Snapped
  <2>4. SnapGone
    BY <1>2, <2>3 DEF Tab!Dispatch, SnapGone, Tab!page
  <2>5. QED
    BY <2>4, SnapAside
<1>3. QED
  BY <1>1, <1>2

\* What a step does with the snapshots.
LEMMA SnapStep ==
  ASSUME TabInv, Tab!TabNext
  PROVE  Snapped'
<1> USE DEF TabInv
<1>1. CASE \E s \in Tab!Scope : Tab!Changes(s)
  BY <1>1, ChangeKeeps
<1>2. CASE Tab!Opens \/ Tab!Closes \/ Tab!Expires
  <2>1. SnapGone
    BY <1>2 DEF Tab!Opens, Tab!Closes, Tab!Expires, SnapGone, Tab!page, Tab!history
  <2>2. QED
    BY <2>1, SnapAside
<1>3. ASSUME NEW k \in TabCall, Tab!Acts(k) \/ Tab!Proceed(k)
      PROVE  Snapped'
  <2>1. CASE Tab!Acts(k) \/ Tab!Arrive(k) \/ Tab!AimFails(k) \/ Tab!Returns(k)
             \/ Tab!Interrupted(k) \/ Tab!Acknowledged(k) \/ Tab!Unacknowledged(k)
             \/ Tab!Receipt(k) \/ Tab!Read(k) \/ Tab!ReadFails(k)
    <3>1. SnapSame
      <4>1. CASE Tab!Acts(k)
        BY <4>1 DEF Tab!Acts, SnapSame, Tab!page, Tab!history
      <4>2. CASE Tab!Arrive(k)
        BY <4>2 DEF Tab!Arrive, SnapSame, Tab!page, Tab!history
      <4>3. CASE Tab!AimFails(k)
        BY <4>3 DEF Tab!AimFails, SnapSame, Tab!page, Tab!history
      <4>4. CASE Tab!Returns(k)
        BY <4>4 DEF Tab!Returns, SnapSame, Tab!page, Tab!history
      <4>5. CASE Tab!Interrupted(k)
        BY <4>5 DEF Tab!Interrupted, SnapSame, Tab!page, Tab!history
      <4>6. CASE Tab!Acknowledged(k)
        BY <4>6 DEF Tab!Acknowledged, SnapSame, Tab!page, Tab!history
      <4>7. CASE Tab!Unacknowledged(k)
        BY <4>7 DEF Tab!Unacknowledged, SnapSame, Tab!page, Tab!history
      <4>8. CASE Tab!Receipt(k)
        BY <4>8 DEF Tab!Receipt, SnapSame, Tab!page, Tab!history
      <4>9. CASE Tab!Read(k)
        BY <4>9 DEF Tab!Read, SnapSame, Tab!page, Tab!history
      <4>10. CASE Tab!ReadFails(k)
        BY <4>10 DEF Tab!ReadFails, SnapSame, Tab!page, Tab!history
      <4>11. QED
        BY <2>1, <4>1, <4>2, <4>3, <4>4, <4>5, <4>6, <4>7, <4>8, <4>9, <4>10
    <3>2. QED
      BY <3>1, SnapAside
  <2>2. CASE Tab!Enter(k) \/ Tab!Claim(k)
    <3>1. SnapSame \/ SnapGone
      BY <2>2 DEF Tab!Enter, Tab!Claim, SnapSame, SnapGone, Tab!page
    <3>2. QED
      BY <3>1, SnapAside
  <2>3. CASE Tab!Dispatch(k)
    BY <2>3, DispatchKeeps
  <2>4. CASE Tab!ReadEnds(k)
    BY <2>4, ShotKeeps
  <2>5. QED
    BY <1>3, <2>1, <2>2, <2>3, <2>4 DEF Tab!Proceed
<1>4. QED
  BY <1>1, <1>2, <1>3 DEF Tab!TabNext

\* A dialog is answered by its claim alone.
LEMMA AnswerStep ==
  ASSUME TabInv, Tab!TabNext
  PROVE  Answered'
<1> USE DEF TabInv
<1> DEFINE Left == /\ dialogs' = dialogs /\ responses' = responses
                   /\ dialog' = dialog \/ dialog' = None
<1>1. CASE Left
  BY <1>1 DEF Answered
<1>2. CASE Tab!Opens
  <2>1. /\ dialogs < MaxDialogs /\ dialogs' = dialogs + 1
        /\ dialog' = [id |-> dialogs', claimed |-> FALSE] /\ responses' = responses
    BY <1>2 DEF Tab!Opens
  <2>2. dialogs \in Nat /\ MaxDialogs \in Nat
    BY AgentAssumption DEF Answered
  <2>3. QED
    BY <2>1, <2>2 DEF Answered
<1>3. ASSUME NEW k \in TabCall, Tab!Claim(k), ~Left
      PROVE  Answered'
  <2>1. /\ dialog = [id |-> tabCall[k].dialog, claimed |-> FALSE] /\ dialog # None
        /\ dialog' = [dialog EXCEPT !.claimed = TRUE]
        /\ responses' = [responses EXCEPT ![tabCall[k].dialog] = @ + 1]
        /\ dialogs' = dialogs
    BY <1>3 DEF Tab!Claim, Tab!page
  <2>2. tabCall[k].dialog \in 1..dialogs /\ responses[tabCall[k].dialog] = 0
    BY <2>1 DEF Answered
  <2>3. /\ dialogs' \in 0..MaxDialogs /\ responses' \in [1..MaxDialogs -> {0, 1}]
        /\ \A d \in 1..MaxDialogs : d > dialogs' => responses'[d] = 0
    BY <2>1, <2>2, AgentAssumption DEF Answered
  <2>4. dialog' \in [id : 1..dialogs', claimed : BOOLEAN] /\ dialog'.claimed
    BY <2>1, <2>2
  <2>5. QED
    BY <2>3, <2>4 DEF Answered
<1>4. Left \/ Tab!Opens \/ \E k \in TabCall : Tab!Claim(k)
  <2>1. CASE \E s \in Tab!Scope : Tab!Changes(s)
    BY <2>1 DEF Tab!Changes
  <2>2. CASE Tab!Closes \/ Tab!Expires
    BY <2>2 DEF Tab!Closes, Tab!Expires, Tab!page, Tab!history
  <2>3. ASSUME NEW k \in TabCall, Tab!Acts(k) \/ Tab!Proceed(k), ~Tab!Claim(k)
        PROVE  Left
    <3>1. CASE Tab!Acts(k)
      BY <3>1 DEF Tab!Acts, Tab!page, Tab!history
    <3>2. CASE Tab!Arrive(k)
      BY <3>2 DEF Tab!Arrive, Tab!page, Tab!history
    <3>3. CASE Tab!Enter(k)
      BY <3>3 DEF Tab!Enter, Tab!page, Tab!history
    <3>4. CASE Tab!AimFails(k)
      BY <3>4 DEF Tab!AimFails, Tab!page, Tab!history
    <3>5. CASE Tab!Dispatch(k)
      BY <3>5 DEF Tab!Dispatch, Tab!page, Tab!history
    <3>6. CASE Tab!Returns(k)
      BY <3>6 DEF Tab!Returns, Tab!page, Tab!history
    <3>7. CASE Tab!Interrupted(k)
      BY <3>7 DEF Tab!Interrupted, Tab!page, Tab!history
    <3>8. CASE Tab!Acknowledged(k)
      BY <3>8 DEF Tab!Acknowledged, Tab!page, Tab!history
    <3>9. CASE Tab!Unacknowledged(k)
      BY <3>9 DEF Tab!Unacknowledged, Tab!page, Tab!history
    <3>10. CASE Tab!Receipt(k)
      BY <3>10 DEF Tab!Receipt, Tab!page, Tab!history
    <3>11. CASE Tab!Read(k)
      BY <3>11 DEF Tab!Read, Tab!page, Tab!history
    <3>12. CASE Tab!ReadEnds(k)
      BY <3>12 DEF Tab!ReadEnds, Tab!page, Tab!history
    <3>13. CASE Tab!ReadFails(k)
      BY <3>13 DEF Tab!ReadFails, Tab!page, Tab!history
    <3>14. QED
      BY <2>3, <3>1, <3>2, <3>3, <3>4, <3>5, <3>6, <3>7, <3>8, <3>9, <3>10, <3>11, <3>12, <3>13
         DEF Tab!Proceed
  <2>4. QED
    BY <2>1, <2>2, <2>3 DEF Tab!TabNext
<1>5. QED
  BY <1>1, <1>2, <1>3, <1>4

\* A call moves alone.
LEMMA CallMoves ==
  ASSUME Calls, NEW k \in TabCall, NEW u \in TabRow,
         tabCall' = [tabCall EXCEPT ![k] = u], sent' = sent \/ sent' = sent \cup {k},
         acted' = acted, Told(u, k \in sent', k \in acted)
  PROVE  Calls'
<1>1. tabCall' \in [TabCall -> TabRow]
  BY DEF Calls
<1>2. ASSUME NEW q \in TabCall PROVE Told(tabCall'[q], q \in sent', q \in acted')
  <2>1. CASE q = k
    BY <2>1 DEF Calls
  <2>2. CASE q # k
    <3>1. /\ tabCall'[q] = tabCall[q] /\ (q \in sent') = (q \in sent)
          /\ Told(tabCall[q], q \in sent, q \in acted)
      BY <2>2 DEF Calls
    <3>2. QED
      BY <3>1 DEF Told
  <2>3. QED
    BY <2>1, <2>2
<1>3. QED
  BY <1>1, <1>2 DEF Calls

\* A call ends with an answer that fits what it has done.
LEMMA AnswerMoves ==
  ASSUME Calls, NEW k \in TabCall, NEW answer \in {"failed", "unknown", "completed"},
         Tab!Answer(k, answer), sent' = sent, acted' = acted,
         answer = "failed" => k \notin sent,
         answer = "completed" /\ k \in sent => k \in acted
  PROVE  Calls'
<1>1. PICK u : u = [Tab!Fresh EXCEPT !.does = tabCall[k].does, !.dialog = tabCall[k].dialog,
                                     !.pc = "done", !.answer = answer]
  OBVIOUS
<1>2. tabCall[k] \in TabRow
  BY DEF Calls
<1>3. u \in TabRow /\ u.pc = "done" /\ u.answer = answer
  <2>1. u = [does |-> tabCall[k].does, pc |-> "done", uses |-> None, scope |-> "page",
             dialog |-> tabCall[k].dialog, seen |-> [s \in Tab!Scope |-> 0], answer |-> answer]
    BY <1>1 DEF Tab!Fresh
  <2>2. [s \in Tab!Scope |-> 0] \in [Tab!Scope -> Nat] /\ "page" \in Tab!Scope
    BY DEF Tab!Scope
  <2>3. QED
    BY <1>2, <2>1, <2>2 DEF TabRow
<1>4. tabCall' = [tabCall EXCEPT ![k] = u]
  BY <1>1 DEF Tab!Answer
<1>5. Told(u, k \in sent', k \in acted)
  BY <1>3 DEF Told
<1>6. QED
  BY <1>3, <1>4, <1>5, CallMoves

\* A call goes on to a place that fits what it has done.
LEMMA GoesOn ==
  ASSUME Calls, NEW k \in TabCall,
         NEW p \in {"aim", "sent", "read", "respond", "receipt"}, Tab!Goto(k, p),
         tabCall[k].pc # "done", sent' = sent \/ (sent' = sent \cup {k} /\ p \in {"sent", "respond"}),
         acted' = acted, p = "aim" => k \notin sent,
         p \in {"read", "receipt"} /\ k \in sent => k \in acted
  PROVE  Calls'
<1>1. PICK u : u = [tabCall[k] EXCEPT !.pc = p]
  OBVIOUS
<1>2. tabCall[k] \in TabRow /\ Told(tabCall[k], k \in sent, k \in acted)
  BY DEF Calls
<1>3. u \in TabRow /\ u.pc = p /\ u.answer = None
  BY <1>1, <1>2 DEF TabRow, Told
<1>4. tabCall' = [tabCall EXCEPT ![k] = u]
  BY <1>1 DEF Tab!Goto, Calls
<1>5. Told(u, k \in sent', k \in acted)
  BY <1>3, AgentAssumption DEF Told
<1>6. QED
  BY <1>3, <1>4, <1>5, CallMoves

\* Where every step leaves the calls.
LEMMA CallStep ==
  ASSUME TabInv, Tab!TabNext
  PROVE  Calls'
<1> USE DEF TabInv
<1>1. CASE (\E s \in Tab!Scope : Tab!Changes(s)) \/ Tab!Opens \/ Tab!Closes \/ Tab!Expires
  <2>1. tabCall' = tabCall /\ sent' = sent /\ acted' = acted
    BY <1>1 DEF Tab!Changes, Tab!Opens, Tab!Closes, Tab!Expires, Tab!history
  <2>2. QED
    BY <2>1 DEF Calls
<1>2. ASSUME NEW k \in TabCall, Tab!Acts(k) \/ Tab!Proceed(k)
      PROVE  Calls'
  <2> DEFINE c == tabCall[k]
  <2>1. /\ c \in TabRow
        /\ c.pc \in {"new", "lock", "aim", "claim"} => k \notin sent
        /\ c.pc \in {"read", "reading", "receipt"} /\ k \in sent => k \in acted
        /\ c.pc # "done" => c.answer = None
    BY DEF Calls, Told
  <2>2. CASE Tab!Acts(k)
    <3>1. tabCall' = tabCall /\ sent' = sent /\ acted' = acted \cup {k} /\ k \in sent
      BY <2>2 DEF Tab!Acts
    <3>2. QED
      BY <3>1 DEF Calls, Told
  <2>3. CASE Tab!Arrive(k)
    <3>1. c.pc = "new" /\ sent' = sent /\ acted' = acted
      BY <2>3 DEF Tab!Arrive, Tab!At, Tab!history
    <3>2. \E does \in {"observe", "act", "navigate", "respond"}, uses \in Nat \cup {None},
             s \in Tab!Scope, d \in Nat : Tab!Asks(k, does, uses, s, d)
      <4>1. dialogs \in Nat /\ "page" \in Tab!Scope
        BY DEF Answered, Tab!Scope
      <4>2. \A i \in Tab!Taken : i \in Nat /\ shown[i].scope \in Tab!Scope
        <5>1. ASSUME NEW i \in Tab!Taken PROVE i \in Nat /\ shown[i] \in Shot
          BY DEF Snapped, Tab!Taken
        <5>2. QED
          BY <5>1 DEF Shot
      <4>3. CASE \E i \in Tab!Taken : Tab!Asks(k, "act", i, shown[i].scope, 0)
        BY <4>2, <4>3
      <4>4. CASE \E s \in Tab!Scope : Tab!Asks(k, "observe", None, s, 0)
        BY <4>4
      <4>5. CASE \E does \in {"act", "navigate"} : Tab!Asks(k, does, None, "page", 0)
        BY <4>1, <4>5
      <4>6. CASE \E d \in 1..dialogs : Tab!Asks(k, "respond", None, "page", d)
        <5>1. PICK d \in 1..dialogs : Tab!Asks(k, "respond", None, "page", d)
          BY <4>6
        <5>2. d \in Nat
          BY <4>1
        <5>3. QED
          BY <4>1, <5>1, <5>2
      <4>7. QED
        BY <2>3, <4>3, <4>4, <4>5, <4>6 DEF Tab!Arrive
    <3>3. PICK does \in {"observe", "act", "navigate", "respond"}, uses \in Nat \cup {None},
              s \in Tab!Scope, d \in Nat : Tab!Asks(k, does, uses, s, d)
      BY <3>2
    <3>4. PICK u : u = [does |-> does, pc |-> IF does = "respond" THEN "claim" ELSE "lock",
                        uses |-> uses, scope |-> s, dialog |-> d, seen |-> c.seen, answer |-> None]
      OBVIOUS
    <3>5. /\ tabCall' = [tabCall EXCEPT ![k] = u] /\ u \in TabRow
          /\ u.pc \in {"lock", "claim"} /\ u.answer = None
      BY <2>1, <3>3, <3>4 DEF Tab!Asks, TabRow
    <3>6. Told(u, k \in sent', k \in acted)
      BY <2>1, <3>1, <3>5, AgentAssumption DEF Told
    <3>7. QED
      BY <3>1, <3>5, <3>6, CallMoves
  <2>4. ASSUME Tab!Fails(k), sent' = sent, acted' = acted PROVE Calls'
    BY <2>4, AnswerMoves DEF Tab!Fails
  <2>5. CASE Tab!Enter(k)
    <3>1. c.pc = "lock" /\ acted' = acted
      BY <2>5 DEF Tab!Enter, Tab!At
    <3>2. \/ Tab!Fails(k) /\ sent' = sent
          \/ Tab!Goto(k, "aim") /\ sent' = sent
          \/ Tab!Goto(k, "sent") /\ (sent' = sent \/ sent' = sent \cup {k})
          \/ Tab!Goto(k, "read") /\ sent' = sent
      BY <2>5 DEF Tab!Enter
    <3>3. QED
      BY <2>1, <2>4, <3>1, <3>2, GoesOn
  <2>6. CASE Tab!AimFails(k) \/ Tab!Interrupted(k) \/ Tab!Unacknowledged(k)
    BY <2>4, <2>6, AnswerMoves DEF Tab!AimFails, Tab!Interrupted, Tab!Unacknowledged, Tab!history
  <2>7. CASE Tab!Dispatch(k)
    <3>1. /\ c.pc = "aim" /\ acted' = acted
          /\ \/ Tab!Fails(k) /\ sent' = sent
             \/ Tab!Goto(k, "sent") /\ sent' = sent \cup {k}
      BY <2>7 DEF Tab!Dispatch, Tab!At
    <3>2. QED
      BY <2>4, <3>1, GoesOn
  <2>8. CASE Tab!Returns(k) \/ Tab!Acknowledged(k)
    <3>1. /\ c.pc # "done" /\ sent' = sent /\ acted' = acted /\ k \in acted
          /\ Tab!Goto(k, "read") \/ Tab!Goto(k, "receipt")
      BY <2>8 DEF Tab!Returns, Tab!Acknowledged, Tab!At, Tab!history
    <3>2. QED
      BY <3>1, GoesOn
  <2>9. CASE Tab!Claim(k)
    <3>1. /\ c.pc = "claim" /\ acted' = acted
          /\ \/ Tab!Fails(k) /\ sent' = sent
             \/ Tab!Goto(k, "respond") /\ sent' = sent \cup {k}
      BY <2>9 DEF Tab!Claim, Tab!At
    <3>2. QED
      BY <2>4, <3>1, GoesOn
  <2>10. CASE Tab!Receipt(k)
    <3>1. /\ c.pc = "receipt" /\ sent' = sent /\ acted' = acted
          /\ Tab!Answer(k, "completed") \/ Tab!Goto(k, "read")
      BY <2>10 DEF Tab!Receipt, Tab!At, Tab!history
    <3>2. QED
      BY <2>1, <3>1, GoesOn, AnswerMoves
  <2>11. ASSUME Tab!Unread(k), sent' = sent, acted' = acted, c.pc = "reading" PROVE Calls'
    BY <2>1, <2>4, <2>11, AnswerMoves DEF Tab!Unread
  <2>12. CASE Tab!Read(k)
    <3>1. c.pc = "read" /\ sent' = sent /\ acted' = acted
      BY <2>12 DEF Tab!Read, Tab!At, Tab!history
    <3>2. CASE Tab!Unclaimed
      BY <2>1, <2>12, <3>1, <3>2, AnswerMoves DEF Tab!Read
    <3>3. CASE ~Tab!Unclaimed
      <4>1. PICK u : u = [c EXCEPT !.pc = "reading", !.seen = revision]
        OBVIOUS
      <4>2. tabCall' = [tabCall EXCEPT ![k] = u]
        BY <2>12, <3>3, <4>1 DEF Tab!Read, Calls
      <4>3. u \in TabRow /\ u.pc = "reading" /\ u.answer = None
        BY <2>1, <3>1, <4>1 DEF TabRow, Snapped
      <4>4. Told(u, k \in sent', k \in acted)
        BY <2>1, <3>1, <4>3, AgentAssumption DEF Told
      <4>5. QED
        BY <3>1, <4>2, <4>3, <4>4, CallMoves
    <3>4. QED
      BY <3>2, <3>3
  <2>13. CASE Tab!ReadEnds(k)
    <3>1. /\ c.pc = "reading" /\ sent' = sent /\ acted' = acted
          /\ Tab!Unread(k) \/ Tab!Answer(k, "completed")
      BY <2>13 DEF Tab!ReadEnds, Tab!At
    <3>2. QED
      BY <2>1, <2>11, <3>1, AnswerMoves
  <2>14. CASE Tab!ReadFails(k)
    <3>1. /\ c.pc = "reading" /\ sent' = sent /\ acted' = acted
          /\ Tab!Unread(k) \/ Tab!Answer(k, "completed")
      BY <2>14 DEF Tab!ReadFails, Tab!At, Tab!history
    <3>2. QED
      BY <2>1, <2>11, <3>1, AnswerMoves
  <2>15. QED
    BY <1>2, <2>2, <2>3, <2>5, <2>6, <2>7, <2>8, <2>9, <2>10, <2>12, <2>13, <2>14 DEF Tab!Proceed
<1>3. QED
  BY <1>1, <1>2 DEF Tab!TabNext

\* A tab that nobody has observed.
LEMMA TabInitially ==
  ASSUME Tab!TabInit
  PROVE  TabInv
<1>1. Snapped
  BY AgentAssumption DEF Tab!TabInit, Snapped, Tab!Taken, Tab!Scope
<1>2. Answered
  BY AgentAssumption DEF Tab!TabInit, Answered
<1>3. Calls
  <2>1. Tab!Fresh \in TabRow /\ Tab!Fresh.pc = "new" /\ Tab!Fresh.answer = None
    BY DEF Tab!Fresh, TabRow, Tab!Scope
  <2>2. QED
    BY <2>1, AgentAssumption DEF Tab!TabInit, Calls, Told
<1>4. QED
  BY <1>1, <1>2, <1>3 DEF TabInv

\* Every step of the tab keeps its invariant.
LEMMA TabSteps ==
  ASSUME TabInv, Tab!TabNext
  PROVE  TabInv'
  BY SnapStep, AnswerStep, CallStep DEF TabInv

\* Nothing else touches it.
LEMMA TabStays ==
  ASSUME TabInv, UNCHANGED tabVars
  PROVE  TabInv'
  BY DEF TabInv, Snapped, Answered, Calls, Told, tabVars, Tab!Taken

\* What the tools of the tab promise follows.
LEMMA TabKeeps ==
  ASSUME TabInv
  PROVE  PageKnown /\ Tab!ToolHonest
<1>1. Tab!ActsOnShown /\ Tab!SnapshotTrue
  BY DEF TabInv, Snapped, Tab!ActsOnShown, Tab!SnapshotTrue
<1>2. Tab!AnsweredOnce
  BY DEF TabInv, Answered, Tab!AnsweredOnce
<1>3. Tab!ToolHonest
  BY DEF TabInv, Calls, Told, Tab!ToolHonest
<1>4. QED
  BY <1>1, <1>2, <1>3 DEF PageKnown

-----------------------------------------------------------------------------
(* The pipe of the agent. *)

AcceptPc == {"top", "ready", "connect", "connected", "start", "failed", "ended"}
\* A thread between the registration of its connection and the release of its
\* instance, and one that has not given back its capacity.
Serves == {"starting", "read", "dispatch", "linger", "release"}
Holds == Serves \cup {"capacity"}
Holders == {c \in Process : worker[c] \in Holds}
Over == {"release", "capacity", "discard", "gone"}

PipeTypes ==
    /\ pipes \subseteq Pipe!Handle /\ peer \in [Pipe!Handle -> Process \cup {None}]
    /\ accept \in [pc : AcceptPc, handle : Pipe!Handle \cup {None}, next : Pipe!Handle \cup {None}]
    /\ worker \in [Process -> Holds \cup {"none", "discard", "gone", "stillborn"}]
    /\ serving \in [Process -> Pipe!Handle \cup {None}]
    /\ dispatched \in [Process -> {"none", "queued", "running", "refused", "done", "error"}]
    /\ client \in [Process -> {"new", "hello", "ready", "asked", "told", "lost", "left"}]
    /\ capacity \in Nat

\* Who has which instance: the accepting thread one, or two, every connection its own.
Accepts ==
    /\ accept.pc # "ended" => /\ accept.handle \in pipes
                              /\ \A c \in Process : serving[c] # accept.handle
    /\ accept.pc = "start" => /\ accept.next \in pipes /\ accept.next # accept.handle
                              /\ \A c \in Process : serving[c] # accept.next
    /\ accept.pc \in {"connected", "start"} => peer[accept.handle] # None
Served ==
    \A c \in Process : /\ (serving[c] # None) = (worker[c] \in Serves)
                       /\ serving[c] # None => serving[c] \in pipes /\ peer[serving[c]] = c
                       /\ worker[c] = "stillborn" => accept.pc = "ended"
\* Nobody's are only the instances behind a thread that could not start.
Covered ==
    \A h \in pipes : \/ accept.pc # "ended" /\ h = accept.handle
                     \/ accept.pc = "start" /\ h = accept.next
                     \/ \E c \in Process : serving[c] = h
                     \/ \E c \in Process : worker[c] = "stillborn"
Instances == Accepts /\ Served /\ Covered

\* A client has one connection, and no thread before the accepting one starts it.
Peers ==
    /\ \A h \in Pipe!Handle : peer[h] # None =>
          /\ client[peer[h]] # "new"
          /\ worker[peer[h]] = "none" \/ serving[peer[h]] = h
          /\ \A g \in Pipe!Handle : peer[g] = peer[h] => g = h
    /\ \A c \in Process : /\ client[c] \in {"ready", "asked", "told"} => worker[c] # "none"
                          /\ client[c] = "new" => worker[c] = "none"

\* Every connection has taken its part of the capacity, and so has the one awaited.
CapacityKept ==
    /\ IsFiniteSet(Holders)
    /\ capacity + Cardinality(Holders)
         + (IF accept.pc \in {"top", "ended"} THEN 0 ELSE 1) <= MaxConnections

\* A connection ends behind its client, or because something failed.
Blamed ==
    /\ \A c \in Process : /\ worker[c] \in Over => fault \/ Pipe!Gone(c)
                          /\ worker[c] = "stillborn" => fault
                          /\ dispatched[c] = "error" => fault
                          /\ client[c] = "lost" => fault
    /\ stopped => fault \/ (accept.pc = "ended" /\ \A c \in Process : ~Pipe!Unfinished(c))

\* What aclose has waited for is over for good.
Awaited ==
    /\ closer \in {"draining", "waiting", "dispatches", "closed"} => accept.pc = "ended"
    /\ closer \in {"dispatches", "closed"} => \A c \in Process : ~Pipe!Unfinished(c)
    /\ closer = "closed" => \A c \in Process : ~Pipe!Pending(c)

PipeInv == PipeTypes /\ Instances /\ Peers /\ CapacityKept /\ Blamed /\ Awaited

\* The parts count with one operator.
LEMMA OneCardinality ==
  ASSUME NEW S
  PROVE  Pipe!Cardinality(S) = Cardinality(S) /\ Agents!Cardinality(S) = Cardinality(S)
  BY DEF Pipe!Cardinality, Agents!Cardinality, Cardinality

\* None stands for no instance.
LEMMA NoneIsNoInstance ==
  ASSUME PipeTypes
  PROVE  None \notin pipes
<1>1. Pipe!Handle \subseteq Nat
  BY DEF Pipe!Handle
<1>2. QED
  BY <1>1, AgentAssumption DEF PipeTypes

\* Every step keeps the types.
LEMMA PipeTypesStep ==
  ASSUME PipeInv, Pipe!OwnerPipeNext
  PROVE  PipeTypes'
<1> USE DEF PipeInv, AcceptPc, Holds, Serves
<1>1. CASE Pipe!CreateNext
  BY <1>1 DEF Pipe!CreateNext, Pipe!At, Pipe!Goto, Pipe!Released, Pipe!Ended, Pipe!Free,
     PipeTypes, Instances, Accepts, Served, Covered
<1>2. CASE Pipe!Acquire \/ Pipe!Listen \/ Pipe!Connected
  BY <1>2 DEF Pipe!Acquire, Pipe!Listen, Pipe!Connected, Pipe!At, Pipe!Goto, Pipe!Released,
     Pipe!Ended, PipeTypes, Instances, Accepts, Served, Covered
<1>3. CASE Pipe!StartWorker
  BY <1>3 DEF Pipe!StartWorker, Pipe!At, Pipe!Goto, Pipe!Released, Pipe!Ended, Pipe!Fatal,
     PipeTypes, Instances, Accepts, Served, Covered
<1>4. CASE Pipe!Replace
  BY <1>4 DEF Pipe!Replace, Pipe!At, Pipe!Goto, Pipe!Released, Pipe!Ended, Pipe!Fatal,
     Pipe!Free, PipeTypes, Instances, Accepts, Served, Covered
<1>5. CASE Pipe!Closing
  BY <1>5 DEF Pipe!Stop, Pipe!StopAccepting, Pipe!Joined, Pipe!StopTransport, Pipe!Waited,
     Pipe!Drained, Pipe!Closer, Pipe!At, Pipe!serverVars, Pipe!Closing, PipeTypes
<1>6. ASSUME NEW c \in Process, Pipe!Serving(c) PROVE PipeTypes'
  <2>1. CASE Pipe!Hello(c)
    BY <2>1 DEF Pipe!Hello, Pipe!Worker, Pipe!Broken, Pipe!TimesOut, Pipe!Interrupted, PipeTypes
  <2>2. CASE Pipe!Read(c)
    BY <2>2 DEF Pipe!Read, Pipe!Worker, Pipe!Broken, Pipe!TimesOut, Pipe!Interrupted, PipeTypes
  <2>3. CASE Pipe!Collect(c)
    BY <2>3 DEF Pipe!Collect, Pipe!Worker, Pipe!Broken, Pipe!TimesOut, Pipe!Interrupted,
       PipeTypes
  <2>4. CASE Pipe!Linger(c) \/ Pipe!ReleaseCapacity(c) \/ Pipe!Discard(c)
    BY <2>4 DEF Pipe!Linger, Pipe!ReleaseCapacity, Pipe!Discard, Pipe!Worker, Pipe!Broken,
       Pipe!TimesOut, Pipe!Interrupted, PipeTypes
  <2>5. CASE Pipe!Release(c)
    BY <2>5 DEF Pipe!Release, Pipe!Released, Pipe!Worker, PipeTypes, Instances, Accepts, Served,
       Covered
  <2>6. QED
    BY <1>6, <2>1, <2>2, <2>3, <2>4, <2>5 DEF Pipe!Serving
<1>7. ASSUME NEW c \in Process, Pipe!Begin(c) \/ Pipe!Finish(c) PROVE PipeTypes'
  BY <1>7 DEF Pipe!Begin, Pipe!Finish, PipeTypes
<1>8. ASSUME NEW c \in Process, Pipe!Asking(c) PROVE PipeTypes'
  BY <1>8 DEF Pipe!Connect, Pipe!Ask, Pipe!Receive, Pipe!Leave, Pipe!serverVars, Pipe!Moves,
     Pipe!Linked, Pipe!Asking, PipeTypes
<1>9. QED
  BY <1>1, <1>2, <1>3, <1>4, <1>5, <1>6, <1>7, <1>8 DEF Pipe!OwnerPipeNext, Pipe!Accepting

\* Every step leaves every instance with its holder.
LEMMA InstancesStep ==
  ASSUME PipeInv, Pipe!OwnerPipeNext
  PROVE  Instances'
<1> USE AgentAssumption DEF PipeInv, AcceptPc, Holds, Serves
<1>1. CASE Pipe!CreateNext
  <2>1. CASE refusing /\ Pipe!Released(accept.handle) /\ accept' = Pipe!Ended
    <3>1. UNCHANGED <<worker, serving>>
      BY <1>1 DEF Pipe!CreateNext
    <3>2. /\ accept.pc = "connected" /\ accept'.pc = "ended"
          /\ pipes' = pipes \ {accept.handle} /\ peer' = [peer EXCEPT ![accept.handle] = None]
      BY <1>1, <2>1 DEF Pipe!CreateNext, Pipe!At, Pipe!Released, Pipe!Ended
    <3>3. Accepts' /\ Served'
      BY <3>1, <3>2 DEF PipeTypes, Instances, Accepts, Served
    <3>4. Covered'
      BY <3>1, <3>2 DEF Instances, Covered
    <3>5. QED
      BY <3>3, <3>4 DEF Instances
  <2>2. ASSUME NEW h \in Pipe!Free, pipes' = pipes \cup {h}, peer' = peer,
               accept' = [pc |-> "start", handle |-> accept.handle, next |-> h]
        PROVE  Instances'
    <3>1. /\ UNCHANGED <<worker, serving>> /\ accept.pc = "connected"
          /\ h \in Pipe!Handle \ pipes /\ h # None
      BY <1>1 DEF Pipe!CreateNext, Pipe!At, Pipe!Free, Pipe!Handle
    <3>2. \A q \in Process : serving[q] # h
      BY <3>1 DEF Instances, Served
    <3>5. Accepts' /\ Served'
      BY <2>2, <3>1, <3>2 DEF Instances, Accepts, Served
    <3>3. Covered'
      BY <2>2, <3>1 DEF Instances, Covered
    <3>4. QED
      BY <3>3, <3>5 DEF Instances
  <2>3. CASE Pipe!Goto("failed") /\ UNCHANGED <<pipes, peer>>
    <3>1. UNCHANGED <<worker, serving>> /\ accept.pc = "connected"
      BY <1>1 DEF Pipe!CreateNext, Pipe!At
    <3>2. QED
      BY <2>3, <3>1 DEF PipeTypes, Instances, Accepts, Served, Covered, Pipe!Goto
  <2>4. QED
    BY <1>1, <2>1, <2>2, <2>3 DEF Pipe!CreateNext
<1>2. CASE Pipe!Acquire \/ Pipe!Listen \/ Pipe!Connected
  BY <1>2 DEF Pipe!Acquire, Pipe!Listen, Pipe!Connected, Pipe!At, Pipe!Goto, Pipe!Released,
     Pipe!Ended, PipeTypes, Instances, Accepts, Served, Covered
<1>3. CASE Pipe!StartWorker
  <2> DEFINE c == peer[accept.handle]
             a == accept.handle
  <2>1. accept.pc = "start"
    BY <1>3 DEF Pipe!StartWorker, Pipe!At
  <2>2. /\ a \in Pipe!Handle /\ a \in pipes /\ a # None /\ c \in Process /\ c # None
        /\ accept.next \in pipes /\ accept.next # a
        /\ \A q \in Process : serving[q] # a /\ serving[q] # accept.next
        /\ worker[c] = "none" /\ serving[c] = None
    BY <2>1 DEF PipeTypes, Instances, Accepts, Served, Peers
  <2>3. CASE /\ worker' = [worker EXCEPT ![c] = "starting"]
             /\ serving' = [serving EXCEPT ![c] = a]
             /\ accept' = [pc |-> "top", handle |-> accept.next, next |-> None]
             /\ UNCHANGED <<pipes, peer>>
    <3>1. Accepts' /\ Served'
      BY <2>1, <2>2, <2>3 DEF PipeTypes, Instances, Accepts, Served
    <3>2. Covered'
      <4>1. ASSUME NEW h \in pipes
            PROVE  \/ h = accept.next
                   \/ \E q \in Process : serving'[q] = h
                   \/ \E q \in Process : worker'[q] = "stillborn"
        <5>1. h # None /\ c \in Process
          BY <2>2 DEF PipeTypes, Pipe!Handle
        <5>2. CASE h = a
          BY <2>3, <5>1, <5>2 DEF PipeTypes
        <5>3. ASSUME NEW q \in Process, serving[q] = h PROVE serving'[q] = h
          BY <2>2, <2>3, <5>1, <5>3 DEF PipeTypes
        <5>4. ASSUME NEW q \in Process, worker[q] = "stillborn" PROVE worker'[q] = "stillborn"
          BY <2>2, <2>3, <5>4 DEF PipeTypes
        <5>5. QED
          BY <2>1, <5>2, <5>3, <5>4 DEF Instances, Covered
      <4>2. QED
        BY <2>3, <4>1 DEF Covered
    <3>3. QED
      BY <3>1, <3>2 DEF Instances
  <2>4. CASE /\ worker' = [worker EXCEPT ![c] = "stillborn"]
             /\ Pipe!Released(a) /\ accept' = Pipe!Ended /\ UNCHANGED serving
    <3>1. Accepts' /\ Served'
      BY <2>1, <2>2, <2>4 DEF PipeTypes, Instances, Accepts, Served, Pipe!Released, Pipe!Ended
    <3>2. Covered'
      BY <2>2, <2>4 DEF PipeTypes, Covered
    <3>3. QED
      BY <3>1, <3>2 DEF Instances
  <2>5. QED
    BY <1>3, <2>3, <2>4 DEF Pipe!StartWorker
<1>4. CASE Pipe!Replace
  <2>1. UNCHANGED <<worker, serving>> /\ accept.pc = "failed"
    BY <1>4 DEF Pipe!Replace, Pipe!At
  <2>2. CASE Pipe!Released(accept.handle) /\ accept' = Pipe!Ended
    BY <2>1, <2>2 DEF PipeTypes, Instances, Accepts, Served, Covered, Pipe!Released, Pipe!Ended
  <2>3. ASSUME NEW h \in Pipe!Free, pipes' = (pipes \ {accept.handle}) \cup {h},
               accept' = [pc |-> "top", handle |-> h, next |-> None],
               peer' = [peer EXCEPT ![accept.handle] = None]
        PROVE  Instances'
    <3>1. h \in Pipe!Handle \ pipes /\ h # None
      BY DEF Pipe!Free, Pipe!Handle
    <3>2. Accepts' /\ Served'
      <4>1. \A q \in Process : serving[q] # h
        BY <3>1 DEF Instances, Served
      <4>2. QED
        BY <2>1, <2>3, <3>1, <4>1 DEF PipeTypes, Instances, Accepts, Served
    <3>3. Covered'
      BY <2>1, <2>3 DEF Instances, Covered
    <3>4. QED
      BY <3>2, <3>3 DEF Instances
  <2>4. QED
    BY <1>4, <2>2, <2>3 DEF Pipe!Replace
<1>5. CASE Pipe!Closing
  BY <1>5 DEF Pipe!Stop, Pipe!StopAccepting, Pipe!Joined, Pipe!StopTransport, Pipe!Waited,
     Pipe!Drained, Pipe!Closer, Pipe!At, Pipe!serverVars, Pipe!Closing, PipeTypes, Instances,
     Accepts, Served, Covered
<1>6. ASSUME NEW c \in Process, Pipe!Serving(c) PROVE Instances'
  <2>1. CASE Pipe!Hello(c)
    BY <2>1 DEF Pipe!Hello, Pipe!Worker, Pipe!Broken, Pipe!TimesOut, Pipe!Interrupted,
       PipeTypes, Instances, Accepts, Served, Covered
  <2>2. CASE Pipe!Read(c)
    BY <2>2 DEF Pipe!Read, Pipe!Worker, Pipe!Broken, Pipe!TimesOut, Pipe!Interrupted, PipeTypes,
       Instances, Accepts, Served, Covered
  <2>3. CASE Pipe!Collect(c)
    BY <2>3 DEF Pipe!Collect, Pipe!Worker, Pipe!Broken, Pipe!TimesOut, Pipe!Interrupted,
       PipeTypes, Instances, Accepts, Served, Covered
  <2>4. CASE Pipe!Linger(c) \/ Pipe!ReleaseCapacity(c) \/ Pipe!Discard(c)
    BY <2>4 DEF Pipe!Linger, Pipe!ReleaseCapacity, Pipe!Discard, Pipe!Worker, Pipe!Broken,
       Pipe!TimesOut, Pipe!Interrupted, PipeTypes, Instances, Accepts, Served, Covered
  <2>5. CASE Pipe!Release(c)
    <3>1. /\ worker[c] = "release" /\ worker' = [worker EXCEPT ![c] = "capacity"]
          /\ pipes' = pipes \ {serving[c]} /\ peer' = [peer EXCEPT ![serving[c]] = None]
          /\ serving' = [serving EXCEPT ![c] = None] /\ accept' = accept
      BY <2>5 DEF Pipe!Release, Pipe!Worker, Pipe!Released
    <3>2. /\ serving[c] \in Pipe!Handle /\ serving[c] \in pipes /\ peer[serving[c]] = c
          /\ \A q \in Process : serving[q] = serving[c] => q = c
      BY <3>1 DEF PipeTypes, Instances, Served
    <3>3. Accepts'
      <4>1. accept.pc # "ended" => accept.handle # serving[c]
        BY DEF Instances, Accepts
      <4>2. accept.pc = "start" => accept.next # serving[c]
        BY DEF Instances, Accepts
      <4>3. QED
        <5>0. None \notin pipes
          BY NoneIsNoInstance
        <5>1. accept.pc # "ended" => accept.handle \in pipes' /\ accept.handle # None
          BY <3>1, <4>1, <5>0 DEF Instances, Accepts
        <5>2. accept.pc = "start" => accept.next \in pipes' /\ accept.next # None
          BY <3>1, <4>2, <5>0 DEF Instances, Accepts
        <5>3. \A q \in Process : serving'[q] \in {serving[q], None}
          BY <3>1 DEF PipeTypes
        <5>4. accept.pc \in {"connected", "start"} => peer'[accept.handle] # None
          BY <3>1, <4>1 DEF Instances, Accepts, PipeTypes
        <5>5. QED
          BY <3>1, <5>1, <5>2, <5>3, <5>4 DEF Instances, Accepts
    <3>4. Served'
      BY <3>1, <3>2 DEF PipeTypes, Instances, Served
    <3>5. Covered'
      BY <3>1, <3>2 DEF PipeTypes, Instances, Covered
    <3>6. QED
      BY <3>3, <3>4, <3>5 DEF Instances
  <2>6. QED
    BY <1>6, <2>1, <2>2, <2>3, <2>4, <2>5 DEF Pipe!Serving
<1>7. ASSUME NEW c \in Process, Pipe!Begin(c) \/ Pipe!Finish(c) PROVE Instances'
  BY <1>7 DEF Pipe!Begin, Pipe!Finish, Instances, Accepts, Served, Covered
<1>8. ASSUME NEW c \in Process, Pipe!Asking(c) PROVE Instances'
  BY <1>8 DEF Pipe!Connect, Pipe!Ask, Pipe!Receive, Pipe!Leave, Pipe!serverVars, Pipe!Moves,
     Pipe!Linked, Pipe!Asking, PipeTypes, Instances, Accepts, Served, Covered
<1>9. QED
  BY <1>1, <1>2, <1>3, <1>4, <1>5, <1>6, <1>7, <1>8 DEF Pipe!OwnerPipeNext, Pipe!Accepting

\* Every step leaves every client with one connection.
LEMMA PeersStep ==
  ASSUME PipeInv, Pipe!OwnerPipeNext
  PROVE  Peers'
<1> USE AgentAssumption DEF PipeInv, AcceptPc, Holds, Serves
<1>1. CASE Pipe!CreateNext
  BY <1>1 DEF Pipe!CreateNext, Pipe!At, Pipe!Goto, Pipe!Released, Pipe!Ended, Pipe!Free,
     PipeTypes, Instances, Accepts, Served, Covered, Peers
<1>2. CASE Pipe!Acquire \/ Pipe!Listen \/ Pipe!Connected
  BY <1>2 DEF Pipe!Acquire, Pipe!Listen, Pipe!Connected, Pipe!At, Pipe!Goto, Pipe!Released,
     Pipe!Ended, PipeTypes, Instances, Accepts, Served, Covered, Peers
<1>3. CASE Pipe!StartWorker
  BY <1>3 DEF Pipe!StartWorker, Pipe!At, Pipe!Goto, Pipe!Released, Pipe!Ended, Pipe!Fatal,
     PipeTypes, Instances, Accepts, Served, Covered, Peers
<1>4. CASE Pipe!Replace
  BY <1>4 DEF Pipe!Replace, Pipe!At, Pipe!Goto, Pipe!Released, Pipe!Ended, Pipe!Fatal,
     Pipe!Free, PipeTypes, Instances, Accepts, Served, Covered, Peers
<1>5. CASE Pipe!Closing
  BY <1>5 DEF Pipe!Stop, Pipe!StopAccepting, Pipe!Joined, Pipe!StopTransport, Pipe!Waited,
     Pipe!Drained, Pipe!Closer, Pipe!At, Pipe!serverVars, Pipe!Closing, PipeTypes, Peers
<1>6. ASSUME NEW c \in Process, Pipe!Serving(c) PROVE Peers'
  <2>1. CASE Pipe!Hello(c)
    BY <2>1 DEF Pipe!Hello, Pipe!Worker, Pipe!Broken, Pipe!TimesOut, Pipe!Interrupted,
       PipeTypes, Instances, Accepts, Served, Covered, Peers
  <2>2. CASE Pipe!Read(c)
    BY <2>2 DEF Pipe!Read, Pipe!Worker, Pipe!Broken, Pipe!TimesOut, Pipe!Interrupted, PipeTypes,
       Instances, Accepts, Served, Covered, Peers
  <2>3. CASE Pipe!Collect(c)
    BY <2>3 DEF Pipe!Collect, Pipe!Worker, Pipe!Broken, Pipe!TimesOut, Pipe!Interrupted,
       PipeTypes, Instances, Accepts, Served, Covered, Peers
  <2>4. CASE Pipe!Linger(c) \/ Pipe!ReleaseCapacity(c) \/ Pipe!Discard(c)
    BY <2>4 DEF Pipe!Linger, Pipe!ReleaseCapacity, Pipe!Discard, Pipe!Worker, Pipe!Broken,
       Pipe!TimesOut, Pipe!Interrupted, PipeTypes, Instances, Accepts, Served, Covered, Peers
  <2>5. CASE Pipe!Release(c)
    BY <2>5 DEF Pipe!Release, Pipe!Released, Pipe!Worker, PipeTypes, Instances, Accepts, Served,
       Covered, Peers
  <2>6. QED
    BY <1>6, <2>1, <2>2, <2>3, <2>4, <2>5 DEF Pipe!Serving
<1>7. ASSUME NEW c \in Process, Pipe!Begin(c) \/ Pipe!Finish(c) PROVE Peers'
  BY <1>7 DEF Pipe!Begin, Pipe!Finish, PipeTypes, Peers
<1>8. ASSUME NEW c \in Process, Pipe!Asking(c) PROVE Peers'
  <2>1. CASE Pipe!Connect(c)
    <3>1. PICK h \in pipes : peer[h] = None /\ peer' = [peer EXCEPT ![h] = c]
      BY <2>1 DEF Pipe!Connect
    <3>2. /\ client[c] = "new" /\ client' = [client EXCEPT ![c] = "hello"]
          /\ UNCHANGED <<worker, serving>> /\ h \in Pipe!Handle /\ c # None
      BY <2>1 DEF Pipe!Connect, Pipe!Moves, PipeTypes
    <3>3. worker[c] = "none" /\ \A g \in Pipe!Handle : peer[g] # c
      BY <3>2 DEF PipeTypes, Peers, Instances, Served
    <3>4. QED
      BY <3>1, <3>2, <3>3 DEF PipeTypes, Peers
  <2>2. CASE Pipe!Ask(c) \/ Pipe!Receive(c) \/ Pipe!Leave(c)
    BY <2>2 DEF Pipe!Ask, Pipe!Receive, Pipe!Leave, Pipe!serverVars, Pipe!Moves, Pipe!Linked,
       PipeTypes, Peers
  <2>3. QED
    BY <1>8, <2>1, <2>2 DEF Pipe!Asking
<1>9. QED
  BY <1>1, <1>2, <1>3, <1>4, <1>5, <1>6, <1>7, <1>8 DEF Pipe!OwnerPipeNext, Pipe!Accepting

\* What the capacity is taken by does not change with a step among those that have it.
LEMMA HoldersStay ==
  ASSUME PipeTypes, CapacityKept, Holders' = Holders, capacity' = capacity,
         accept'.pc \in {"top", "ended"} \/ accept.pc \notin {"top", "ended"}
  PROVE  CapacityKept'
<1>1. Cardinality(Holders) \in Nat /\ capacity \in Nat /\ MaxConnections \in Nat
  BY FS_CardinalityType, AgentAssumption DEF CapacityKept, PipeTypes
<1>2. QED
  BY <1>1 DEF CapacityKept

\* Every step takes or gives back what it has of the capacity.
LEMMA CapacityStep ==
  ASSUME PipeInv, Pipe!OwnerPipeNext
  PROVE  CapacityKept'
<1> USE AgentAssumption DEF PipeInv
<1>1. /\ Cardinality(Holders) \in Nat /\ IsFiniteSet(Holders)
      /\ capacity \in Nat /\ MaxConnections \in Nat
  BY FS_CardinalityType DEF CapacityKept, PipeTypes
<1>2. CASE Pipe!Acquire \/ Pipe!Listen \/ Pipe!Connected \/ Pipe!CreateNext
  <2>1. Holders' = Holders
    BY <1>2 DEF Pipe!Acquire, Pipe!Listen, Pipe!Connected, Pipe!CreateNext, Holders
  <2>2. CASE Pipe!Acquire
    BY <1>1, <2>1, <2>2 DEF Pipe!Acquire, Pipe!At, Pipe!Goto, Pipe!Ended, PipeTypes, CapacityKept
  <2>3. CASE Pipe!Listen \/ Pipe!Connected \/ Pipe!CreateNext
    <3>1. accept.pc \notin {"top", "ended"} /\ capacity' = capacity
      BY <2>3 DEF Pipe!Listen, Pipe!Connected, Pipe!CreateNext, Pipe!At
    <3>2. QED
      BY <2>1, <3>1, HoldersStay
  <2>4. QED
    BY <1>2, <2>2, <2>3
<1>3. CASE Pipe!StartWorker
  <2> DEFINE c == peer[accept.handle]
  <2>1. accept.pc = "start"
    BY <1>3 DEF Pipe!StartWorker, Pipe!At
  <2>2. c \in Process /\ worker[c] = "none"
    BY <2>1 DEF PipeTypes, Instances, Accepts, Served, Peers
  <2>3. CASE /\ worker' = [worker EXCEPT ![c] = "starting"] /\ capacity' = capacity
             /\ accept' = [pc |-> "top", handle |-> accept.next, next |-> None]
    <3>1. Holders' = Holders \cup {c} /\ c \notin Holders
      BY <2>2, <2>3 DEF PipeTypes, Holders, Holds, Serves
    <3>2. IsFiniteSet(Holders') /\ Cardinality(Holders') = Cardinality(Holders) + 1
      BY <1>1, <3>1, FS_AddElement
    <3>3. QED
      BY <1>1, <2>1, <2>3, <3>2 DEF CapacityKept
  <2>4. CASE /\ worker' = [worker EXCEPT ![c] = "stillborn"] /\ capacity' = capacity + 1
             /\ accept' = Pipe!Ended
    <3>1. Holders' = Holders
      BY <2>2, <2>4 DEF PipeTypes, Holders, Holds, Serves
    <3>2. QED
      BY <1>1, <2>1, <2>4, <3>1 DEF CapacityKept, Pipe!Ended
  <2>5. QED
    BY <1>3, <2>3, <2>4 DEF Pipe!StartWorker
<1>4. CASE Pipe!Replace
  <2>1. /\ Holders' = Holders /\ accept.pc = "failed" /\ capacity' = capacity + 1
        /\ accept'.pc \in {"top", "ended"}
    BY <1>4 DEF Pipe!Replace, Pipe!At, Pipe!Ended, Holders
  <2>2. QED
    BY <1>1, <2>1 DEF CapacityKept
<1>5. CASE Pipe!Closing
  <2>1. /\ Holders' = Holders /\ capacity' = capacity
        /\ accept' = accept \/ accept.pc = "connect"
    BY <1>5 DEF Pipe!Closing, Pipe!Stop, Pipe!StopAccepting, Pipe!Joined, Pipe!StopTransport,
       Pipe!Waited, Pipe!Drained, Pipe!At, Pipe!serverVars, Holders
  <2>2. QED
    BY <2>1, HoldersStay
<1>6. ASSUME NEW c \in Process, Pipe!Serving(c) PROVE CapacityKept'
  <2>1. CASE Pipe!Hello(c) \/ Pipe!Read(c) \/ Pipe!Collect(c) \/ Pipe!Linger(c) \/ Pipe!Release(c)
             \/ Pipe!Discard(c)
    <3>1. \E from, to \in Holds \cup {"discard", "gone"} :
             Pipe!Worker(c, from, to) /\ ((from \in Holds) = (to \in Holds))
      BY <2>1 DEF Pipe!Hello, Pipe!Read, Pipe!Collect, Pipe!Linger, Pipe!Release, Pipe!Discard,
         Holds, Serves
    <3>2. capacity' = capacity /\ accept' = accept
      BY <2>1 DEF Pipe!Hello, Pipe!Read, Pipe!Collect, Pipe!Linger, Pipe!Release, Pipe!Discard
    <3>3. Holders' = Holders
      BY <3>1 DEF Pipe!Worker, Holders, PipeTypes
    <3>4. QED
      BY <3>2, <3>3, HoldersStay
  <2>2. CASE Pipe!ReleaseCapacity(c)
    <3>1. /\ capacity' = capacity + 1 /\ accept' = accept
          /\ worker[c] = "capacity" /\ worker' = [worker EXCEPT ![c] = "discard"]
      BY <2>2 DEF Pipe!ReleaseCapacity, Pipe!Worker
    <3>2. Holders' = Holders \ {c} /\ c \in Holders
      BY <3>1 DEF PipeTypes, Holders, Holds, Serves
    <3>3. IsFiniteSet(Holders') /\ Cardinality(Holders') = Cardinality(Holders) - 1
      BY <1>1, <3>2, FS_RemoveElement
    <3>4. QED
      BY <1>1, <3>1, <3>3 DEF CapacityKept
  <2>3. QED
    BY <1>6, <2>1, <2>2 DEF Pipe!Serving
<1>7. ASSUME NEW c \in Process, Pipe!Begin(c) \/ Pipe!Finish(c) \/ Pipe!Asking(c)
      PROVE  CapacityKept'
  <2>1. Holders' = Holders /\ capacity' = capacity /\ accept' = accept
    BY <1>7 DEF Pipe!Begin, Pipe!Finish, Pipe!Asking, Pipe!Connect, Pipe!Ask, Pipe!Receive,
       Pipe!Leave, Pipe!serverVars, Holders
  <2>2. QED
    BY <2>1, HoldersStay
<1>8. QED
  BY <1>2, <1>3, <1>4, <1>5, <1>6, <1>7 DEF Pipe!OwnerPipeNext, Pipe!Accepting

\* Every step that ends a connection is blamed on somebody.
LEMMA BlamedStep ==
  ASSUME PipeInv, Pipe!OwnerPipeNext
  PROVE  Blamed'
<1> USE AgentAssumption DEF PipeInv, Holds, Serves, Over, Pipe!Gone, Pipe!Unfinished
<1>1. CASE Pipe!CreateNext
  BY <1>1 DEF Pipe!CreateNext, Pipe!At, Pipe!Goto, Pipe!Released, Pipe!Ended, Pipe!Free, Blamed,
     PipeTypes
<1>2. CASE Pipe!Acquire \/ Pipe!Listen \/ Pipe!Connected
  BY <1>2 DEF Pipe!Acquire, Pipe!Listen, Pipe!Connected, Pipe!At, Pipe!Goto, Pipe!Released,
     Pipe!Ended, Blamed, PipeTypes
<1>3. CASE Pipe!StartWorker
  BY <1>3 DEF Pipe!StartWorker, Pipe!At, Pipe!Goto, Pipe!Released, Pipe!Ended, Pipe!Fatal,
     PipeTypes, Instances, Accepts, Served, Peers, Blamed
<1>4. CASE Pipe!Replace
  BY <1>4 DEF Pipe!Replace, Pipe!At, Pipe!Goto, Pipe!Released, Pipe!Ended, Pipe!Fatal,
     Pipe!Free, Blamed, PipeTypes
<1>5. CASE Pipe!Closing
  BY <1>5 DEF Pipe!Stop, Pipe!StopAccepting, Pipe!Joined, Pipe!StopTransport, Pipe!Waited,
     Pipe!Drained, Pipe!Closer, Pipe!At, Pipe!serverVars, Pipe!Closing, Blamed, Awaited,
     PipeTypes
<1>6. ASSUME NEW c \in Process, Pipe!Serving(c) PROVE Blamed'
  <2>1. CASE Pipe!Hello(c)
    BY <2>1 DEF Pipe!Hello, Pipe!Worker, Pipe!Broken, Pipe!TimesOut, Pipe!Interrupted,
       PipeTypes, Blamed
  <2>2. CASE Pipe!Read(c)
    BY <2>2 DEF Pipe!Read, Pipe!Worker, Pipe!Broken, Pipe!TimesOut, Pipe!Interrupted, PipeTypes,
       Blamed
  <2>3. CASE Pipe!Collect(c)
    BY <2>3 DEF Pipe!Collect, Pipe!Worker, Pipe!Broken, Pipe!TimesOut, Pipe!Interrupted,
       PipeTypes, Blamed
  <2>4. CASE Pipe!Linger(c) \/ Pipe!ReleaseCapacity(c) \/ Pipe!Discard(c)
    BY <2>4 DEF Pipe!Linger, Pipe!ReleaseCapacity, Pipe!Discard, Pipe!Worker, Pipe!Broken,
       Pipe!TimesOut, Pipe!Interrupted, PipeTypes, Blamed
  <2>5. CASE Pipe!Release(c)
    BY <2>5 DEF Pipe!Release, Pipe!Released, Pipe!Worker, PipeTypes, Blamed
  <2>6. QED
    BY <1>6, <2>1, <2>2, <2>3, <2>4, <2>5 DEF Pipe!Serving
<1>7. ASSUME NEW c \in Process, Pipe!Begin(c) \/ Pipe!Finish(c) PROVE Blamed'
  BY <1>7 DEF Pipe!Begin, Pipe!Finish, PipeTypes, Blamed
<1>8. ASSUME NEW c \in Process, Pipe!Asking(c) PROVE Blamed'
  <2>1. CASE Pipe!Connect(c) \/ Pipe!Ask(c) \/ Pipe!Receive(c)
    BY <2>1 DEF Pipe!Connect, Pipe!Ask, Pipe!Receive, Pipe!serverVars, Pipe!Moves, Pipe!Linked,
       PipeTypes, Blamed
  <2>2. CASE Pipe!Leave(c)
    BY <2>2 DEF Pipe!Leave, Pipe!serverVars, Pipe!Moves, Pipe!Linked, PipeTypes, Instances,
       Served, Peers, Blamed
  <2>3. QED
    BY <1>8, <2>1, <2>2 DEF Pipe!Asking
<1>9. QED
  BY <1>1, <1>2, <1>3, <1>4, <1>5, <1>6, <1>7, <1>8 DEF Pipe!OwnerPipeNext, Pipe!Accepting

\* What has been waited for stays over.
LEMMA AwaitedStep ==
  ASSUME PipeInv, Pipe!OwnerPipeNext
  PROVE  Awaited'
<1> USE DEF PipeInv, Pipe!Unfinished, Pipe!Pending
<1>1. CASE Pipe!CreateNext \/ Pipe!Acquire \/ Pipe!Listen \/ Pipe!Connected
  BY <1>1 DEF Pipe!CreateNext, Pipe!Acquire, Pipe!Listen, Pipe!Connected, Pipe!At, Pipe!Goto,
     Pipe!Released, Pipe!Ended, Pipe!Free, Awaited
<1>2. CASE Pipe!StartWorker \/ Pipe!Replace
  BY <1>2 DEF Pipe!StartWorker, Pipe!Replace, Pipe!At, Pipe!Goto, Pipe!Released, Pipe!Ended,
     Pipe!Fatal, Pipe!Free, Awaited
<1>3. CASE Pipe!Closing
  BY <1>3 DEF Pipe!Stop, Pipe!StopAccepting, Pipe!Joined, Pipe!StopTransport, Pipe!Waited,
     Pipe!Drained, Pipe!Closer, Pipe!At, Pipe!serverVars, Pipe!Closing, Awaited
<1>4. ASSUME NEW c \in Process, Pipe!Serving(c) PROVE Awaited'
  <2>1. CASE Pipe!Hello(c)
    BY <2>1 DEF Pipe!Hello, Pipe!Worker, Pipe!Broken, Pipe!TimesOut, Pipe!Interrupted,
       PipeTypes, Awaited
  <2>2. CASE Pipe!Read(c)
    BY <2>2 DEF Pipe!Read, Pipe!Worker, Pipe!Broken, Pipe!TimesOut, Pipe!Interrupted, PipeTypes,
       Awaited
  <2>3. CASE Pipe!Collect(c)
    BY <2>3 DEF Pipe!Collect, Pipe!Worker, Pipe!Broken, Pipe!TimesOut, Pipe!Interrupted,
       PipeTypes, Awaited
  <2>4. CASE Pipe!Linger(c) \/ Pipe!ReleaseCapacity(c) \/ Pipe!Discard(c) \/ Pipe!Release(c)
    BY <2>4 DEF Pipe!Linger, Pipe!ReleaseCapacity, Pipe!Discard, Pipe!Release, Pipe!Released,
       Pipe!Worker, Pipe!Broken, Pipe!TimesOut, Pipe!Interrupted, PipeTypes, Awaited
  <2>5. QED
    BY <1>4, <2>1, <2>2, <2>3, <2>4 DEF Pipe!Serving
<1>5. ASSUME NEW c \in Process, Pipe!Begin(c) \/ Pipe!Finish(c) PROVE Awaited'
  BY <1>5 DEF Pipe!Begin, Pipe!Finish, PipeTypes, Awaited
<1>6. ASSUME NEW c \in Process, Pipe!Asking(c) PROVE Awaited'
  BY <1>6 DEF Pipe!Connect, Pipe!Ask, Pipe!Receive, Pipe!Leave, Pipe!serverVars, Pipe!Moves,
     Pipe!Linked, Pipe!Asking, Awaited
<1>7. QED
  BY <1>1, <1>2, <1>3, <1>4, <1>5, <1>6 DEF Pipe!OwnerPipeNext, Pipe!Accepting

\* The pipe starts with one instance and no connection.
LEMMA PipeInitially ==
  ASSUME Pipe!OwnerPipeInit
  PROVE  PipeInv
<1> USE AgentAssumption DEF Pipe!OwnerPipeInit
<1>1. PipeTypes
  BY DEF PipeTypes, AcceptPc, Holds, Serves, Pipe!Handle
<1>2. Instances
  BY DEF Instances, Accepts, Served, Covered, Serves
<1>3. Peers /\ Blamed /\ Awaited
  BY DEF Peers, Blamed, Awaited, Over
<1>4. CapacityKept
  <2>1. Holders = {}
    BY DEF Holders, Holds, Serves
  <2>2. QED
    BY <2>1, FS_EmptySet DEF CapacityKept
<1>5. QED
  BY <1>1, <1>2, <1>3, <1>4 DEF PipeInv

\* Every step of the pipe keeps its invariant.
LEMMA PipeSteps ==
  ASSUME PipeInv, Pipe!OwnerPipeNext
  PROVE  PipeInv'
  BY PipeTypesStep, InstancesStep, PeersStep, CapacityStep, BlamedStep, AwaitedStep DEF PipeInv

\* Nothing else touches it.
LEMMA PipeStays ==
  ASSUME PipeInv, UNCHANGED pipeVars
  PROVE  PipeInv'
  BY DEF pipeVars, PipeInv, PipeTypes, Instances, Accepts, Served, Covered, Peers, CapacityKept,
     Holders, Blamed, Awaited, Pipe!Gone, Pipe!Unfinished, Pipe!Pending

\* The accepting thread has one instance, every connection at most one.
LEMMA PipeKeeps ==
  ASSUME PipeInv
  PROVE  Pipe!InstancesLeft /\ Pipe!AdmittedAnswered /\ Pipe!ClosedIsQuiet
<1>1. Pipe!AdmittedAnswered
  BY DEF PipeInv, Blamed, Pipe!AdmittedAnswered
<1>2. Pipe!ClosedIsQuiet
  <2> SUFFICES ASSUME closer = "closed"
               PROVE  /\ pipes = {} /\ accept.pc = "ended"
                      /\ \A c \in Process : ~Pipe!Unfinished(c) /\ ~Pipe!Pending(c)
    BY DEF Pipe!ClosedIsQuiet, Pipe!At
  <2>1. accept.pc = "ended" /\ \A c \in Process : ~Pipe!Unfinished(c) /\ ~Pipe!Pending(c)
    BY DEF PipeInv, Awaited
  <2>2. ASSUME NEW h \in pipes PROVE FALSE
    <3>1. PICK c \in Process : serving[c] = h \/ worker[c] = "stillborn"
      BY <2>1 DEF PipeInv, Instances, Covered
    <3>2. h # None
      BY AgentAssumption DEF PipeInv, PipeTypes, Pipe!Handle
    <3>3. worker[c] \in Serves \cup {"stillborn"}
      BY <3>1, <3>2 DEF PipeInv, Instances, Served
    <3>4. QED
      BY <2>1, <3>3 DEF Pipe!Unfinished, Serves
  <2>3. QED
    BY <2>1, <2>2
<1>3. Pipe!InstancesLeft
  <2> SUFFICES ASSUME accept.pc \in {"connected", "failed"}
               PROVE  Cardinality(pipes) <= MaxConnections
    BY OneCardinality DEF Pipe!InstancesLeft, Pipe!At
  <2> DEFINE S == {c \in Process : worker[c] \in Serves}
             T == {serving[c] : c \in S}
             f == [c \in S |-> serving[c]]
  <2>1. /\ IsFiniteSet(Holders) /\ Cardinality(Holders) + 1 <= MaxConnections
        /\ Cardinality(Holders) \in Nat
    <3>1. IsFiniteSet(Holders) /\ Cardinality(Holders) \in Nat /\ capacity \in Nat
      BY FS_CardinalityType DEF PipeInv, CapacityKept, PipeTypes
    <3>2. QED
      BY <3>1, AgentAssumption DEF PipeInv, CapacityKept
  <2>2. IsFiniteSet(S) /\ Cardinality(S) <= Cardinality(Holders) /\ Cardinality(S) \in Nat
    <3>1. S \in SUBSET Holders
      BY DEF Holders, Holds
    <3>2. IsFiniteSet(S) /\ Cardinality(S) <= Cardinality(Holders)
      BY <2>1, <3>1, FS_Subset
    <3>3. QED
      BY <3>2, FS_CardinalityType
  <2>3. f \in Surjection(S, T)
    BY DEF Surjection
  <2>4. IsFiniteSet(T) /\ Cardinality(T) <= Cardinality(S)
    BY <2>2, <2>3, FS_Surjection
  <2>5. /\ IsFiniteSet(T \cup {accept.handle})
        /\ Cardinality(T \cup {accept.handle}) <= Cardinality(T) + 1
        /\ Cardinality(T) \in Nat /\ Cardinality(T \cup {accept.handle}) \in Nat
    <3>1. Cardinality(T) \in Nat
      BY <2>4, FS_CardinalityType
    <3> HIDE DEF T
    <3>2. /\ IsFiniteSet(T \cup {accept.handle})
          /\ Cardinality(T \cup {accept.handle}) <= Cardinality(T) + 1
      BY <2>4, <3>1, FS_AddElement
    <3>3. QED
      BY <3>1, <3>2, FS_CardinalityType
  <2>6. pipes \in SUBSET (T \cup {accept.handle})
    <3> SUFFICES ASSUME NEW h \in pipes, h # accept.handle PROVE h \in T
      OBVIOUS
    <3>1. PICK c \in Process : serving[c] = h
      BY DEF PipeInv, Instances, Covered, Served
    <3>2. h # None
      BY AgentAssumption DEF PipeInv, PipeTypes, Pipe!Handle
    <3>3. c \in S
      BY <3>1, <3>2 DEF PipeInv, Instances, Served
    <3>4. QED
      BY <3>1, <3>3
  <2>7. Cardinality(pipes) <= Cardinality(T \cup {accept.handle}) /\ Cardinality(pipes) \in Nat
    <3>1. IsFiniteSet(pipes) /\ Cardinality(pipes) <= Cardinality(T \cup {accept.handle})
      BY <2>5, <2>6, FS_Subset
    <3>2. QED
      BY <3>1, FS_CardinalityType
  <2> HIDE DEF S, T
  <2>8. QED
    BY <2>1, <2>2, <2>4, <2>5, <2>7, AgentAssumption
<1>4. QED
  BY <1>1, <1>2, <1>3

-----------------------------------------------------------------------------
(* The isolated browsers. *)

SessionPc == {"idle", "lock", "reap", "reaping", "launch", "tabs", "tab_open", "tab_close", "wait"}
SessionRow ==
    [does : {None, "open", "tab_open", "tab_close", "stop"}, pc : SessionPc,
     on : Op \cup {None}, page : Nat, tried : SUBSET Op,
     answer : {None, "completed", "failed", "unknown", "closed"}]
\* A browser that has been started.
Begun(s) == browser[s] \in {"up", "ended"}

BrowserTypes ==
    /\ browser \in [Op -> {"none", "starting", "up", "ended"}]
    /\ live = [s \in Op |-> live[s]] /\ tabs = [s \in Op |-> tabs[s]]
    /\ rejected = [s \in Op |-> rejected[s]]
    /\ listed \subseteq Op /\ closing \subseteq Op
    /\ cleanup \in [Op -> {"none", "running", "failed", "done"}]
    /\ browserCall \in [Process -> SessionRow]

\* What is listed, rejected, cleaned up or worked on has been started; what has been
\* cleaned up has ended.
SessionsFit ==
    \A s \in Op : /\ s \in listed \/ rejected[s] # {} \/ cleanup[s] # "none" => Begun(s)
                  /\ cleanup[s] = "done" => browser[s] = "ended"
Fits(c) ==
    /\ c.pc \notin {"idle", "lock", "reap"} \/ c.does \notin {None, "open"} => c.on # None
    /\ c.on # None => IF c.pc = "launch" THEN browser[c.on] = "starting" ELSE Begun(c.on)
    /\ c.pc = "lock" => c.does # None
    /\ c.pc = "tabs" => c.does \in {"tab_open", "tab_close", "stop"}
    /\ c.answer = "closed" => c.pc = "idle" /\ c.on # None /\ browser[c.on] = "ended"
CallsFit == \A k \in Process : Fits(browserCall[k])
Started == SessionsFit /\ CallsFit

\* A session is launched by one call.
OneLaunch ==
    \A j, k \in Process :
        /\ browserCall[j].pc = "launch" /\ browserCall[k].pc = "launch"
        /\ browserCall[j].on = browserCall[k].on
        => j = k

BrowserInv == BrowserTypes /\ Started /\ OneLaunch /\ Browsers!BrowsersKept

\* The tables of pages have the sessions as their domain.
PageTables ==
    /\ live = [s \in Op |-> live[s]] /\ tabs = [s \in Op |-> tabs[s]]
    /\ rejected = [s \in Op |-> rejected[s]]

\* A cleanup begins for one session, and never takes back that one is done.
LEMMA BeginStarts ==
  ASSUME NEW s \in Op, BrowserTypes, Browsers!BeginClose(s)
  PROVE  /\ closing' \subseteq Op /\ closing \subseteq closing'
         /\ cleanup' \in [Op -> {"none", "running", "failed", "done"}]
         /\ \A t \in Op : t # s => cleanup'[t] = cleanup[t]
         /\ cleanup'[s] # "none" /\ cleanup'[s] = "done" => cleanup[s] = "done"
         /\ s \in closing'
  BY DEF BrowserTypes, SessionRow, Browsers!BeginClose

\* A new page is entered in tables that stay tables.
LEMMA RegisterTypes ==
  ASSUME NEW s \in Op, NEW p, BrowserTypes, Browsers!Register(s, p)
  PROVE  /\ tabs' = [t \in Op |-> tabs'[t]] /\ rejected' = [t \in Op |-> rejected'[t]]
  BY DEF BrowserTypes, SessionRow, Browsers!Register

\* A page too many begins the cleanup of its own session.
LEMMA RegisterClosing ==
  ASSUME NEW s \in Op, NEW p, BrowserTypes, Browsers!Register(s, p)
  PROVE  /\ closing' \subseteq Op /\ closing \subseteq closing'
         /\ cleanup' \in [Op -> {"none", "running", "failed", "done"}]
  BY BeginStarts DEF BrowserTypes, SessionRow, Browsers!Register

\* Both, and the page itself.
LEMMA NewPageTypes ==
  ASSUME NEW s \in Op, BrowserTypes, Browsers!NewPage(s)
  PROVE  /\ PageTables' /\ closing' \subseteq Op
         /\ cleanup' \in [Op -> {"none", "running", "failed", "done"}]
         /\ browser' = browser /\ listed' = listed
<1> DEFINE p == Browsers!NextPage(s)
<1>1. Browsers!Register(s, p) BY DEF Browsers!NewPage
<1> HIDE DEF p
<1>2. live' = [live EXCEPT ![s] = @ \cup {p}] BY DEF Browsers!NewPage, p
<1>3. live' = [t \in Op |-> live'[t]] BY <1>2 DEF BrowserTypes, SessionRow
<1>4. browser' = browser /\ listed' = listed BY DEF Browsers!NewPage
<1> QED BY <1>1, <1>3, <1>4, RegisterTypes, RegisterClosing DEF PageTables

\* A page that closes leaves tables.
LEMMA GoneTypes ==
  ASSUME NEW s \in Op, NEW p, BrowserTypes, Browsers!Gone(s, p)
  PROVE  /\ live' = [t \in Op |-> live'[t]] /\ tabs' = [t \in Op |-> tabs'[t]]
  BY DEF BrowserTypes, SessionRow, Browsers!Gone

\* What a call does to the cleanup under tabs.lock.
LEMMA TabsCall ==
  ASSUME NEW k \in Process, BrowserTypes, Started, Browsers!Tabs(k)
  PROVE  /\ closing' \subseteq Op
         /\ cleanup' \in [Op -> {"none", "running", "failed", "done"}]
  BY BeginStarts DEF BrowserTypes, SessionRow, Started, CallsFit, Fits, Browsers!Tabs, Browsers!At

\* A page opened by a page.
LEMMA PopupTypes ==
  ASSUME NEW s \in Op, BrowserTypes, Browsers!Popup(s)
  PROVE  BrowserTypes'
<1>1. UNCHANGED <<listed, browser, browserCall>> BY DEF Browsers!Popup, Browsers!NewPage
<1>2. Browsers!NewPage(s) BY DEF Browsers!Popup
<1> QED BY <1>1, <1>2, NewPageTypes DEF BrowserTypes, SessionRow, PageTables

\* The end of a rejected page.
LEMMA CloseExcessTypes ==
  ASSUME NEW s \in Op, BrowserTypes, Browsers!CloseExcess(s)
  PROVE  BrowserTypes'
<1>1. PICK p \in rejected[s] :
          /\ rejected' = [rejected EXCEPT ![s] = @ \ {p}]
          /\ \/ Browsers!Gone(s, p) /\ UNCHANGED <<closing, cleanup>>
             \/ Browsers!BeginClose(s) /\ UNCHANGED <<live, tabs>> BY DEF Browsers!CloseExcess
<1>2. rejected' = [t \in Op |-> rejected'[t]] BY <1>1 DEF BrowserTypes, SessionRow
<1>3. live' = [t \in Op |-> live'[t]] /\ tabs' = [t \in Op |-> tabs'[t]]
  BY <1>1, GoneTypes DEF BrowserTypes, SessionRow
<1>4. closing' \subseteq Op /\ cleanup' \in [Op -> {"none", "running", "failed", "done"}]
  BY <1>1, BeginStarts DEF BrowserTypes, SessionRow
<1>5. UNCHANGED <<listed, browser, browserCall>> BY DEF Browsers!CloseExcess
<1> QED BY <1>2, <1>3, <1>4, <1>5 DEF BrowserTypes, SessionRow

\* A call that answers is a call.
LEMMA AnswerTypes ==
  ASSUME NEW k \in Process, NEW a \in {"completed", "failed", "unknown", "closed"}, BrowserTypes,
         Browsers!Answer(k, a)
  PROVE  browserCall' \in [Process -> SessionRow]
  BY DEF BrowserTypes, SessionRow, SessionPc, Browsers!Answer, Browsers!Idle

\* So is one that goes on.
LEMMA GotoTypes ==
  ASSUME NEW k \in Process, NEW pc \in SessionPc, BrowserTypes, Browsers!Goto(k, pc)
  PROVE  browserCall' \in [Process -> SessionRow]
  BY DEF BrowserTypes, SessionRow, SessionPc, Browsers!Goto

\* Beyond its queue a call has a session, which has been started, or it starts it.
LEMMA OnOp ==
  ASSUME NEW k \in Process, BrowserTypes, Started,
         browserCall[k].pc \notin {"idle", "lock", "reap"}
  PROVE  browserCall[k].on \in Op /\ (browserCall[k].pc # "launch" => Begun(browserCall[k].on))
         /\ (browserCall[k].pc = "launch" => browser[browserCall[k].on] = "starting")
  BY DEF BrowserTypes, SessionRow, Started, CallsFit, Fits

\* Under tabs.lock a call answers, waits, or does what it came for.
LEMMA TabsTypes ==
  ASSUME NEW k \in Process, BrowserTypes, Started, Browsers!Tabs(k)
  PROVE  BrowserTypes'
<1>1. UNCHANGED <<listed, browser, live, tabs, rejected>> BY DEF Browsers!Tabs, Browsers!pages
<1>2. browserCall[k].pc = "tabs" BY DEF Browsers!Tabs, Browsers!At
<1>3. \/ Browsers!Answer(k, "failed") \/ Browsers!Goto(k, "wait")
      \/ (browserCall[k].does # "stop" /\ Browsers!Goto(k, browserCall[k].does))
  BY DEF Browsers!Tabs, Browsers!Goto, Browsers!Answer
<1>4. browserCall[k].does # "stop" => browserCall[k].does \in SessionPc
  BY <1>2 DEF Started, CallsFit, Fits, SessionPc
<1> QED
  BY <1>1, TabsCall, <1>3, <1>4, AnswerTypes, GotoTypes DEF BrowserTypes, SessionRow, SessionPc

\* A tab is opened.
LEMMA TabOpensTypes ==
  ASSUME NEW k \in Process, BrowserTypes, Started, Browsers!TabOpens(k)
  PROVE  BrowserTypes'
<1>1. browserCall[k].on \in Op BY OnOp DEF Browsers!TabOpens, Browsers!At
<1>2. Browsers!NewPage(browserCall[k].on) BY DEF Browsers!TabOpens
<1>3. Browsers!Answer(k, "completed") \/ Browsers!Answer(k, "unknown") BY DEF Browsers!TabOpens
<1> QED BY <1>1, <1>2, <1>3, NewPageTypes, AnswerTypes DEF BrowserTypes, SessionRow, PageTables

\* A tab is closed, or its session is.
LEMMA TabClosesTypes ==
  ASSUME NEW k \in Process, BrowserTypes, Started, Browsers!TabCloses(k)
  PROVE  BrowserTypes'
<1>1. browserCall[k].on \in Op BY OnOp DEF Browsers!TabCloses, Browsers!At
<1>2. UNCHANGED <<listed, browser, rejected>> BY DEF Browsers!TabCloses
<1>3. live' = [t \in Op |-> live'[t]] BY DEF BrowserTypes, SessionRow, Browsers!TabCloses
<1>4. tabs' = [t \in Op |-> tabs'[t]] BY DEF BrowserTypes, SessionRow, Browsers!TabCloses
<1>5. closing' \subseteq Op /\ cleanup' \in [Op -> {"none", "running", "failed", "done"}]
  BY <1>1, BeginStarts DEF BrowserTypes, SessionRow, Browsers!TabCloses
<1>6. Browsers!Answer(k, "completed") \/ Browsers!Goto(k, "wait") BY DEF Browsers!TabCloses
<1> QED
  BY <1>2, <1>3, <1>4, <1>5, <1>6, AnswerTypes, GotoTypes DEF BrowserTypes, SessionRow, SessionPc

\* A page that is closed is no page and no tab; the last one begins a cleanup.
LEMMA TabClosesKept ==
  ASSUME NEW k \in Process, BrowserTypes, Started, Browsers!BrowsersKept, Browsers!TabCloses(k)
  PROVE  Browsers!BrowsersKept'
<1> DEFINE s == browserCall[k].on  p == browserCall[k].page
<1>1. s \in Op BY OnOp DEF Browsers!TabCloses, Browsers!At
<1>2. UNCHANGED <<listed, browser, leaked, rejected>> /\ live' = [live EXCEPT ![s] = @ \ {p}]
  BY DEF Browsers!TabCloses
<1>3. \/ tabs' = [tabs EXCEPT ![s] = @ \ {p}] /\ closing' = closing
      \/ tabs' = tabs /\ closing' = closing \cup {s}
  BY DEF Browsers!TabCloses, Browsers!BeginClose
<1> HIDE DEF s, p
<1>4. ASSUME NEW t \in Op, NEW q \in live'[t], q \notin tabs'[t] \cup rejected'[t], t \notin closing'
      PROVE  FALSE
  BY <1>1, <1>2, <1>3, <1>4 DEF BrowserTypes, SessionRow, Browsers!BrowsersKept
<1> QED BY <1>2, <1>4 DEF Browsers!BrowsersKept, Browsers!Up

\* Whoever gets _lock has its session if it needs one.
LEMMA LockStarted ==
  ASSUME NEW k \in Process, BrowserTypes, Started, Browsers!Lock(k)
  PROVE  Started'
<1>1. UNCHANGED <<browser, listed, rejected, cleanup>>
  BY DEF Browsers!Lock, Browsers!sessions, Browsers!pages
<1>2. SessionsFit' BY <1>1 DEF Started, SessionsFit, Begun
<1>3. ASSUME NEW j \in Process PROVE Fits(browserCall[j])'
  BY <1>1 DEF BrowserTypes, SessionRow, Started, CallsFit, Fits, Begun, Browsers!Lock,
     Browsers!At, Browsers!Goto
<1> QED BY <1>2, <1>3 DEF Started, CallsFit

\* The browser that a call launched was nobody else's.
LEMMA LaunchedStarted ==
  ASSUME NEW k \in Process, BrowserTypes, Started, OneLaunch, Browsers!Launched(k)
  PROVE  Started'
<1> DEFINE s == browserCall[k].on
<1>1. s \in Op /\ browser[s] = "starting" /\ browserCall[k].pc = "launch"
  BY OnOp DEF Browsers!Launched, Browsers!At
<1>2. UNCHANGED cleanup BY DEF Browsers!Launched
<1>3. browser' \in {[browser EXCEPT ![s] = "up"], [browser EXCEPT ![s] = "ended"]}
  BY DEF Browsers!Launched
<1>4. listed' \in {listed, listed \cup {s}} /\ rejected' = rejected
  BY DEF Browsers!Launched, Browsers!pages
<1>5. browserCall' = [browserCall EXCEPT ![k] = Browsers!Idle]
  BY DEF Browsers!Launched, Browsers!Answer
<1> HIDE DEF s
<1>6. SessionsFit'
  BY <1>1, <1>2, <1>3, <1>4 DEF BrowserTypes, SessionRow, Started, SessionsFit, Begun
<1>7. ASSUME NEW j \in Process, j # k PROVE Fits(browserCall[j])'
  <2>1. browserCall'[j] = browserCall[j] BY <1>5, <1>7 DEF BrowserTypes, SessionRow
  <2>2. browserCall[j].pc = "launch" => browserCall[j].on # s BY <1>1, <1>7 DEF OneLaunch, s
  <2> QED BY <1>1, <1>3, <2>1, <2>2 DEF BrowserTypes, SessionRow, Started, CallsFit, Fits, Begun
<1>8. Fits(browserCall[k])'
  BY <1>5, AgentAssumption DEF BrowserTypes, SessionRow, Fits, Browsers!Idle
<1> QED BY <1>6, <1>7, <1>8 DEF Started, CallsFit

\* A cleanup that a call asks for is of a session that has been started.
LEMMA TabsStarted ==
  ASSUME NEW k \in Process, BrowserTypes, Started, Browsers!Tabs(k)
  PROVE  Started'
<1> DEFINE s == browserCall[k].on
<1>1. s \in Op /\ Begun(s) /\ browserCall[k].pc = "tabs" BY OnOp DEF Browsers!Tabs, Browsers!At
<1>2. UNCHANGED <<browser, listed, rejected>> BY DEF Browsers!Tabs, Browsers!pages
<1>3. cleanup' = cleanup \/ Browsers!BeginClose(s) BY DEF Browsers!Tabs
<1>4. browserCall' = [browserCall EXCEPT ![k] = Browsers!Idle] \/ Browsers!Goto(k, "wait")
       \/ (browserCall[k].does # "stop" /\ Browsers!Goto(k, browserCall[k].does))
  BY DEF Browsers!Tabs, Browsers!Answer, Browsers!Goto
<1> HIDE DEF s
<1>6. SessionsFit'
  BY <1>1, <1>2, <1>3, BeginStarts DEF BrowserTypes, SessionRow, Started, SessionsFit, Begun
<1>7. ASSUME NEW j \in Process PROVE Fits(browserCall[j])'
  BY <1>1, <1>2, <1>4, AgentAssumption DEF s, BrowserTypes, SessionRow, Started, CallsFit, Fits,
     Begun, Browsers!Goto, Browsers!Idle
<1> QED BY <1>6, <1>7 DEF Started, CallsFit

\* A cleanup that is done has ended its browser, and what has ended stays so.
LEMMA CleanedStarted ==
  ASSUME NEW s \in Op, BrowserTypes, Started, Browsers!Cleaned(s)
  PROVE  Started'
<1>1. PICK ended \in BOOLEAN, ok \in BOOLEAN :
        /\ ok => ended
        /\ IF ended THEN browser' = [browser EXCEPT ![s] = "ended"] ELSE browser' = browser
        /\ cleanup' = [cleanup EXCEPT ![s] = IF ok THEN "done" ELSE "failed"]
        /\ IF ok THEN listed' = listed \ {s} /\ rejected' = [rejected EXCEPT ![s] = {}]
           ELSE UNCHANGED <<listed, rejected>>
  BY DEF Browsers!Cleaned
<1>2. UNCHANGED browserCall /\ cleanup[s] = "running" BY DEF Browsers!Cleaned
<1>3. Begun(s) BY <1>2 DEF Started, SessionsFit
<1>4. browser'[s] \in {"up", "ended"} /\ \A t \in Op \ {s} : browser'[t] = browser[t]
  BY <1>1, <1>3 DEF BrowserTypes, SessionRow, Begun
<1>5. \A t \in Op \ {s} : /\ cleanup'[t] = cleanup[t] /\ rejected'[t] = rejected[t]
                          /\ t \in listed' => t \in listed
  BY <1>1 DEF BrowserTypes, SessionRow
<1>6. SessionsFit'
  <2>1. cleanup'[s] = "done" => browser'[s] = "ended" BY <1>1 DEF BrowserTypes, SessionRow
  <2> QED BY <1>4, <1>5, <2>1 DEF Started, SessionsFit, Begun
<1>7. CallsFit'
  <2> SUFFICES ASSUME NEW k \in Process PROVE Fits(browserCall[k])' BY DEF CallsFit
  <2>1. Fits(browserCall[k]) BY DEF Started, CallsFit
  <2>2. browserCall[k].on \in Op \cup {None} BY DEF BrowserTypes, SessionRow
  <2>3. browser[s] = "ended" => browser'[s] = "ended" BY <1>1 DEF BrowserTypes, SessionRow
  <2> QED BY <1>2, <1>3, <1>4, <2>1, <2>2, <2>3 DEF Fits, Begun
<1> QED BY <1>6, <1>7 DEF Started

\* It forgets a session only with its browser.
LEMMA CleanedKept ==
  ASSUME NEW s \in Op, BrowserTypes, Started, Browsers!BrowsersKept, Browsers!Cleaned(s)
  PROVE  Browsers!BrowsersKept'
<1>1. PICK ended \in BOOLEAN, ok \in BOOLEAN :
        /\ ok => ended
        /\ IF ended THEN browser' = [browser EXCEPT ![s] = "ended"] /\ live' = [live EXCEPT ![s] = {}]
           ELSE browser' = browser /\ live' = live
        /\ IF ok THEN /\ listed' = listed \ {s} /\ rejected' = [rejected EXCEPT ![s] = {}]
                      /\ tabs' = [tabs EXCEPT ![s] = {}]
           ELSE UNCHANGED <<listed, rejected, tabs>>
  BY DEF Browsers!Cleaned
<1>2. UNCHANGED <<closing, leaked>> BY DEF Browsers!Cleaned
<1>3. CASE ended
  BY <1>1, <1>2, <1>3 DEF BrowserTypes, SessionRow, Browsers!BrowsersKept, Browsers!Up
<1>4. CASE ~ended
  BY <1>1, <1>2, <1>4 DEF BrowserTypes, SessionRow, Browsers!BrowsersKept, Browsers!Up
<1> QED BY <1>3, <1>4

\* A call that arrives or launches is a call.
LEMMA SetsTypes ==
  ASSUME NEW k \in Process, NEW does \in {"open", "tab_open", "tab_close", "stop"},
         NEW pc \in SessionPc, NEW s \in Op \cup {None}, NEW p \in Nat, BrowserTypes,
         Browsers!Sets(k, does, pc, s, p)
  PROVE  browserCall' \in [Process -> SessionRow]
  BY DEF BrowserTypes, SessionRow, SessionPc, Browsers!Sets

\* A call arrives.
LEMMA ArriveTypes ==
  ASSUME NEW k \in Process, BrowserTypes, Browsers!Arrive(k)
  PROVE  BrowserTypes'
<1>1. UNCHANGED <<listed, browser, live, tabs, rejected, closing, cleanup>>
  BY DEF Browsers!Arrive, Browsers!sessions, Browsers!pages
<1>2. CASE Browsers!Sets(k, "open", "lock", None, 0)
  BY <1>1, <1>2, SetsTypes DEF BrowserTypes, SessionRow, SessionPc
<1>3. ASSUME NEW s \in listed, NEW does \in {"tab_open", "tab_close", "stop"}, NEW p \in 1..MaxPages,
             Browsers!Sets(k, does, IF does = "stop" THEN "lock" ELSE "tabs", s, p)
      PROVE BrowserTypes'
  <2>1. s \in Op /\ p \in Nat BY DEF BrowserTypes, SessionRow
  <2>2. PICK pc \in SessionPc : Browsers!Sets(k, does, pc, s, p) BY <1>3 DEF SessionPc
  <2>3. does \in {"open", "tab_open", "tab_close", "stop"} OBVIOUS
  <2>4. browserCall' \in [Process -> SessionRow]
    BY <2>1, <2>2, <2>3, SetsTypes
  <2> QED BY <1>1, <2>4 DEF BrowserTypes, SessionRow
<1> QED BY <1>2, <1>3 DEF Browsers!Arrive

\* A call launches a session, or cannot.
LEMMA LaunchTypes ==
  ASSUME NEW k \in Process, BrowserTypes, Browsers!Launch(k)
  PROVE  BrowserTypes'
<1>1. UNCHANGED <<listed, live, tabs, rejected, closing, cleanup>>
  BY DEF Browsers!Launch, Browsers!pages
<1>2. \/ Browsers!Answer(k, "failed") /\ UNCHANGED browser
      \/ \E s \in Op : browser' = [browser EXCEPT ![s] = "starting"] /\ Browsers!Sets(k, "open", "launch", s, 0)
  BY DEF Browsers!Launch
<1>3. CASE Browsers!Answer(k, "failed") /\ UNCHANGED browser
  BY <1>1, <1>3, AnswerTypes DEF BrowserTypes, SessionRow
<1>4. ASSUME NEW s \in Op, browser' = [browser EXCEPT ![s] = "starting"], Browsers!Sets(k, "open", "launch", s, 0)
      PROVE BrowserTypes'
  BY <1>1, <1>4, SetsTypes DEF BrowserTypes, SessionRow, SessionPc
<1> QED BY <1>2, <1>3, <1>4

\* A browser that starts is listed, or its cleanup has failed.
LEMMA LaunchedKept ==
  ASSUME NEW k \in Process, BrowserTypes, Started, Browsers!BrowsersKept, Browsers!Launched(k)
  PROVE  Browsers!BrowsersKept'
<1> DEFINE s == browserCall[k].on
<1>1. s \in Op BY OnOp DEF Browsers!Launched, Browsers!At
<1>2. closing' = closing BY DEF Browsers!Launched
<1>3. \/ /\ browser' = [browser EXCEPT ![s] = "up"] /\ listed' = listed \cup {s} /\ leaked' = leaked
         /\ live' = [live EXCEPT ![s] = {1}] /\ tabs' = [tabs EXCEPT ![s] = {1}]
         /\ rejected' = rejected
      \/ /\ browser' = [browser EXCEPT ![s] = "ended"] /\ UNCHANGED <<listed, leaked, live, tabs, rejected>>
      \/ /\ browser' = [browser EXCEPT ![s] = "up"] /\ leaked' = leaked \cup {s}
         /\ UNCHANGED <<listed, live, tabs, rejected>>
  BY DEF Browsers!Launched, Browsers!pages
<1> HIDE DEF s
<1>4. ASSUME NEW t \in Op PROVE (Browsers!Up(t) => t \in listed \cup leaked)'
  BY <1>1, <1>3 DEF BrowserTypes, SessionRow, Browsers!BrowsersKept, Browsers!Up
<1>5. ASSUME NEW t \in Op, NEW p \in live'[t]
      PROVE  p \in tabs'[t] \cup rejected'[t] \/ t \in closing'
  BY <1>1, <1>2, <1>3 DEF BrowserTypes, SessionRow, Browsers!BrowsersKept
<1> QED BY <1>4, <1>5 DEF Browsers!BrowsersKept

\* A browser that ends by itself had been started.
LEMMA EndsStarted ==
  ASSUME NEW s \in Op, BrowserTypes, Started, Browsers!Ends(s)
  PROVE  Started'
<1>1. UNCHANGED <<listed, rejected, cleanup, browserCall>> BY DEF Browsers!Ends
<1>2. browser[s] = "up" /\ browser' = [browser EXCEPT ![s] = "ended"]
  BY DEF Browsers!Ends, Browsers!Up
<1>3. SessionsFit' BY <1>1, <1>2 DEF BrowserTypes, SessionRow, Started, SessionsFit, Begun
<1>4. ASSUME NEW k \in Process PROVE Fits(browserCall[k])'
  BY <1>1, <1>2 DEF BrowserTypes, SessionRow, Started, CallsFit, Fits, Begun
<1> QED BY <1>3, <1>4 DEF Started, CallsFit

\* A call arrives for a listed session, or for a new one.
LEMMA ArriveStarted ==
  ASSUME NEW k \in Process, BrowserTypes, Started, Browsers!Arrive(k)
  PROVE  Started'
<1>1. UNCHANGED <<browser, listed, rejected, cleanup>>
  BY DEF Browsers!Arrive, Browsers!sessions, Browsers!pages
<1>2. PICK does, pc, s, p : /\ Browsers!Sets(k, does, pc, s, p)
        /\ \/ does = "open" /\ pc = "lock" /\ s = None
           \/ does \in {"tab_open", "tab_close", "stop"} /\ pc \in {"lock", "tabs"} /\ s \in listed
  BY DEF Browsers!Arrive
<1>3. SessionsFit' BY <1>1 DEF Started, SessionsFit, Begun
<1>4. \A j \in Process \ {k} : browserCall'[j] = browserCall[j]
  BY <1>2 DEF BrowserTypes, SessionRow, Browsers!Sets
<1>5. ASSUME NEW j \in Process \ {k} PROVE Fits(browserCall[j])'
  BY <1>1, <1>4 DEF Started, CallsFit, Fits, Begun
<1>6. browserCall'[k] = [does |-> does, pc |-> pc, on |-> s, page |-> p, tried |-> {}, answer |-> None]
  BY <1>2 DEF BrowserTypes, SessionRow, Browsers!Sets
<1>7. s \in Op => Begun(s) /\ s # None
  BY <1>2, AgentAssumption DEF BrowserTypes, SessionRow, Started, SessionsFit
<1>8. Fits(browserCall[k])'
  BY <1>1, <1>2, <1>6, <1>7, AgentAssumption DEF BrowserTypes, SessionRow, Fits, Begun
<1> QED BY <1>3, <1>5, <1>8 DEF Started, CallsFit

\* Every step of the browsers keeps their types.
LEMMA BrowserTypesStep ==
  ASSUME BrowserTypes, Started, Browsers!ControlNext
  PROVE  BrowserTypes'
<1>1. ASSUME Browsers!Shutdown PROVE BrowserTypes'
  BY <1>1, AgentAssumption DEF BrowserTypes, SessionRow, SessionPc, Started, CallsFit, Fits,
     Browsers!Shutdown, Browsers!pages
<1>2. ASSUME NEW s \in Op, Browsers!Popup(s) PROVE BrowserTypes'
  BY <1>2, PopupTypes
<1>3. ASSUME NEW s \in Op, Browsers!PageCloses(s) PROVE BrowserTypes'
  BY <1>3, AgentAssumption DEF BrowserTypes, SessionRow, SessionPc, Started, CallsFit, Fits,
     Browsers!PageCloses, Browsers!Gone, Browsers!sessions
<1>4. ASSUME NEW s \in Op, Browsers!CloseExcess(s) PROVE BrowserTypes'
  BY <1>4, CloseExcessTypes
<1>5. ASSUME NEW s \in Op, Browsers!Ends(s) PROVE BrowserTypes'
  BY <1>5, AgentAssumption DEF BrowserTypes, SessionRow, SessionPc, Started, CallsFit, Fits,
     Browsers!Ends
<1>6. ASSUME NEW s \in Op, Browsers!Cleaned(s) PROVE BrowserTypes'
  BY <1>6, AgentAssumption DEF BrowserTypes, SessionRow, SessionPc, Started, CallsFit, Fits,
     Browsers!Cleaned
<1>7. ASSUME NEW k \in Process, Browsers!Arrive(k) PROVE BrowserTypes'
  BY <1>7, ArriveTypes
<1>8. ASSUME NEW k \in Process, Browsers!Lock(k) PROVE BrowserTypes'
  BY <1>8, AgentAssumption DEF BrowserTypes, SessionRow, SessionPc, Started, CallsFit, Fits,
     Browsers!Lock, Browsers!At, Browsers!Goto, Browsers!sessions, Browsers!pages
<1>9. ASSUME NEW k \in Process, Browsers!Reap(k) PROVE BrowserTypes'
  BY <1>9, AgentAssumption DEF BrowserTypes, SessionRow, SessionPc, Started, CallsFit, Fits,
     Browsers!Reap, Browsers!At, Browsers!Dead, Browsers!BeginClose, Browsers!pages
<1>10. ASSUME NEW k \in Process, Browsers!Reaped(k) PROVE BrowserTypes'
  BY <1>10, AgentAssumption DEF BrowserTypes, SessionRow, SessionPc, Started, CallsFit, Fits,
     Browsers!Reaped, Browsers!At, Browsers!Goto, Browsers!sessions, Browsers!pages
<1>11. ASSUME NEW k \in Process, Browsers!Launch(k) PROVE BrowserTypes'
  BY <1>11, LaunchTypes
<1>12. ASSUME NEW k \in Process, Browsers!Launched(k) PROVE BrowserTypes'
  BY <1>12, AgentAssumption, SMTT(30) DEF BrowserTypes, SessionRow, SessionPc, Started, CallsFit, Fits,
     Browsers!Launched, Browsers!At, Browsers!Answer, Browsers!Idle, Browsers!pages
<1>13. ASSUME NEW k \in Process, Browsers!Tabs(k) PROVE BrowserTypes'
  BY <1>13, TabsTypes
<1>14. ASSUME NEW k \in Process, Browsers!TabOpens(k) PROVE BrowserTypes'
  BY <1>14, TabOpensTypes
<1>15. ASSUME NEW k \in Process, Browsers!TabUnknown(k) PROVE BrowserTypes'
  BY <1>15, AgentAssumption DEF BrowserTypes, SessionRow, SessionPc, Started, CallsFit, Fits,
     Browsers!TabUnknown, Browsers!At, Browsers!Answer, Browsers!Idle, Browsers!sessions,
     Browsers!pages
<1>16. ASSUME NEW k \in Process, Browsers!TabCloses(k) PROVE BrowserTypes'
  BY <1>16, TabClosesTypes
<1>17. ASSUME NEW k \in Process, Browsers!Waited(k) PROVE BrowserTypes'
  BY <1>17, AgentAssumption DEF BrowserTypes, SessionRow, SessionPc, Started, CallsFit, Fits,
     Browsers!Waited, Browsers!At, Browsers!Answer, Browsers!Idle, Browsers!sessions,
     Browsers!pages
<1> QED
  BY <1>1, <1>2, <1>3, <1>4, <1>5, <1>6, <1>7, <1>8, <1>9, <1>10, <1>11, <1>12, <1>13, <1>14,
     <1>15, <1>16, <1>17 DEF Browsers!ControlNext

\* Every step works on sessions that have been started.
LEMMA StartedStep ==
  ASSUME BrowserTypes, Started, OneLaunch, Browsers!ControlNext
  PROVE  Started'
<1>1. ASSUME Browsers!Shutdown PROVE Started'
  BY <1>1, AgentAssumption DEF BrowserTypes, SessionRow, SessionPc, Started, OneLaunch,
     SessionsFit, CallsFit, Fits, Begun, Browsers!Shutdown, Browsers!pages
<1>2. ASSUME NEW s \in Op, Browsers!Popup(s) PROVE Started'
  BY <1>2, AgentAssumption DEF BrowserTypes, SessionRow, SessionPc, Started, OneLaunch,
     SessionsFit, CallsFit, Fits, Begun, Browsers!Popup, Browsers!NewPage, Browsers!Register,
     Browsers!BeginClose
<1>3. ASSUME NEW s \in Op, Browsers!PageCloses(s) PROVE Started'
  BY <1>3, AgentAssumption DEF BrowserTypes, SessionRow, SessionPc, Started, OneLaunch,
     SessionsFit, CallsFit, Fits, Begun, Browsers!PageCloses, Browsers!Gone, Browsers!sessions
<1>4. ASSUME NEW s \in Op, Browsers!CloseExcess(s) PROVE Started'
  BY <1>4, AgentAssumption DEF BrowserTypes, SessionRow, SessionPc, Started, OneLaunch,
     SessionsFit, CallsFit, Fits, Begun, Browsers!CloseExcess, Browsers!BeginClose, Browsers!Gone
<1>5. ASSUME NEW s \in Op, Browsers!Ends(s) PROVE Started'
  BY <1>5, EndsStarted
<1>6. ASSUME NEW s \in Op, Browsers!Cleaned(s) PROVE Started'
  BY <1>6, CleanedStarted
<1>7. ASSUME NEW k \in Process, Browsers!Arrive(k) PROVE Started'
  BY <1>7, ArriveStarted
<1>8. ASSUME NEW k \in Process, Browsers!Lock(k) PROVE Started'
  BY <1>8, LockStarted
<1>9. ASSUME NEW k \in Process, Browsers!Reap(k) PROVE Started'
  BY <1>9, AgentAssumption DEF BrowserTypes, SessionRow, SessionPc, Started, OneLaunch,
     SessionsFit, CallsFit, Fits, Begun, Browsers!Reap, Browsers!At, Browsers!Dead,
     Browsers!BeginClose, Browsers!pages
<1>10. ASSUME NEW k \in Process, Browsers!Reaped(k) PROVE Started'
  BY <1>10, AgentAssumption DEF BrowserTypes, SessionRow, SessionPc, Started, OneLaunch,
     SessionsFit, CallsFit, Fits, Begun, Browsers!Reaped, Browsers!At, Browsers!Goto,
     Browsers!sessions, Browsers!pages
<1>11. ASSUME NEW k \in Process, Browsers!Launch(k) PROVE Started'
  BY <1>11, AgentAssumption DEF BrowserTypes, SessionRow, SessionPc, Started, OneLaunch,
     SessionsFit, CallsFit, Fits, Begun, Browsers!Launch, Browsers!At, Browsers!Answer,
     Browsers!Idle, Browsers!Sets, Browsers!pages
<1>12. ASSUME NEW k \in Process, Browsers!Launched(k) PROVE Started'
  BY <1>12, LaunchedStarted
<1>13. ASSUME NEW k \in Process, Browsers!Tabs(k) PROVE Started'
  BY <1>13, TabsStarted
<1>14. ASSUME NEW k \in Process, Browsers!TabOpens(k) PROVE Started'
  BY <1>14, AgentAssumption, ZenonT(40) DEF BrowserTypes, SessionRow, SessionPc, Started, OneLaunch,
     SessionsFit, CallsFit, Fits, Begun, Browsers!TabOpens, Browsers!At, Browsers!NewPage,
     Browsers!Register, Browsers!BeginClose, Browsers!Answer, Browsers!Idle
<1>15. ASSUME NEW k \in Process, Browsers!TabUnknown(k) PROVE Started'
  BY <1>15, AgentAssumption DEF BrowserTypes, SessionRow, SessionPc, Started, OneLaunch,
     SessionsFit, CallsFit, Fits, Begun, Browsers!TabUnknown, Browsers!At, Browsers!Answer,
     Browsers!Idle, Browsers!sessions, Browsers!pages
<1>16. ASSUME NEW k \in Process, Browsers!TabCloses(k) PROVE Started'
  BY <1>16, AgentAssumption DEF BrowserTypes, SessionRow, SessionPc, Started, OneLaunch,
     SessionsFit, CallsFit, Fits, Begun, Browsers!TabCloses, Browsers!At, Browsers!Goto,
     Browsers!Answer, Browsers!Idle, Browsers!BeginClose
<1>17. ASSUME NEW k \in Process, Browsers!Waited(k) PROVE Started'
  BY <1>17, AgentAssumption DEF BrowserTypes, SessionRow, SessionPc, Started, OneLaunch,
     SessionsFit, CallsFit, Fits, Begun, Browsers!Waited, Browsers!At, Browsers!Answer,
     Browsers!Idle, Browsers!sessions, Browsers!pages
<1> QED
  BY <1>1, <1>2, <1>3, <1>4, <1>5, <1>6, <1>7, <1>8, <1>9, <1>10, <1>11, <1>12, <1>13, <1>14,
     <1>15, <1>16, <1>17 DEF Browsers!ControlNext

\* Two calls never launch one session.
LEMMA OneLaunchStep ==
  ASSUME BrowserTypes, Started, OneLaunch, Browsers!ControlNext
  PROVE  OneLaunch'
<1>1. ASSUME Browsers!Shutdown PROVE OneLaunch'
  BY <1>1, AgentAssumption DEF BrowserTypes, SessionRow, SessionPc, Started, OneLaunch, CallsFit,
     Fits, Browsers!Shutdown, Browsers!pages
<1>2. ASSUME NEW s \in Op, Browsers!Popup(s) PROVE OneLaunch'
  BY <1>2, AgentAssumption DEF BrowserTypes, SessionRow, SessionPc, Started, OneLaunch, CallsFit,
     Fits, Browsers!Popup, Browsers!NewPage, Browsers!Register, Browsers!BeginClose
<1>3. ASSUME NEW s \in Op, Browsers!PageCloses(s) PROVE OneLaunch'
  BY <1>3, AgentAssumption DEF BrowserTypes, SessionRow, SessionPc, Started, OneLaunch, CallsFit,
     Fits, Browsers!PageCloses, Browsers!Gone, Browsers!sessions
<1>4. ASSUME NEW s \in Op, Browsers!CloseExcess(s) PROVE OneLaunch'
  BY <1>4, AgentAssumption DEF BrowserTypes, SessionRow, SessionPc, Started, OneLaunch, CallsFit,
     Fits, Browsers!CloseExcess, Browsers!BeginClose, Browsers!Gone
<1>5. ASSUME NEW s \in Op, Browsers!Ends(s) PROVE OneLaunch'
  BY <1>5, AgentAssumption DEF BrowserTypes, SessionRow, SessionPc, Started, OneLaunch, CallsFit,
     Fits, Browsers!Ends
<1>6. ASSUME NEW s \in Op, Browsers!Cleaned(s) PROVE OneLaunch'
  BY <1>6, AgentAssumption DEF BrowserTypes, SessionRow, SessionPc, Started, OneLaunch, CallsFit,
     Fits, Browsers!Cleaned
<1>7. ASSUME NEW k \in Process, Browsers!Arrive(k) PROVE OneLaunch'
  BY <1>7, AgentAssumption DEF BrowserTypes, SessionRow, SessionPc, Started, OneLaunch, CallsFit,
     Fits, Browsers!Arrive, Browsers!At, Browsers!Sets, Browsers!sessions, Browsers!pages
<1>8. ASSUME NEW k \in Process, Browsers!Lock(k) PROVE OneLaunch'
  BY <1>8, AgentAssumption DEF BrowserTypes, SessionRow, SessionPc, Started, OneLaunch, CallsFit,
     Fits, Browsers!Lock, Browsers!At, Browsers!Goto, Browsers!sessions, Browsers!pages
<1>9. ASSUME NEW k \in Process, Browsers!Reap(k) PROVE OneLaunch'
  BY <1>9, AgentAssumption DEF BrowserTypes, SessionRow, SessionPc, Started, OneLaunch, CallsFit,
     Fits, Browsers!Reap, Browsers!At, Browsers!Dead, Browsers!BeginClose, Browsers!pages
<1>10. ASSUME NEW k \in Process, Browsers!Reaped(k) PROVE OneLaunch'
  BY <1>10, AgentAssumption DEF BrowserTypes, SessionRow, SessionPc, Started, OneLaunch, CallsFit,
     Fits, Browsers!Reaped, Browsers!At, Browsers!Goto, Browsers!sessions, Browsers!pages
<1>11. ASSUME NEW k \in Process, Browsers!Launch(k) PROVE OneLaunch'
  BY <1>11, AgentAssumption DEF BrowserTypes, SessionRow, SessionPc, Started, OneLaunch, CallsFit,
     Fits, Browsers!Launch, Browsers!At, Browsers!Answer, Browsers!Idle, Browsers!Sets,
     Browsers!pages
<1>12. ASSUME NEW k \in Process, Browsers!Launched(k) PROVE OneLaunch'
  BY <1>12, AgentAssumption DEF BrowserTypes, SessionRow, SessionPc, Started, OneLaunch, CallsFit,
     Fits, Browsers!Launched, Browsers!At, Browsers!Answer, Browsers!Idle, Browsers!pages
<1>13. ASSUME NEW k \in Process, Browsers!Tabs(k) PROVE OneLaunch'
  BY <1>13, AgentAssumption DEF BrowserTypes, SessionRow, SessionPc, Started, OneLaunch, CallsFit,
     Fits, Browsers!Tabs, Browsers!At, Browsers!Goto, Browsers!Answer, Browsers!Idle,
     Browsers!BeginClose, Browsers!pages
<1>14. ASSUME NEW k \in Process, Browsers!TabOpens(k) PROVE OneLaunch'
  BY <1>14, AgentAssumption DEF BrowserTypes, SessionRow, SessionPc, Started, OneLaunch, CallsFit,
     Fits, Browsers!TabOpens, Browsers!At, Browsers!NewPage, Browsers!Register,
     Browsers!BeginClose, Browsers!Answer, Browsers!Idle
<1>15. ASSUME NEW k \in Process, Browsers!TabUnknown(k) PROVE OneLaunch'
  BY <1>15, AgentAssumption DEF BrowserTypes, SessionRow, SessionPc, Started, OneLaunch, CallsFit,
     Fits, Browsers!TabUnknown, Browsers!At, Browsers!Answer, Browsers!Idle, Browsers!sessions,
     Browsers!pages
<1>16. ASSUME NEW k \in Process, Browsers!TabCloses(k) PROVE OneLaunch'
  BY <1>16, AgentAssumption DEF BrowserTypes, SessionRow, SessionPc, Started, OneLaunch, CallsFit,
     Fits, Browsers!TabCloses, Browsers!At, Browsers!Goto, Browsers!Answer, Browsers!Idle,
     Browsers!BeginClose
<1>17. ASSUME NEW k \in Process, Browsers!Waited(k) PROVE OneLaunch'
  BY <1>17, AgentAssumption DEF BrowserTypes, SessionRow, SessionPc, Started, OneLaunch, CallsFit,
     Fits, Browsers!Waited, Browsers!At, Browsers!Answer, Browsers!Idle, Browsers!sessions,
     Browsers!pages
<1> QED
  BY <1>1, <1>2, <1>3, <1>4, <1>5, <1>6, <1>7, <1>8, <1>9, <1>10, <1>11, <1>12, <1>13, <1>14,
     <1>15, <1>16, <1>17 DEF Browsers!ControlNext

\* No step forgets a browser that runs, or one of its pages.
LEMMA BrowsersKeptStep ==
  ASSUME BrowserTypes, Started, Browsers!BrowsersKept, Browsers!ControlNext
  PROVE  Browsers!BrowsersKept'
<1>1. ASSUME Browsers!Shutdown PROVE Browsers!BrowsersKept'
  BY <1>1, AgentAssumption DEF BrowserTypes, SessionRow, Started, CallsFit, Fits, Begun,
     Browsers!BrowsersKept, Browsers!Up, Browsers!Shutdown, Browsers!pages
<1>2. ASSUME NEW s \in Op, Browsers!Popup(s) PROVE Browsers!BrowsersKept'
  BY <1>2, AgentAssumption DEF BrowserTypes, SessionRow, Started, CallsFit, Fits, Begun,
     Browsers!BrowsersKept, Browsers!Up, Browsers!Popup, Browsers!NewPage, Browsers!Register,
     Browsers!BeginClose
<1>3. ASSUME NEW s \in Op, Browsers!PageCloses(s) PROVE Browsers!BrowsersKept'
  BY <1>3, AgentAssumption DEF BrowserTypes, SessionRow, Started, CallsFit, Fits, Begun,
     Browsers!BrowsersKept, Browsers!Up, Browsers!PageCloses, Browsers!Gone, Browsers!sessions
<1>4. ASSUME NEW s \in Op, Browsers!CloseExcess(s) PROVE Browsers!BrowsersKept'
  BY <1>4, AgentAssumption DEF BrowserTypes, SessionRow, Started, CallsFit, Fits, Begun,
     Browsers!BrowsersKept, Browsers!Up, Browsers!CloseExcess, Browsers!BeginClose, Browsers!Gone
<1>5. ASSUME NEW s \in Op, Browsers!Ends(s) PROVE Browsers!BrowsersKept'
  BY <1>5, AgentAssumption DEF BrowserTypes, SessionRow, Started, CallsFit, Fits, Begun,
     Browsers!BrowsersKept, Browsers!Up, Browsers!Ends
<1>6. ASSUME NEW s \in Op, Browsers!Cleaned(s) PROVE Browsers!BrowsersKept'
  BY <1>6, CleanedKept
<1>7. ASSUME NEW k \in Process, Browsers!Arrive(k) PROVE Browsers!BrowsersKept'
  BY <1>7, AgentAssumption DEF BrowserTypes, SessionRow, Started, CallsFit, Fits, Begun,
     Browsers!BrowsersKept, Browsers!Up, Browsers!Arrive, Browsers!At, Browsers!Sets,
     Browsers!sessions, Browsers!pages
<1>8. ASSUME NEW k \in Process, Browsers!Lock(k) PROVE Browsers!BrowsersKept'
  BY <1>8, AgentAssumption DEF BrowserTypes, SessionRow, Started, CallsFit, Fits, Begun,
     Browsers!BrowsersKept, Browsers!Up, Browsers!Lock, Browsers!At, Browsers!Goto,
     Browsers!sessions, Browsers!pages
<1>9. ASSUME NEW k \in Process, Browsers!Reap(k) PROVE Browsers!BrowsersKept'
  BY <1>9, AgentAssumption DEF BrowserTypes, SessionRow, Started, CallsFit, Fits, Begun,
     Browsers!BrowsersKept, Browsers!Up, Browsers!Reap, Browsers!At, Browsers!Dead,
     Browsers!BeginClose, Browsers!pages
<1>10. ASSUME NEW k \in Process, Browsers!Reaped(k) PROVE Browsers!BrowsersKept'
  BY <1>10, AgentAssumption DEF BrowserTypes, SessionRow, Started, CallsFit, Fits, Begun,
     Browsers!BrowsersKept, Browsers!Up, Browsers!Reaped, Browsers!At, Browsers!Goto,
     Browsers!sessions, Browsers!pages
<1>11. ASSUME NEW k \in Process, Browsers!Launch(k) PROVE Browsers!BrowsersKept'
  BY <1>11, AgentAssumption DEF BrowserTypes, SessionRow, Started, CallsFit, Fits, Begun,
     Browsers!BrowsersKept, Browsers!Up, Browsers!Launch, Browsers!At, Browsers!Answer,
     Browsers!Idle, Browsers!Sets, Browsers!pages
<1>12. ASSUME NEW k \in Process, Browsers!Launched(k) PROVE Browsers!BrowsersKept'
  BY <1>12, LaunchedKept
<1>13. ASSUME NEW k \in Process, Browsers!Tabs(k) PROVE Browsers!BrowsersKept'
  BY <1>13, AgentAssumption DEF BrowserTypes, SessionRow, Started, CallsFit, Fits, Begun,
     Browsers!BrowsersKept, Browsers!Up, Browsers!Tabs, Browsers!At, Browsers!Goto,
     Browsers!Answer, Browsers!Idle, Browsers!BeginClose, Browsers!pages
<1>14. ASSUME NEW k \in Process, Browsers!TabOpens(k) PROVE Browsers!BrowsersKept'
  BY <1>14, AgentAssumption DEF BrowserTypes, SessionRow, Started, CallsFit, Fits, Begun,
     Browsers!BrowsersKept, Browsers!Up, Browsers!TabOpens, Browsers!At, Browsers!NewPage,
     Browsers!Register, Browsers!BeginClose, Browsers!Answer, Browsers!Idle
<1>15. ASSUME NEW k \in Process, Browsers!TabUnknown(k) PROVE Browsers!BrowsersKept'
  BY <1>15, AgentAssumption DEF BrowserTypes, SessionRow, Started, CallsFit, Fits, Begun,
     Browsers!BrowsersKept, Browsers!Up, Browsers!TabUnknown, Browsers!At, Browsers!Answer,
     Browsers!Idle, Browsers!sessions, Browsers!pages
<1>16. ASSUME NEW k \in Process, Browsers!TabCloses(k) PROVE Browsers!BrowsersKept'
  BY <1>16, TabClosesKept
<1>17. ASSUME NEW k \in Process, Browsers!Waited(k) PROVE Browsers!BrowsersKept'
  BY <1>17, AgentAssumption DEF BrowserTypes, SessionRow, Started, CallsFit, Fits, Begun,
     Browsers!BrowsersKept, Browsers!Up, Browsers!Waited, Browsers!At, Browsers!Answer,
     Browsers!Idle, Browsers!sessions, Browsers!pages
<1> QED
  BY <1>1, <1>2, <1>3, <1>4, <1>5, <1>6, <1>7, <1>8, <1>9, <1>10, <1>11, <1>12, <1>13, <1>14,
     <1>15, <1>16, <1>17 DEF Browsers!ControlNext

\* No browser, and no call.
LEMMA BrowsersInitially ==
  ASSUME Browsers!ControlInit
  PROVE  BrowserInv
<1>1. BrowserTypes
  BY AgentAssumption DEF Browsers!ControlInit, BrowserTypes, SessionRow, SessionPc, Browsers!Idle
<1>2. Started
  BY AgentAssumption DEF Browsers!ControlInit, Started, SessionsFit, CallsFit, Fits, Begun,
     Browsers!Idle
<1>3. OneLaunch BY DEF Browsers!ControlInit, OneLaunch, Browsers!Idle
<1>4. Browsers!BrowsersKept BY DEF Browsers!ControlInit, Browsers!BrowsersKept, Browsers!Up
<1> QED BY <1>1, <1>2, <1>3, <1>4 DEF BrowserInv

\* Every step of the browsers keeps their invariant.
LEMMA BrowsersStep ==
  ASSUME BrowserInv, Browsers!ControlNext
  PROVE  BrowserInv'
  BY BrowserTypesStep, StartedStep, OneLaunchStep, BrowsersKeptStep DEF BrowserInv

\* Nothing else touches it.
LEMMA BrowsersStay ==
  ASSUME BrowserInv, UNCHANGED browserVars
  PROVE  BrowserInv'
  BY DEF BrowserInv, browserVars, BrowserTypes, SessionRow, Started, SessionsFit, CallsFit, Fits,
     Begun, OneLaunch,
         Browsers!BrowsersKept, Browsers!Up

\* Whoever was told that a session is closed saw its cleanup done.
LEMMA BrowsersKeep ==
  ASSUME BrowserInv
  PROVE  Browsers!BrowsersKept /\ Browsers!ClosedIsEnded
  BY DEF BrowserInv, BrowserTypes, SessionRow, Started, CallsFit, Fits, Browsers!ClosedIsEnded,
     Browsers!Up

-----------------------------------------------------------------------------
(* The agents and their releases. *)

RunPc == {"idle", "lock", "look", "stop", "wait", "pid", "spawn", "poll", "save", "clear"}
CallPc == {"idle", "check", "decide", "activate", "child", "ensure"}
Phase == {"off", "booting", "opening", "serving", "stopping", "closing"}

AgentRow == [version : 0..MaxVersion, phase : Phase, busy : BOOLEAN]
CallRow == [kind : {"none", "connect", "update"}, pc : CallPc, version : 0..MaxVersion]
RunRow == [pc : RunPc, version : 0..MaxVersion, ok : BOOLEAN]

AgentTypes ==
    /\ selection \in 0..MaxVersion /\ intent \in 0..MaxVersion /\ latest \in Agents!Version
    /\ record \in [version : 0..MaxVersion, state : {"none", "prepared", "applied"}]
    /\ agent \in [Op -> AgentRow] /\ call \in [Process -> CallRow]
    /\ run \in [Agents!Actor -> RunRow]
    /\ downed \in BOOLEAN

\* One agent has the store open; only while it serves does it work, and everybody who
\* serves can be found and has answered.
OneAgent ==
    /\ \A s, t \in Agents!Locked : s = t
    /\ \A s \in Op : /\ agent[s].phase = "serving" => endpoint = s /\ agent[s].version \in ready
                     /\ agent[s].phase # "serving" => ~agent[s].busy

\* Versions are of releases.
Released ==
    /\ record.state # "none" => record.version # 0
    /\ \A c \in Process : /\ call[c].pc \in {"activate", "child"} => record.version # 0
                          /\ call[c].kind = "connect" => call[c].version # 0
    /\ \A a \in Agents!Actor : run[a].pc # "idle" => run[a].version # 0

\* Who is past startup.lock holds it; whose child a run is.
Holding ==
    /\ \A a \in Agents!Actor : run[a].pc \notin {"idle", "lock"} => starting = a
    /\ \A c \in Process :
          /\ call[c].pc # "ensure" => run[Agents!Self(c)].pc = "idle"
          /\ call[c].pc \in {"check", "decide", "activate", "ensure"} => run[Agents!Child(c)].pc = "idle"

\* What the holder has seen of the intent, and what it has done to it.
Fitting(a) ==
    /\ run[a].pc \notin {"idle", "lock"} /\ ~Agents!Replaces(a) =>
          intent = 0 /\ run[a].pc \notin {"stop", "save", "clear"}
    /\ run[a].pc \in {"stop", "wait", "spawn"} /\ Agents!Replaces(a) => intent = run[a].version
    /\ run[a].pc \in {"save", "clear"} => ~downed /\ run[a].version \in ready
Intended ==
    /\ \A a \in Agents!Actor : Fitting(a)
    /\ downed => intent # 0 /\ \A s \in Op : agent[s].phase # "serving"

AgentInv == AgentTypes /\ OneAgent /\ Released /\ Holding /\ Intended /\ Agents!PublishedReady

\* A caller is one actor, and its `start` child another.
LEMMA Actors ==
  ASSUME NEW c \in Process
  PROVE  /\ Agents!Self(c) \in Agents!Actor /\ Agents!Child(c) \in Agents!Actor
         /\ Agents!Self(c) # Agents!Child(c)
         /\ \A d \in Process : /\ Agents!Self(c) # Agents!Child(d)
                               /\ (Agents!Self(c) = Agents!Self(d)) => c = d
                               /\ (Agents!Child(c) = Agents!Child(d)) => c = d
         /\ ~Agents!Replaces(Agents!Self(c)) /\ Agents!Replaces(Agents!Child(c))
  BY DEF Agents!Actor, Agents!Self, Agents!Child, Agents!Replaces

\* A run that is set is a run, and the others stay.
LEMMA RunSet ==
  ASSUME NEW a \in Agents!Actor, NEW pc \in RunPc, NEW v \in 0..MaxVersion, NEW o \in BOOLEAN,
         AgentTypes, run' = [run EXCEPT ![a] = [pc |-> pc, version |-> v, ok |-> o]]
  PROVE  /\ run' \in [Agents!Actor -> RunRow] /\ run'[a].pc = pc /\ run'[a].version = v
         /\ \A b \in Agents!Actor \ {a} : run'[b] = run[b]
  BY DEF AgentTypes, RunRow

\* So is one that is over.
LEMMA RunReset ==
  ASSUME NEW a \in Agents!Actor, AgentTypes, run' = [run EXCEPT ![a] = Agents!NoRun]
  PROVE  /\ run' \in [Agents!Actor -> RunRow] /\ run'[a].pc = "idle"
         /\ \A b \in Agents!Actor \ {a} : run'[b] = run[b]
<1>1. 0 \in 0..MaxVersion BY AgentAssumption
<1>2. Agents!NoRun = [pc |-> "idle", version |-> 0, ok |-> FALSE] BY DEF Agents!NoRun
<1>3. run' = [run EXCEPT ![a] = [pc |-> "idle", version |-> 0, ok |-> FALSE]] BY <1>2
<1> QED BY <1>1, <1>3, RunSet DEF RunPc

\* A run goes on with its runtime.
LEMMA GotoMoves ==
  ASSUME NEW a \in Agents!Actor, NEW pc \in RunPc, AgentTypes, Agents!Goto(a, pc)
  PROVE  /\ run' \in [Agents!Actor -> RunRow]
         /\ run'[a].pc = pc /\ run'[a].version = run[a].version
         /\ \A b \in Agents!Actor \ {a} : run'[b] = run[b]
  BY DEF AgentTypes, RunRow, Agents!Goto

\* A run ends, and gives back startup.lock.
LEMMA EndMoves ==
  ASSUME NEW a \in Agents!Actor, NEW ok \in BOOLEAN, AgentTypes, Agents!End(a, ok)
  PROVE  /\ run' \in [Agents!Actor -> RunRow]
         /\ run'[a].pc = "idle" /\ run'[a].version = 0 /\ starting' = None
         /\ \A b \in Agents!Actor \ {a} : run'[b] = run[b]
<1>1. PICK o \in BOOLEAN : run' = [run EXCEPT ![a] = [pc |-> "idle", version |-> 0, ok |-> o]]
  <2> DEFINE o == ok /\ call[a[1]].pc = "child"
  <2>1. o \in BOOLEAN OBVIOUS
  <2>2. run' = [run EXCEPT ![a] = [Agents!NoRun EXCEPT !.ok = o]] BY DEF Agents!End
  <2> HIDE DEF o
  <2>3. [Agents!NoRun EXCEPT !.ok = o] = [pc |-> "idle", version |-> 0, ok |-> o]
    BY DEF Agents!NoRun
  <2> QED BY <2>1, <2>2, <2>3
<1>2. starting' = None BY DEF Agents!End
<1>3. 0 \in 0..MaxVersion BY AgentAssumption
<1> QED BY <1>1, <1>2, <1>3 DEF AgentTypes, RunRow, RunPc

\* A run begins in the queue for startup.lock.
LEMMA BeginsMoves ==
  ASSUME NEW a \in Agents!Actor, NEW v \in 0..MaxVersion, AgentTypes, Agents!Begins(a, v)
  PROVE  /\ run' \in [Agents!Actor -> RunRow]
         /\ run'[a].pc = "lock" /\ run'[a].version = v
         /\ \A b \in Agents!Actor \ {a} : run'[b] = run[b]
  BY DEF AgentTypes, RunRow, RunPc, Agents!Begins

\* A caller goes on with what it wants.
LEMMA CallMovesTo ==
  ASSUME NEW c \in Process, NEW pc \in CallPc, AgentTypes, Agents!Call(c, pc)
  PROVE  /\ call' \in [Process -> CallRow]
         /\ call'[c].pc = pc /\ call'[c].kind = call[c].kind /\ call'[c].version = call[c].version
         /\ \A d \in Process \ {c} : call'[d] = call[d]
  BY DEF AgentTypes, CallRow, CallPc, Agents!Call

\* A caller is done.
LEMMA EndCallMoves ==
  ASSUME NEW c \in Process, AgentTypes, Agents!EndCall(c)
  PROVE  /\ call' \in [Process -> CallRow]
         /\ call'[c].pc = "idle" /\ call'[c].kind = "none"
         /\ \A d \in Process \ {c} : call'[d] = call[d]
<1>1. 0 \in 0..MaxVersion BY AgentAssumption
<1> QED BY <1>1 DEF AgentTypes, CallRow, CallPc, Agents!EndCall, Agents!NoCall

\* A connector goes on to ensure_agent, without a child.
LEMMA ProceedMoves ==
  ASSUME NEW c \in Process, AgentTypes, Agents!Proceed(c)
  PROVE  /\ call' \in [Process -> CallRow] /\ run' \in [Agents!Actor -> RunRow]
         /\ call'[c].pc = "ensure" /\ call'[c].kind = call[c].kind
         /\ call'[c].version = call[c].version
         /\ \A d \in Process \ {c} : call'[d] = call[d]
         /\ run'[Agents!Child(c)].pc = "idle"
         /\ run'[Agents!Self(c)].pc = "lock" /\ run'[Agents!Self(c)].version = call[c].version
         /\ \A b \in Agents!Actor \ {Agents!Self(c), Agents!Child(c)} : run'[b] = run[b]
<1>1. 0 \in 0..MaxVersion BY AgentAssumption
<1>2. Agents!Call(c, "ensure") BY DEF Agents!Proceed
<1>3. call[c].version \in 0..MaxVersion BY DEF AgentTypes, CallRow
<1>4. PICK s \in Agents!Actor, t \in Agents!Actor : s # t /\ s = Agents!Self(c) /\ t = Agents!Child(c)
  BY Actors
<1>5. run' = [run EXCEPT ![t] = [pc |-> "idle", version |-> 0, ok |-> FALSE],
                         ![s] = [pc |-> "lock", version |-> call[c].version, ok |-> FALSE]]
  <2>2. Agents!NoRun = [pc |-> "idle", version |-> 0, ok |-> FALSE] BY DEF Agents!NoRun
  <2>3. run' = [run EXCEPT ![Agents!Child(c)] = Agents!NoRun,
           ![Agents!Self(c)] = [pc |-> "lock", version |-> call[c].version, ok |-> FALSE]]
             BY DEF Agents!Proceed
  <2> QED BY <1>4, <2>2, <2>3
<1>6. /\ run' \in [Agents!Actor -> RunRow]
      /\ run'[t].pc = "idle" /\ run'[s].pc = "lock" /\ run'[s].version = call[c].version
      /\ \A b \in Agents!Actor \ {s, t} : run'[b] = run[b]
  BY <1>1, <1>3, <1>4, <1>5 DEF AgentTypes, RunRow, RunPc
<1> QED BY <1>2, <1>4, <1>6, CallMovesTo DEF CallPc

\* What a step of caller c does.
CallerMoves(c) ==
    /\ call' \in [Process -> CallRow] /\ run' \in [Agents!Actor -> RunRow]
    /\ record' \in [version : 0..MaxVersion, state : {"none", "prepared", "applied"}]
    /\ record'.state # "none" => record'.version # 0
    /\ record.version # 0 => record'.version # 0
    /\ \A d \in Process \ {c} : call'[d] = call[d]
    /\ \A a \in Agents!Actor \ {Agents!Self(c), Agents!Child(c)} : run'[a] = run[a]
    /\ \A a \in Agents!Actor : \/ run'[a] = run[a] \/ run'[a].pc = "idle"
                               \/ (run'[a].pc = "lock" /\ run'[a].version # 0)
    /\ call'[c].pc # "ensure" => run'[Agents!Self(c)].pc = "idle"
    /\ call'[c].pc \in {"check", "decide", "activate", "ensure"} => run'[Agents!Child(c)].pc = "idle"
    /\ call'[c].pc \in {"activate", "child"} => record'.version # 0
    /\ call'[c].kind = "connect" => call'[c].version # 0

\* A caller arrives, or a `start` of its own begins.
LEMMA ArriveMoves ==
  ASSUME AgentTypes, Released, Holding, NEW c \in Process, Agents!Arrive(c)
  PROVE  CallerMoves(c)
<1>1. call[c].pc = "idle" /\ run[Agents!Child(c)].pc = "idle" /\ record' = record
  BY DEF Agents!Arrive, Agents!files
<1>2. run[Agents!Self(c)].pc = "idle" BY <1>1 DEF Holding
<1>3. ASSUME NEW v \in Agents!Version, Agents!Begins(Agents!Child(c), v), UNCHANGED call
      PROVE  CallerMoves(c)
  <2>1. v \in 0..MaxVersion /\ v # 0 BY AgentAssumption DEF Agents!Version
  <2> QED BY <1>1, <1>2, <1>3, <2>1, BeginsMoves, Actors DEF CallerMoves, AgentTypes, Released
<1>4. ASSUME NEW v \in Agents!Version, NEW kind \in {"connect", "update"}, UNCHANGED run,
         call' = [call EXCEPT ![c] = [kind |-> kind, pc |-> "check",
                                     version |-> IF kind = "update" THEN 0 ELSE v]]
      PROVE CallerMoves(c)
  <2>1. PICK w \in 0..MaxVersion : /\ kind = "connect" => w # 0
             /\ call' = [call EXCEPT ![c] = [kind |-> kind, pc |-> "check", version |-> w]]
    <3> DEFINE w == IF kind = "update" THEN 0 ELSE v
    <3>1. w \in 0..MaxVersion /\ (kind = "connect" => w # 0) BY AgentAssumption DEF Agents!Version
    <3> QED BY <1>4, <3>1
  <2> QED BY <1>1, <1>2, <1>4, <2>1 DEF CallerMoves, AgentTypes, Released, CallRow, CallPc
<1>5. \E v \in Agents!Version : \/ Agents!Begins(Agents!Child(c), v) /\ UNCHANGED call
        \/ \E kind \in {"connect", "update"} : /\ UNCHANGED run
            /\ call' = [call EXCEPT ![c] = [kind |-> kind, pc |-> "check",
                                     version |-> IF kind = "update" THEN 0 ELSE v]]
  BY DEF Agents!Arrive
<1> QED BY <1>3, <1>4, <1>5

\* Whoever proceeds is a connector, whose release is one.
LEMMA ProceedsTo ==
  ASSUME AgentTypes, Released, NEW c \in Process, call[c].kind = "connect", Agents!Proceed(c),
         record' \in [version : 0..MaxVersion, state : {"none", "prepared", "applied"}],
         record'.state # "none" => record'.version # 0,
         record.version # 0 => record'.version # 0
  PROVE  CallerMoves(c)
<1>1. call[c].version # 0 BY DEF Released
<1>2. \A a \in Agents!Actor : \/ run'[a] = run[a] \/ run'[a].pc = "idle"
                               \/ (run'[a].pc = "lock" /\ run'[a].version # 0)
  <2> TAKE a \in Agents!Actor
  <2>1. CASE a = Agents!Self(c) BY <1>1, <2>1, ProceedMoves
  <2>2. CASE a = Agents!Child(c) BY <2>2, ProceedMoves
  <2> QED BY <2>1, <2>2, ProceedMoves
<1> QED BY <1>1, <1>2, ProceedMoves, Actors DEF CallerMoves

\* A caller that ends outside ensure_agent has no run of its own.
LEMMA EndsIdle ==
  ASSUME AgentTypes, Released, Holding, NEW c \in Process, Agents!EndCall(c),
         call[c].pc # "ensure",
         \/ UNCHANGED run \/ run' = [run EXCEPT ![Agents!Child(c)] = Agents!NoRun],
         record' \in [version : 0..MaxVersion, state : {"none", "prepared", "applied"}],
         record'.state # "none" => record'.version # 0,
         record.version # 0 => record'.version # 0
  PROVE  CallerMoves(c)
<1>1. run[Agents!Self(c)].pc = "idle" BY DEF Holding
<1>3. /\ run' \in [Agents!Actor -> RunRow] /\ run'[Agents!Self(c)].pc = "idle"
      /\ \A a \in Agents!Actor : run'[a] = run[a] \/ (a = Agents!Child(c) /\ run'[a].pc = "idle")
  <2>1. CASE UNCHANGED run BY <1>1, <2>1 DEF AgentTypes
  <2>2. CASE run' = [run EXCEPT ![Agents!Child(c)] = Agents!NoRun]
    <3>1. PICK t \in Agents!Actor : t = Agents!Child(c) /\ t # Agents!Self(c) BY Actors
    <3>3. /\ run' \in [Agents!Actor -> RunRow] /\ run'[t].pc = "idle"
          /\ \A a \in Agents!Actor \ {t} : run'[a] = run[a]
      BY <2>2, <3>1, RunReset
    <3> QED BY <1>1, <3>1, <3>3, Actors
  <2> QED BY <2>1, <2>2
<1> QED BY <1>3, EndCallMoves, Actors DEF CallerMoves

\* A caller that looks for an update has no run.
LEMMA GoesTo ==
  ASSUME AgentTypes, Released, Holding, NEW c \in Process, NEW pc \in CallPc \ {"ensure"},
         Agents!Call(c, pc), call[c].pc \in {"check", "decide", "activate"}, UNCHANGED run,
         record' \in [version : 0..MaxVersion, state : {"none", "prepared", "applied"}],
         record'.state # "none" => record'.version # 0,
         record.version # 0 => record'.version # 0,
         pc \in {"activate", "child"} => record'.version # 0
  PROVE  CallerMoves(c)
<1>1. run[Agents!Self(c)].pc = "idle" /\ run[Agents!Child(c)].pc = "idle" BY DEF Holding
<1>2. call[c].kind = "connect" => call[c].version # 0 BY DEF Released
<1>3. run \in [Agents!Actor -> RunRow] BY DEF AgentTypes
<1> QED BY <1>1, <1>2, <1>3, CallMovesTo DEF CallerMoves

\* A connector that meets no update.
LEMMA ConnectMoves ==
  ASSUME AgentTypes, Released, Holding, NEW c \in Process, Agents!Connect(c)
  PROVE  CallerMoves(c)
  BY ProceedsTo DEF Agents!Connect, Agents!files, AgentTypes, Released

\* A caller that takes release-check.lock.
LEMMA CheckMoves ==
  ASSUME AgentTypes, Released, Holding, NEW c \in Process, Agents!Check(c)
  PROVE  CallerMoves(c)
  BY GoesTo DEF Agents!Check, Agents!files, AgentTypes, Released, CallPc

\* A caller that does not get it.
LEMMA BusyMoves ==
  ASSUME AgentTypes, Released, Holding, NEW c \in Process, Agents!Busy(c)
  PROVE  CallerMoves(c)
  BY EndsIdle DEF Agents!Busy, Agents!files, AgentTypes, Released

\* The record that is kept is of a release.
LEMMA RecordKept ==
  ASSUME AgentTypes, Released
  PROVE  /\ record \in [version : 0..MaxVersion, state : {"none", "prepared", "applied"}]
         /\ record.state # "none" => record.version # 0
  BY DEF AgentTypes, Released

\* What is activated is recorded, and a release.
LEMMA DecideMoves ==
  ASSUME AgentTypes, Released, Holding, NEW c \in Process, Agents!Decide(c)
  PROVE  CallerMoves(c)
<1>1. call[c].pc = "decide" BY DEF Agents!Decide
<1>2. latest \in 0..MaxVersion /\ latest # 0 BY AgentAssumption DEF AgentTypes, Agents!Version
<1>3. CASE call[c].kind = "connect"
  <2>1. record' = record BY <1>3 DEF Agents!Decide
  <2>2. \/ Agents!Proceed(c)
        \/ UNCHANGED run /\ (Agents!EndCall(c) \/ (record.version # 0 /\ Agents!Call(c, "activate")))
    BY <1>3 DEF Agents!Decide
  <2>3. CASE Agents!Proceed(c) BY <1>3, <2>1, <2>3, RecordKept, ProceedsTo
  <2>4. CASE UNCHANGED run /\ Agents!EndCall(c) BY <1>1, <2>1, <2>4, RecordKept, EndsIdle
  <2>5. CASE UNCHANGED run /\ record.version # 0 /\ Agents!Call(c, "activate")
    BY <1>1, <2>1, <2>5, RecordKept, GoesTo DEF CallPc
  <2> QED BY <2>2, <2>3, <2>4, <2>5
<1>4. CASE call[c].kind # "connect"
  <2>1. run' = run BY <1>4 DEF Agents!Decide
  <2>2. \/ record.state = "prepared" /\ Agents!Call(c, "activate") /\ record' = record
        \/ /\ Agents!Call(c, "activate")
           /\ record' = IF record.version = latest THEN record
                        ELSE [version |-> latest, state |-> "prepared"]
        \/ Agents!EndCall(c) /\ record' = record
    BY <1>4 DEF Agents!Decide
  <2>3. CASE record.state = "prepared" /\ Agents!Call(c, "activate") /\ record' = record
    BY <1>1, <2>1, <2>3, RecordKept, GoesTo DEF CallPc
  <2>4. CASE /\ Agents!Call(c, "activate")
             /\ record' = IF record.version = latest THEN record
                          ELSE [version |-> latest, state |-> "prepared"]
    <3>1. /\ record' \in [version : 0..MaxVersion, state : {"none", "prepared", "applied"}]
          /\ record'.version # 0
      BY <1>2, <2>4, RecordKept
    <3> QED BY <1>1, <2>1, <2>4, <3>1, GoesTo DEF CallPc
  <2>5. CASE Agents!EndCall(c) /\ record' = record BY <1>1, <2>1, <2>5, RecordKept, EndsIdle
  <2> QED BY <2>2, <2>3, <2>4, <2>5
<1> QED BY <1>3, <1>4

\* An outcome that is saved is of the recorded release.
LEMMA AppliedMoves ==
  ASSUME AgentTypes, Released, Holding, NEW c \in Process, call[c].pc \in {"activate", "child"},
         record.version # 0, Agents!Applied(c)
  PROVE  CallerMoves(c)
<1>1. /\ record' \in [version : 0..MaxVersion, state : {"none", "prepared", "applied"}]
      /\ record'.version = record.version
  BY RecordKept DEF Agents!Applied
<1>2. CASE call[c].kind = "connect" /\ Agents!Proceed(c) BY <1>1, <1>2, ProceedsTo
<1>3. CASE Agents!EndCall(c) /\ run' = [run EXCEPT ![Agents!Child(c)] = Agents!NoRun]
  BY <1>1, <1>3, EndsIdle
<1> QED BY <1>2, <1>3 DEF Agents!Applied

\* The prepared runtime is started by a child, or nothing is.
LEMMA ActivateMoves ==
  ASSUME AgentTypes, Released, Holding, NEW c \in Process, Agents!Activate(c)
  PROVE  CallerMoves(c)
<1>1. call[c].pc = "activate" /\ record.version # 0 BY DEF Agents!Activate, Released
<1>2. CASE Agents!Applied(c) BY <1>1, <1>2, AppliedMoves
<1>3. CASE Agents!Begins(Agents!Child(c), record.version) /\ Agents!Call(c, "child") /\ record' = record
  <2>1. /\ call' \in [Process -> CallRow] /\ call'[c].pc = "child"
        /\ call'[c].kind = call[c].kind /\ call'[c].version = call[c].version
        /\ \A d \in Process \ {c} : call'[d] = call[d]
    BY <1>3, CallMovesTo DEF CallPc
  <2>2. PICK t \in Agents!Actor : t = Agents!Child(c) /\ t # Agents!Self(c) BY Actors
  <2>3. record.version \in 0..MaxVersion BY RecordKept
  <2>4. /\ run' \in [Agents!Actor -> RunRow] /\ run'[t].pc = "lock"
        /\ run'[t].version = record.version
        /\ \A b \in Agents!Actor \ {t} : run'[b] = run[b]
    BY <1>3, <2>2, <2>3, BeginsMoves
  <2>5. run'[Agents!Self(c)].pc = "idle" BY <1>1, <2>2, <2>4, Actors DEF Holding
  <2>6. call[c].kind = "connect" => call[c].version # 0 BY DEF Released
  <2> QED BY <1>1, <1>3, <2>1, <2>2, <2>4, <2>5, <2>6, RecordKept DEF CallerMoves
<1>4. CASE Agents!EndCall(c) /\ UNCHANGED <<record, run>> BY <1>1, <1>4, RecordKept, EndsIdle
<1> QED BY <1>2, <1>3, <1>4 DEF Agents!Activate

\* The child is over before its outcome is.
LEMMA ConfirmMoves ==
  ASSUME AgentTypes, Released, Holding, NEW c \in Process, Agents!Confirm(c)
  PROVE  CallerMoves(c)
<1>1. call[c].pc = "child" BY DEF Agents!Confirm
<1>2. CASE Agents!Applied(c) /\ Agents!Running(record.version)
  <2>1. record.version # 0 BY <1>1 DEF Released
  <2> QED BY <1>1, <1>2, <2>1, AppliedMoves
<1>3. CASE /\ Agents!EndCall(c) /\ run' = [run EXCEPT ![Agents!Child(c)] = Agents!NoRun]
           /\ UNCHANGED record
  BY <1>1, <1>3, RecordKept, EndsIdle
<1> QED BY <1>2, <1>3 DEF Agents!Confirm

\* A connector ends behind its run.
LEMMA ConnectedMoves ==
  ASSUME AgentTypes, Released, Holding, NEW c \in Process, Agents!Connected(c)
  PROVE  CallerMoves(c)
<1>1. /\ call[c].pc = "ensure" /\ Agents!EndCall(c) /\ record' = record
      /\ run' = [run EXCEPT ![Agents!Self(c)] = Agents!NoRun]
        BY DEF Agents!Connected, Agents!files
<1>2. run[Agents!Child(c)].pc = "idle" BY <1>1 DEF Holding
<1>4. PICK s \in Agents!Actor : s = Agents!Self(c) /\ s # Agents!Child(c) BY Actors
<1>6. /\ run' \in [Agents!Actor -> RunRow] /\ run'[s].pc = "idle"
      /\ \A b \in Agents!Actor \ {s} : run'[b] = run[b]
  BY <1>1, <1>4, RunReset
<1> QED BY <1>1, <1>2, <1>4, <1>6, EndCallMoves, RecordKept DEF CallerMoves, Released

\* A caller that dies takes its run with it.
LEMMA KillCallMoves ==
  ASSUME AgentTypes, Released, Holding, NEW c \in Process, Agents!KillCall(c)
  PROVE  CallerMoves(c)
<1>1. /\ Agents!EndCall(c) /\ record' = record
      /\ run' = [run EXCEPT ![Agents!Self(c)] = Agents!NoRun] BY DEF Agents!KillCall, Agents!files
<1>4. PICK s \in Agents!Actor : s = Agents!Self(c) /\ s # Agents!Child(c) BY Actors
<1>6. /\ run' \in [Agents!Actor -> RunRow] /\ run'[s].pc = "idle"
      /\ \A b \in Agents!Actor \ {s} : run'[b] = run[b]
  BY <1>1, <1>4, RunReset
<1> QED BY <1>1, <1>4, <1>6, EndCallMoves, RecordKept DEF CallerMoves, Released

\* A step of a caller.
CallerStep(c) ==
    \/ Agents!Arrive(c) \/ Agents!Connect(c) \/ Agents!Check(c) \/ Agents!Busy(c)
    \/ Agents!Decide(c)
    \/ Agents!Activate(c) \/ Agents!Confirm(c) \/ Agents!Connected(c) \/ Agents!KillCall(c)

\* Every step of a caller moves it so.
LEMMA CallersMove ==
  ASSUME AgentTypes, Released, Holding, NEW c \in Process, CallerStep(c)
  PROVE  CallerMoves(c)
  BY ArriveMoves, ConnectMoves, CheckMoves, BusyMoves, DecideMoves, ActivateMoves, ConfirmMoves,
     ConnectedMoves, KillCallMoves
    DEF CallerStep

\* A caller leaves the agents alone, and startup.lock unless it dies with it.
LEMMA CallerLeaves ==
  ASSUME NEW c \in Process, CallerStep(c)
  PROVE  /\ UNCHANGED <<selection, intent, agent, endpoint, latest, ready, downed>>
         /\ starting' = starting \/ (starting' = None /\ starting = Agents!Self(c) /\ Agents!KillCall(c))
  BY DEF CallerStep, Agents!Arrive, Agents!Connect, Agents!Check, Agents!Busy, Agents!Decide,
     Agents!Activate, Agents!Confirm, Agents!Connected, Agents!KillCall, Agents!files,
     Agents!history

\* So it keeps the invariant.
LEMMA CallerKeeps ==
  ASSUME AgentTypes, OneAgent, Released, Holding, Intended, NEW c \in Process, CallerStep(c)
  PROVE  AgentTypes' /\ OneAgent' /\ Released' /\ Holding' /\ Intended'
<1>1. CallerMoves(c) BY CallersMove
<1>2. /\ UNCHANGED <<selection, intent, agent, endpoint, latest, ready, downed>>
      /\ starting' = starting \/ (starting' = None /\ starting = Agents!Self(c) /\ Agents!KillCall(c))
  BY CallerLeaves
<1>3. AgentTypes' BY <1>1, <1>2 DEF AgentTypes, CallerMoves
<1>4. OneAgent' BY <1>2 DEF OneAgent, Agents!Locked
<1>5. Released'
  <2>1. ASSUME NEW d \in Process
        PROVE  /\ call'[d].pc \in {"activate", "child"} => record'.version # 0
               /\ call'[d].kind = "connect" => call'[d].version # 0
    BY <1>1 DEF Released, CallerMoves
  <2>2. ASSUME NEW a \in Agents!Actor PROVE run'[a].pc # "idle" => run'[a].version # 0
    BY <1>1 DEF Released, CallerMoves
  <2> QED BY <1>1, <2>1, <2>2 DEF Released, CallerMoves
<1>6. Holding'
  <2>1. ASSUME NEW a \in Agents!Actor, run'[a].pc \notin {"idle", "lock"} PROVE starting' = a
    <3>1. run'[a] = run[a] BY <1>1, <2>1 DEF CallerMoves
    <3>2. starting = a BY <2>1, <3>1 DEF Holding
    <3>3. CASE starting' = starting BY <3>2, <3>3
    <3>4. CASE a = Agents!Self(c) /\ Agents!KillCall(c)
      <4>1. run'[a].pc = "idle" BY <3>4, Actors DEF Agents!KillCall, Agents!NoRun, AgentTypes
      <4> QED BY <2>1, <4>1
    <3> QED BY <1>2, <3>2, <3>3, <3>4
  <2>2. ASSUME NEW d \in Process
        PROVE /\ call'[d].pc # "ensure" => run'[Agents!Self(d)].pc = "idle"
              /\ call'[d].pc \in {"check", "decide", "activate", "ensure"} => run'[Agents!Child(d)].pc = "idle"
    <3>1. CASE d = c BY <1>1, <3>1 DEF CallerMoves
    <3>2. CASE d # c
      <4>1. run'[Agents!Self(d)] = run[Agents!Self(d)] /\ run'[Agents!Child(d)] = run[Agents!Child(d)]
        BY <1>1, <3>2, Actors DEF CallerMoves
      <4>2. call'[d] = call[d] BY <1>1, <3>2 DEF CallerMoves
      <4> QED BY <4>1, <4>2 DEF Holding
    <3> QED BY <3>1, <3>2
  <2> QED BY <2>1, <2>2 DEF Holding
<1>7. Intended'
  <2>1. ASSUME NEW a \in Agents!Actor PROVE run'[a] = run[a] \/ run'[a].pc \in {"idle", "lock"}
    BY <1>1 DEF CallerMoves
  <2>2. downed' => intent' # 0 /\ \A s \in Op : agent'[s].phase # "serving"
    BY <1>2 DEF Intended, Fitting
  <2>3. ASSUME NEW a \in Agents!Actor
        PROVE Fitting(a)'
    BY <1>2, <2>1 DEF Intended, Fitting
  <2> QED BY <2>2, <2>3 DEF Intended, Fitting
<1> QED BY <1>3, <1>4, <1>5, <1>6, <1>7

\* What a step of actor a does.
ActorMoves(a) ==
    /\ run[a].pc # "idle" /\ run' \in [Agents!Actor -> RunRow]
    /\ \A b \in Agents!Actor \ {a} : run'[b] = run[b]
    /\ run'[a].pc # "idle" => run'[a].version # 0
    /\ run'[a].pc \notin {"idle", "lock"} => starting' = a
    /\ starting \notin {None, a} => starting' = starting
    /\ UNCHANGED <<call, record, latest>>

\* A step of a run, or its death.
ActorStep(a) == Agents!Ensure(a) \/ Agents!KillRun(a)

\* A run that goes on holds startup.lock.
LEMMA GoesOnHolding ==
  ASSUME AgentTypes, Released, Holding, NEW a \in Agents!Actor, NEW pc \in RunPc \ {"idle"},
         Agents!Goto(a, pc), run[a].pc \notin {"idle", "lock"},
         UNCHANGED <<starting, call, record, latest>>
  PROVE  ActorMoves(a)
<1>1. starting = a /\ run[a].version # 0 BY DEF Holding, Released
<1> QED BY <1>1, GotoMoves DEF ActorMoves

\* A run that ends held it, or nobody did.
LEMMA EndsRun ==
  ASSUME AgentTypes, Released, Holding, NEW a \in Agents!Actor, NEW ok \in BOOLEAN,
         Agents!End(a, ok), run[a].pc # "idle", run[a].pc = "lock" => starting = None,
         UNCHANGED <<call, record, latest>>
  PROVE  ActorMoves(a)
<1>1. starting \in {None, a} BY DEF Holding
<1> QED BY <1>1, EndMoves DEF ActorMoves

\* A run changes no caller, and no record.
LEMMA ActorLeaves ==
  ASSUME NEW a \in Agents!Actor, ActorStep(a)
  PROVE  UNCHANGED <<call, record, latest>>
  BY DEF ActorStep, Agents!Ensure, Agents!KillRun, Agents!Lock, Agents!GiveUp,
     Agents!LookAnswered, Agents!LookFails,
    Agents!Stop, Agents!StopFails, Agents!Wait, Agents!Pid, Agents!Spawn, Agents!Poll,
    Agents!Save, Agents!Clear, Agents!files

\* A run gets startup.lock for a runtime that it may select.
LEMMA LockMoves ==
  ASSUME AgentTypes, Released, Holding, NEW a \in Agents!Actor, Agents!Lock(a),
         UNCHANGED <<call, record, latest>>
  PROVE  ActorMoves(a)
<1>1. run[a].pc = "lock" /\ starting = None BY DEF Agents!Lock
<1>2. CASE Agents!End(a, FALSE) BY <1>1, <1>2, EndsRun
<1>3. CASE /\ starting' = a
           /\ run' = [run EXCEPT ![a] = [pc |-> "look", ok |-> FALSE,
                version |-> IF Agents!Replaces(a) \/ selection = 0 THEN run[a].version ELSE selection]]
  <2>1. PICK v \in 0..MaxVersion :
          v # 0 /\ run' = [run EXCEPT ![a] = [pc |-> "look", ok |-> FALSE, version |-> v]]
    <3> DEFINE v == IF Agents!Replaces(a) \/ selection = 0 THEN run[a].version ELSE selection
    <3>1. v \in 0..MaxVersion /\ v # 0 BY <1>1 DEF AgentTypes, RunRow, Released
    <3> QED BY <1>3, <3>1
  <2>2. /\ run' \in [Agents!Actor -> RunRow] /\ run'[a].version = v
        /\ \A b \in Agents!Actor \ {a} : run'[b] = run[b]
    BY <2>1 DEF AgentTypes, RunRow, RunPc
  <2> QED BY <1>1, <1>3, <2>1, <2>2 DEF ActorMoves
<1> QED BY <1>2, <1>3 DEF Agents!Lock

\* A run that dies gives it back, if it had it.
LEMMA KilledMoves ==
  ASSUME AgentTypes, Released, Holding, NEW a \in Agents!Actor, run[a].pc # "idle",
         run' = [run EXCEPT ![a] = Agents!NoRun],
         starting' = IF starting = a THEN None ELSE starting, UNCHANGED <<call, record, latest>>
  PROVE  ActorMoves(a)
<1> QED BY RunReset DEF ActorMoves

\* Every step of a run moves it so.
LEMMA ActorsMove ==
  ASSUME AgentTypes, Released, Holding, NEW a \in Agents!Actor, ActorStep(a)
  PROVE  ActorMoves(a)
<1>1. UNCHANGED <<call, record, latest>> BY ActorLeaves
<1>2. CASE Agents!Lock(a) BY <1>1, <1>2, LockMoves
<1>3. CASE Agents!GiveUp(a) \/ Agents!KillRun(a)
  BY <1>1, <1>3, KilledMoves DEF Agents!GiveUp, Agents!KillRun
<1>4. CASE Agents!LookAnswered(a)
  <2>1. \/ Agents!End(a, FALSE) \/ Agents!End(a, TRUE)
        \/ UNCHANGED starting /\ (Agents!Goto(a, "save") \/ Agents!Goto(a, "stop"))
    BY <1>4 DEF Agents!LookAnswered
  <2>2. run[a].pc = "look" BY <1>4 DEF Agents!LookAnswered
  <2> QED BY <1>1, <2>1, <2>2, EndsRun, GoesOnHolding DEF RunPc
<1>5. CASE Agents!Stop(a)
  <2>1. Agents!End(a, FALSE) \/ (UNCHANGED starting /\ (Agents!Goto(a, "wait") \/ Agents!Goto(a, "pid")))
    BY <1>5 DEF Agents!Stop
  <2>2. run[a].pc = "stop" BY <1>5 DEF Agents!Stop
  <2> QED BY <1>1, <2>1, <2>2, EndsRun, GoesOnHolding DEF RunPc
<1>6. CASE Agents!Pid(a)
  <2>1. Agents!End(a, FALSE) \/ (UNCHANGED starting /\ Agents!Goto(a, "spawn"))
    BY <1>6 DEF Agents!Pid
  <2>2. run[a].pc = "pid" BY <1>6 DEF Agents!Pid
  <2> QED BY <1>1, <2>1, <2>2, EndsRun, GoesOnHolding DEF RunPc
<1>7. CASE Agents!Poll(a)
  <2>1. \/ Agents!End(a, FALSE) \/ Agents!End(a, TRUE)
        \/ (UNCHANGED starting /\ Agents!Goto(a, "save"))
    BY <1>7 DEF Agents!Poll
  <2>2. run[a].pc = "poll" BY <1>7 DEF Agents!Poll
  <2> QED BY <1>1, <2>1, <2>2, EndsRun, GoesOnHolding DEF RunPc
<1>8. CASE Agents!Clear(a) BY <1>1, <1>8, EndsRun DEF Agents!Clear
<1>9. CASE \/ Agents!LookFails(a) \/ Agents!StopFails(a) \/ Agents!Wait(a) \/ Agents!Spawn(a)
           \/ Agents!Save(a)
  BY <1>1, <1>9, GoesOnHolding
    DEF RunPc, Agents!LookFails, Agents!StopFails, Agents!Wait, Agents!Spawn, Agents!Save
<1> QED BY <1>2, <1>3, <1>4, <1>5, <1>6, <1>7, <1>8, <1>9 DEF ActorStep, Agents!Ensure

\* An agent enters a phase.
LEMMA AgentTurns ==
  ASSUME NEW s \in Op, NEW phase \in Phase, AgentTypes, Agents!Agent(s, phase)
  PROVE  /\ agent' \in [Op -> AgentRow] /\ agent'[s].phase = phase
         /\ agent'[s].version = agent[s].version /\ agent'[s].busy = agent[s].busy
         /\ \A t \in Op \ {s} : agent'[t] = agent[t]
  BY DEF AgentTypes, AgentRow, Agents!Agent

\* An agent that is set is an agent.
LEMMA AgentSet ==
  ASSUME NEW s \in Op, NEW v \in 0..MaxVersion, NEW phase \in Phase, NEW b \in BOOLEAN,
         AgentTypes, agent' = [agent EXCEPT ![s] = [version |-> v, phase |-> phase, busy |-> b]]
  PROVE  agent' \in [Op -> AgentRow]
  BY DEF AgentTypes, AgentRow

\* The steps of an agent keep the types.
LEMMA AgentRows ==
  ASSUME AgentTypes, NEW s \in Op,
         \/ Agents!Boot(s) \/ Agents!Publish(s) \/ Agents!Work(s) \/ Agents!Unlink(s)
         \/ Agents!Exit(s) \/ Agents!OwnerStops(s)
  PROVE  AgentTypes'
<1>1. UNCHANGED <<selection, intent, record, latest, call, run>> /\ downed' \in {FALSE, downed}
  BY DEF Agents!Boot, Agents!Publish, Agents!Work, Agents!Unlink, Agents!Exit, Agents!OwnerStops,
     Agents!files, Agents!history
<1>2. 0 \in 0..MaxVersion BY AgentAssumption
<1>3. agent' \in [Op -> AgentRow]
  <2>1. CASE \E phase \in Phase : Agents!Agent(s, phase) BY <2>1, AgentTurns
  <2>2. CASE agent' = [agent EXCEPT ![s] = Agents!Off]
    BY <1>2, <2>2, AgentSet DEF Agents!Off, Phase
  <2>3. CASE Agents!Work(s)
    <3>1. agent[s] \in AgentRow BY DEF AgentTypes
    <3>2. PICK b \in BOOLEAN : agent' = [agent EXCEPT ![s] = [agent[s] EXCEPT !.busy = b]]
      BY <2>3, <3>1 DEF Agents!Work, AgentRow
    <3>3. [agent[s] EXCEPT !.busy = b] \in AgentRow BY <3>1 DEF AgentRow
    <3> QED BY <3>2, <3>3 DEF AgentTypes
  <2> QED BY <2>1, <2>2, <2>3
    DEF Phase, Agents!Boot, Agents!Publish, Agents!Unlink, Agents!Exit, Agents!OwnerStops
<1> QED BY <1>1, <1>3 DEF AgentTypes

\* The steps of a run keep them.
LEMMA ActorTypes ==
  ASSUME AgentTypes, Released, Holding, NEW a \in Agents!Actor, ActorStep(a)
  PROVE  AgentTypes'
<1>1. ActorMoves(a) BY ActorsMove
<1>2. /\ intent' \in {intent, 0, run[a].version} /\ selection' \in {selection, run[a].version}
      /\ downed' \in {downed, TRUE}
  BY DEF ActorStep, Agents!Ensure, Agents!KillRun, Agents!Lock, Agents!GiveUp,
     Agents!LookAnswered, Agents!LookFails,
    Agents!Stop, Agents!StopFails, Agents!Wait, Agents!Pid, Agents!Spawn, Agents!Poll,
    Agents!Save, Agents!Clear,
    Agents!files, Agents!history
<1>3. run[a].version \in 0..MaxVersion /\ 0 \in 0..MaxVersion
  BY AgentAssumption DEF AgentTypes, RunRow
<1>4. agent' \in [Op -> AgentRow]
  <2>1. CASE Agents!Spawn(a)
    <3>1. PICK s \in Op : agent' = [agent EXCEPT ![s] = [version |-> run[a].version, phase |-> "booting",
                                                         busy |-> FALSE]]
      BY <2>1 DEF Agents!Spawn
    <3> QED BY <1>3, <3>1, AgentSet DEF Phase
  <2>2. CASE Agents!Stop(a)
    <3>1. UNCHANGED agent \/ \E s \in Op : Agents!Agent(s, "stopping")
      BY <2>2 DEF Agents!Stop, Agents!Answering
    <3> QED BY <3>1, AgentTurns DEF AgentTypes, Phase
  <2>3. CASE ~Agents!Spawn(a) /\ ~Agents!Stop(a)
    <3>1. UNCHANGED agent
      BY <2>3 DEF ActorStep, Agents!Ensure, Agents!KillRun, Agents!Lock, Agents!GiveUp,
         Agents!LookAnswered, Agents!LookFails,
    Agents!StopFails, Agents!Wait, Agents!Pid, Agents!Poll, Agents!Save, Agents!Clear
    <3> QED BY <3>1 DEF AgentTypes
  <2> QED BY <2>1, <2>2, <2>3
<1> QED BY <1>1, <1>2, <1>3, <1>4 DEF AgentTypes, ActorMoves

\* While a run holds startup.lock no other one depends on the intent.
LEMMA IntendedActor ==
  ASSUME NEW a \in Agents!Actor, AgentTypes, Holding, Intended, ActorMoves(a),
         run[a].pc # "lock" \/ starting = None, Fitting(a)',
         downed' => intent' # 0 /\ \A s \in Op : agent'[s].phase # "serving"
  PROVE  Intended'
<1>1. ASSUME NEW b \in Agents!Actor \ {a} PROVE run'[b].pc \in {"idle", "lock"}
  <2>1. b # None BY AgentAssumption DEF Agents!Actor
  <2> QED BY <2>1 DEF Holding, ActorMoves
<1>2. ASSUME NEW b \in Agents!Actor PROVE Fitting(b)'
  <2>1. CASE b = a BY <2>1
  <2>2. CASE b # a BY <1>1, <2>2 DEF Fitting
  <2> QED BY <2>1, <2>2
<1> QED BY <1>2 DEF Intended, Fitting

\* A run that ends with nothing done leaves the intent.
LEMMA IntendedIdle ==
  ASSUME NEW a \in Agents!Actor, Intended, ActorMoves(a), run'[a].pc = "idle",
         UNCHANGED <<intent, agent, ready, downed>>
  PROVE  Intended'
<1>1. ASSUME NEW b \in Agents!Actor PROVE Fitting(b)'
  <2>1. CASE b = a BY <2>1 DEF Fitting
  <2>2. CASE b # a BY <2>2 DEF Intended, Fitting, ActorMoves
  <2> QED BY <2>1, <2>2
<1> QED BY <1>1 DEF Intended, Fitting

\* The intent is saved before the agent is told to stop.
LEMMA LookAnsweredIntended ==
  ASSUME NEW a \in Agents!Actor, AgentTypes, OneAgent, Holding, Intended, ActorMoves(a),
         Agents!LookAnswered(a)
  PROVE  Intended'
<1>1. PICK s \in Op : /\ agent[s].phase = "serving"
        /\ \/ agent[s].version = run[a].version /\ Agents!Replaces(a) /\ Agents!Goto(a, "save") /\ UNCHANGED intent
           \/ (Agents!End(a, FALSE) \/ Agents!End(a, TRUE)) /\ UNCHANGED intent
           \/ Agents!Replaces(a) /\ Agents!Goto(a, "stop") /\ intent' = run[a].version
  BY DEF Agents!LookAnswered, Agents!Answering
<1>2. run[a].pc = "look" /\ UNCHANGED <<agent, ready, downed>>
  BY DEF Agents!LookAnswered, Agents!history
<1>3. ~downed /\ agent[s].version \in ready BY <1>1 DEF Intended, Fitting, OneAgent
<1>4. CASE /\ Agents!Goto(a, "save") /\ agent[s].version = run[a].version
           /\ Agents!Replaces(a) /\ UNCHANGED intent
  <2>1. run'[a].pc = "save" /\ run'[a].version = run[a].version BY <1>4, GotoMoves DEF RunPc
  <2>2. Fitting(a)' BY <1>2, <1>3, <1>4, <2>1 DEF Fitting
  <2> QED BY <1>2, <1>3, <2>2, IntendedActor
<1>5. CASE (Agents!End(a, FALSE) \/ Agents!End(a, TRUE)) /\ UNCHANGED intent
  <2>1. run'[a].pc = "idle" BY <1>5, EndMoves
  <2> QED BY <1>2, <1>5, <2>1, IntendedIdle
<1>6. CASE Agents!Replaces(a) /\ Agents!Goto(a, "stop") /\ intent' = run[a].version
  <2>1. run'[a].pc = "stop" /\ run'[a].version = run[a].version BY <1>6, GotoMoves DEF RunPc
  <2>2. Fitting(a)' BY <1>6, <2>1 DEF Fitting
  <2> QED BY <1>2, <1>3, <2>2, IntendedActor
<1> QED BY <1>1, <1>4, <1>5, <1>6

\* It stays while the agent is down, and is taken back if the agent goes on.
LEMMA StopIntended ==
  ASSUME NEW a \in Agents!Actor, AgentTypes, OneAgent, Released, Holding, Intended,
         ActorMoves(a), Agents!Stop(a)
  PROVE  Intended'
<1>1. PICK s \in Op : /\ agent[s].phase = "serving"
        /\ \/ Agents!Agent(s, "stopping") /\ UNCHANGED intent /\ (Agents!Goto(a, "wait") \/ Agents!Goto(a, "pid"))
           \/ Agents!End(a, FALSE) /\ intent' = 0 /\ UNCHANGED <<agent, downed>>
  BY DEF Agents!Stop, Agents!Answering
<1>2. run[a].pc = "stop" /\ UNCHANGED ready BY DEF Agents!Stop
<1>3. ~downed BY <1>1 DEF Intended, Fitting
<1>4. Agents!Replaces(a) /\ intent = run[a].version BY <1>2 DEF Intended, Fitting
<1>5. CASE /\ Agents!Agent(s, "stopping") /\ UNCHANGED intent
           /\ Agents!Goto(a, "wait") \/ Agents!Goto(a, "pid")
  <2>1. run'[a].pc \in {"wait", "pid"} /\ run'[a].version = run[a].version
    BY <1>5, GotoMoves DEF RunPc
  <2>2. Fitting(a)' BY <1>4, <1>5, <2>1 DEF Fitting
  <2>3. \A t \in Op : agent[t].phase = "serving" => t = s BY <1>1 DEF OneAgent
  <2>4. \A t \in Op : agent'[t].phase # "serving" BY <1>5, <2>3, AgentTurns DEF Phase
  <2>5. intent' # 0 BY <1>2, <1>4, <1>5 DEF Released
  <2> QED BY <1>2, <2>2, <2>4, <2>5, IntendedActor
<1>6. CASE Agents!End(a, FALSE) /\ intent' = 0 /\ UNCHANGED <<agent, downed>>
  <2>1. run'[a].pc = "idle" BY <1>6, EndMoves
  <2>2. Fitting(a)' BY <2>1 DEF Fitting
  <2> QED BY <1>2, <1>3, <1>6, <2>2, IntendedActor
<1> QED BY <1>1, <1>5, <1>6

\* It is saved again before a runtime is started.
LEMMA PidIntended ==
  ASSUME NEW a \in Agents!Actor, AgentTypes, OneAgent, Released, Holding, Intended,
         ActorMoves(a), Agents!Pid(a)
  PROVE  Intended'
<1>1. run[a].pc = "pid" /\ UNCHANGED <<agent, ready, downed>> BY DEF Agents!Pid, Agents!history
<1>2. CASE Agents!End(a, FALSE) /\ UNCHANGED intent
  <2>1. run'[a].pc = "idle" BY <1>2, EndMoves
  <2> QED BY <1>1, <1>2, <2>1, IntendedIdle
<1>3. CASE Agents!Goto(a, "spawn") /\ intent' = IF Agents!Replaces(a) THEN run[a].version ELSE intent
  <2>1. run'[a].pc = "spawn" /\ run'[a].version = run[a].version BY <1>3, GotoMoves DEF RunPc
  <2>2. ~Agents!Replaces(a) => intent = 0 BY <1>1 DEF Intended, Fitting
  <2>3. Fitting(a)' BY <1>3, <2>1, <2>2 DEF Fitting
  <2>4. downed => intent # 0 /\ \A s \in Op : agent[s].phase # "serving" BY DEF Intended, Fitting
  <2>5. run[a].version # 0 BY <1>1 DEF Released
  <2>6. downed' => intent' # 0 /\ \A s \in Op : agent'[s].phase # "serving"
    BY <1>1, <1>3, <2>4, <2>5
  <2> QED BY <1>1, <2>3, <2>6, IntendedActor
<1> QED BY <1>2, <1>3 DEF Agents!Pid

\* Nobody but its own start gets past an intent.
LEMMA LockIntended ==
  ASSUME NEW a \in Agents!Actor, AgentTypes, OneAgent, Released, Holding, Intended,
         ActorMoves(a), Agents!Lock(a)
  PROVE  Intended'
<1>1. run[a].pc = "lock" /\ starting = None /\ UNCHANGED <<intent, agent, ready, downed>>
  BY DEF Agents!Lock, Agents!files, Agents!history
<1>2. CASE ~Agents!Selectable(a)
  <2>1. run'[a].pc = "idle" BY <1>2, EndMoves DEF Agents!Lock
  <2> QED BY <1>1, <2>1, IntendedIdle
<1>3. CASE Agents!Selectable(a)
  <2>1. run'[a].pc = "look" BY <1>3 DEF Agents!Lock, AgentTypes
  <2>2. ~Agents!Replaces(a) => intent = 0 BY <1>3 DEF Agents!Selectable
  <2>3. Fitting(a)' BY <1>1, <2>1, <2>2 DEF Fitting
  <2> QED BY <1>1, <2>3, IntendedActor DEF Intended, Fitting
<1> QED BY <1>2, <1>3

\* Who saves a runtime has met it as an agent.
LEMMA PollIntended ==
  ASSUME NEW a \in Agents!Actor, AgentTypes, OneAgent, Released, Holding, Intended,
         ActorMoves(a), Agents!Poll(a)
  PROVE  Intended'
<1>1. run[a].pc = "poll" /\ UNCHANGED <<intent, agent, ready, downed>>
  BY DEF Agents!Poll, Agents!files, Agents!history
<1>2. PICK s \in Op : /\ agent[s].phase = "serving"
        /\ \/ Agents!End(a, FALSE) \/ Agents!End(a, TRUE)
           \/ agent[s].version = run[a].version /\ Agents!Replaces(a) /\ Agents!Goto(a, "save")
  BY DEF Agents!Poll, Agents!Answering
<1>3. ~downed /\ agent[s].version \in ready BY <1>2 DEF Intended, Fitting, OneAgent
<1>4. CASE Agents!End(a, FALSE) \/ Agents!End(a, TRUE)
  <2>1. run'[a].pc = "idle" BY <1>4, EndMoves
  <2> QED BY <1>1, <2>1, IntendedIdle
<1>5. CASE agent[s].version = run[a].version /\ Agents!Replaces(a) /\ Agents!Goto(a, "save")
  <2>1. run'[a].pc = "save" /\ run'[a].version = run[a].version BY <1>5, GotoMoves DEF RunPc
  <2>2. Fitting(a)' BY <1>1, <1>3, <1>5, <2>1 DEF Fitting
  <2> QED BY <1>1, <1>3, <2>2, IntendedActor
<1> QED BY <1>2, <1>4, <1>5

\* An agent that boots does not serve.
LEMMA SpawnIntended ==
  ASSUME NEW a \in Agents!Actor, AgentTypes, OneAgent, Released, Holding, Intended,
         ActorMoves(a), Agents!Spawn(a)
  PROVE  Intended'
<1>1. run[a].pc = "spawn" /\ UNCHANGED <<intent, ready, downed>> /\ Agents!Goto(a, "poll")
  BY DEF Agents!Spawn, Agents!files, Agents!history
<1>2. PICK s \in Op : agent' = [agent EXCEPT ![s] =
          [version |-> run[a].version, phase |-> "booting", busy |-> FALSE]]
  BY DEF Agents!Spawn
<1>3. \A t \in Op : agent'[t].phase = "serving" => agent[t].phase = "serving"
  BY <1>2 DEF AgentTypes
<1>4. run'[a].pc = "poll" BY <1>1, GotoMoves DEF RunPc
<1>5. Fitting(a)' BY <1>1, <1>4 DEF Intended, Fitting
<1>6. downed' => intent' # 0 /\ \A t \in Op : agent'[t].phase # "serving"
  BY <1>1, <1>3 DEF Intended, Fitting
<1> QED BY <1>1, <1>5, <1>6, IntendedActor

\* The steps between.
LEMMA GoesOnIntended ==
  ASSUME NEW a \in Agents!Actor, AgentTypes, OneAgent, Released, Holding, Intended,
         ActorMoves(a),
         \/ Agents!LookFails(a) \/ Agents!StopFails(a) \/ Agents!Wait(a) \/ Agents!Save(a)
  PROVE  Intended'
<1>1. UNCHANGED <<intent, agent, ready, downed>> /\ run[a].pc \in {"look", "stop", "wait", "save"}
  BY DEF Agents!LookFails, Agents!StopFails, Agents!Wait, Agents!Save, Agents!files,
     Agents!history
<1>2. \/ Agents!Goto(a, "pid") \/ (run[a].pc = "save" /\ Agents!Goto(a, "clear"))
  BY DEF Agents!LookFails, Agents!StopFails, Agents!Wait, Agents!Save
<1>3. run'[a].version = run[a].version /\ (run'[a].pc = "pid" \/ (run[a].pc = "save" /\ run'[a].pc = "clear"))
  BY <1>2, GotoMoves DEF RunPc
<1>4. Fitting(a)' BY <1>1, <1>3 DEF Intended, Fitting
<1> QED BY <1>1, <1>4, IntendedActor DEF Intended, Fitting

\* The intent is cleared while the runtime serves.
LEMMA ClearIntended ==
  ASSUME NEW a \in Agents!Actor, AgentTypes, OneAgent, Released, Holding, Intended,
         ActorMoves(a), Agents!Clear(a)
  PROVE  Intended'
<1>1. UNCHANGED <<agent, ready, downed>> /\ run[a].pc = "clear" /\ run'[a].pc = "idle"
  BY EndMoves DEF Agents!Clear, Agents!history
<1>2. ~downed BY <1>1 DEF Intended, Fitting
<1>3. Fitting(a)' BY <1>1 DEF Fitting
<1> QED BY <1>1, <1>2, <1>3, IntendedActor

\* Who gives up leaves the intent behind.
LEMMA GiveUpIntended ==
  ASSUME NEW a \in Agents!Actor, AgentTypes, Intended, ActorMoves(a),
         Agents!GiveUp(a) \/ Agents!KillRun(a)
  PROVE  Intended'
<1>1. UNCHANGED <<intent, agent, ready, downed>> /\ run' = [run EXCEPT ![a] = Agents!NoRun]
  BY DEF Agents!GiveUp, Agents!KillRun, Agents!files, Agents!history
<1>2. run'[a].pc = "idle" BY <1>1, RunReset
<1> QED BY <1>1, <1>2, IntendedIdle

\* Every step of a run keeps what is intended.
LEMMA ActorIntended ==
  ASSUME NEW a \in Agents!Actor, AgentTypes, OneAgent, Released, Holding, Intended, ActorStep(a)
  PROVE  Intended'
<1>1. ActorMoves(a) BY ActorsMove
<1> QED
  BY <1>1, LookAnsweredIntended, StopIntended, PidIntended, LockIntended, PollIntended,
     SpawnIntended, GoesOnIntended, ClearIntended, GiveUpIntended
   DEF ActorStep, Agents!Ensure

\* Every step of a run leaves startup.lock to its holder.
LEMMA ActorHolding ==
  ASSUME NEW a \in Agents!Actor, AgentTypes, Released, Holding, ActorStep(a)
  PROVE  Released' /\ Holding'
<1>1. ActorMoves(a) BY ActorsMove
<1>2. Released' BY <1>1 DEF Released, ActorMoves
<1>3. ASSUME NEW b \in Agents!Actor, run'[b].pc \notin {"idle", "lock"} PROVE starting' = b
  <2>1. CASE b = a BY <1>1, <1>3, <2>1 DEF ActorMoves
  <2>2. CASE b # a
    <3>1. run'[b] = run[b] /\ starting = b BY <1>1, <1>3, <2>2 DEF ActorMoves, Holding
    <3>2. b # None BY AgentAssumption DEF Agents!Actor
    <3> QED BY <1>1, <2>2, <3>1, <3>2 DEF ActorMoves
  <2> QED BY <2>1, <2>2
<1>4. ASSUME NEW c \in Process
      PROVE /\ call'[c].pc # "ensure" => run'[Agents!Self(c)].pc = "idle"
            /\ call'[c].pc \in {"check", "decide", "activate", "ensure"} => run'[Agents!Child(c)].pc = "idle"
  <2>1. ASSUME NEW b \in Agents!Actor, run[b].pc = "idle" PROVE run'[b].pc = "idle"
    BY <1>1, <2>1 DEF ActorMoves
  <2>2. call' = call BY <1>1 DEF ActorMoves
  <2> QED BY <2>1, <2>2, Actors DEF Holding
<1> QED BY <1>2, <1>3, <1>4 DEF Holding

\* A step of an agent.
SlotStep(s) ==
    \/ Agents!Boot(s) \/ Agents!Publish(s) \/ Agents!Work(s) \/ Agents!Unlink(s) \/ Agents!Exit(s)
    \/ Agents!OwnerStops(s)

\* One agent at a time passes agent.lock, and publishes itself before it serves.
LEMMA SlotOne ==
  ASSUME NEW s \in Op, AgentTypes, OneAgent, SlotStep(s)
  PROVE  OneAgent'
<1>1. CASE Agents!Boot(s)
  BY <1>1 DEF AgentTypes, AgentRow, Phase, OneAgent, Agents!Boot, Agents!Agent, Agents!Off,
     Agents!Locked, Agents!files, Agents!history
<1>2. CASE Agents!Publish(s)
  BY <1>2 DEF AgentTypes, AgentRow, Phase, OneAgent, Agents!Publish, Agents!Agent, Agents!Locked,
     Agents!files, Agents!history
<1>3. CASE Agents!Work(s)
  BY <1>3 DEF AgentTypes, AgentRow, Phase, OneAgent, Agents!Work, Agents!Locked, Agents!files,
     Agents!history
<1>4. CASE Agents!Unlink(s)
  BY <1>4 DEF AgentTypes, AgentRow, Phase, OneAgent, Agents!Unlink, Agents!Agent, Agents!Locked,
     Agents!files, Agents!history
<1>5. CASE Agents!Exit(s)
  BY <1>5 DEF AgentTypes, AgentRow, Phase, OneAgent, Agents!Exit, Agents!Off, Agents!Locked,
     Agents!files, Agents!history
<1>6. CASE Agents!OwnerStops(s)
  BY <1>6 DEF AgentTypes, AgentRow, Phase, OneAgent, Agents!OwnerStops, Agents!Agent,
     Agents!Answering, Agents!Stoppable, Agents!Locked, Agents!files, Agents!history
<1> QED BY <1>1, <1>2, <1>3, <1>4, <1>5, <1>6 DEF SlotStep

\* Agents hold neither of the two locks.
LEMMA SlotHolding ==
  ASSUME NEW s \in Op, Released, Holding, SlotStep(s)
  PROVE  Released' /\ Holding'
<1>1. UNCHANGED <<record, call, run, starting>>
  BY DEF SlotStep, Agents!Boot, Agents!Publish, Agents!Work, Agents!Unlink, Agents!Exit,
     Agents!OwnerStops, Agents!files
<1> QED BY <1>1 DEF Released, Holding

\* An agent that serves ends the time without one.
LEMMA SlotIntended ==
  ASSUME NEW s \in Op, AgentTypes, Intended, SlotStep(s)
  PROVE  Intended'
<1>1. UNCHANGED <<intent, run>> /\ ready \subseteq ready' /\ (downed' => downed)
  BY DEF SlotStep, Agents!Boot, Agents!Publish, Agents!Work, Agents!Unlink, Agents!Exit,
     Agents!OwnerStops, Agents!files, Agents!history
<1>2. ASSUME NEW a \in Agents!Actor PROVE Fitting(a)'
  <2>1. Fitting(a) BY DEF Intended
  <2> QED BY <1>1, <2>1 DEF Fitting
<1>3. ASSUME downed', NEW t \in Op PROVE agent'[t].phase # "serving"
  <2>1. downed /\ agent[t].phase # "serving" BY <1>1, <1>3 DEF Intended, Fitting
  <2>2. ~Agents!Publish(s) BY <1>3 DEF Agents!Publish
  <2>3. CASE \E phase \in Phase \ {"serving"} : Agents!Agent(s, phase) BY <2>1, <2>3, AgentTurns
  <2>4. CASE agent' = [agent EXCEPT ![s] = Agents!Off] BY <2>1, <2>4 DEF AgentTypes, Agents!Off
  <2>5. CASE Agents!Work(s) BY <2>1, <2>5 DEF AgentTypes, AgentRow, Agents!Work
  <2> QED BY <2>2, <2>3, <2>4, <2>5
    DEF Phase, SlotStep, Agents!Boot, Agents!Unlink, Agents!Exit, Agents!OwnerStops
<1>4. downed' => intent' # 0 BY <1>1 DEF Intended, Fitting
<1> QED BY <1>2, <1>3, <1>4 DEF Intended, Fitting

\* A run starts an agent in a free slot, and stops an idle one.
LEMMA ActorOne ==
  ASSUME NEW a \in Agents!Actor, AgentTypes, OneAgent, ActorStep(a)
  PROVE  OneAgent'
<1>1. CASE Agents!Spawn(a)
  <2>1. PICK s \in Op : /\ agent[s].phase = "off"
            /\ agent' = [agent EXCEPT ![s] = [version |-> run[a].version, phase |-> "booting", busy |-> FALSE]]
    BY <1>1 DEF Agents!Spawn
  <2>2. UNCHANGED <<endpoint, ready>> BY <1>1 DEF Agents!Spawn, Agents!history
  <2> QED BY <2>1, <2>2 DEF AgentTypes, OneAgent, Agents!Locked
<1>2. CASE Agents!Stop(a)
  <2>1. UNCHANGED <<endpoint, ready>> BY <1>2 DEF Agents!Stop
  <2>2. CASE UNCHANGED agent BY <2>1, <2>2 DEF OneAgent, Agents!Locked
  <2>3. ASSUME NEW s \in Op, agent[s].phase = "serving", ~agent[s].busy, Agents!Agent(s, "stopping")
        PROVE  OneAgent'
    BY <2>1, <2>3, AgentTurns DEF OneAgent, Agents!Locked, Phase
  <2> QED BY <1>2, <2>2, <2>3 DEF Agents!Stop, Agents!Answering, Agents!Stoppable
<1>3. CASE ~Agents!Spawn(a) /\ ~Agents!Stop(a)
  <2>1. UNCHANGED <<agent, endpoint, ready>>
    BY <1>3 DEF ActorStep, Agents!Ensure, Agents!KillRun, Agents!Lock, Agents!GiveUp,
       Agents!LookAnswered, Agents!LookFails,
      Agents!StopFails, Agents!Wait, Agents!Pid, Agents!Poll, Agents!Save, Agents!Clear,
      Agents!history
  <2> QED BY <2>1 DEF OneAgent, Agents!Locked
<1> QED BY <1>1, <1>2, <1>3

\* A runtime is selected after it has answered.
LEMMA ActorPublished ==
  ASSUME NEW a \in Agents!Actor, Intended, Agents!PublishedReady, ActorStep(a)
  PROVE  Agents!PublishedReady'
<1>1. UNCHANGED <<record, ready>> /\ (selection' = selection \/ (selection' = run[a].version /\ run[a].pc = "save"))
  BY DEF ActorStep, Agents!Ensure, Agents!KillRun, Agents!Lock, Agents!GiveUp,
     Agents!LookAnswered, Agents!LookFails,
      Agents!Stop, Agents!StopFails, Agents!Wait, Agents!Pid, Agents!Spawn, Agents!Poll,
      Agents!Save, Agents!Clear,
      Agents!files, Agents!history
<1> QED BY <1>1 DEF Intended, Fitting, Agents!PublishedReady

\* What has answered stays so.
LEMMA SlotPublished ==
  ASSUME NEW s \in Op, Agents!PublishedReady, SlotStep(s)
  PROVE  Agents!PublishedReady'
<1>1. UNCHANGED <<selection, record>> /\ ready \subseteq ready'
  BY DEF SlotStep, Agents!Boot, Agents!Publish, Agents!Work, Agents!Unlink, Agents!Exit,
     Agents!OwnerStops, Agents!files, Agents!history
<1> QED BY <1>1 DEF Agents!PublishedReady

\* A release is recorded as applied while its runtime answers.
LEMMA AppliedPublished ==
  ASSUME NEW c \in Process, AgentTypes, OneAgent, Agents!PublishedReady, Agents!Applied(c),
         Agents!Running(record.version), UNCHANGED <<selection, ready>>
  PROVE  Agents!PublishedReady'
<1>1. record.version \in ready BY DEF Agents!Running, Agents!Answering, OneAgent
<1>2. record' = [record EXCEPT !.state = "applied"] BY DEF Agents!Applied
<1> QED BY <1>1, <1>2 DEF AgentTypes, Agents!PublishedReady

\* Every step of a caller keeps what is published.
LEMMA CallerPublished ==
  ASSUME NEW c \in Process, AgentTypes, OneAgent, Agents!PublishedReady, CallerStep(c)
  PROVE  Agents!PublishedReady'
<1>1. UNCHANGED <<selection, ready>> BY CallerLeaves
<1>2. \/ record' = record \/ record'.state = "prepared"
      \/ (Agents!Applied(c) /\ Agents!Running(record.version))
  BY DEF CallerStep, Agents!Arrive, Agents!Connect, Agents!Check, Agents!Busy, Agents!Decide,
     Agents!Activate, Agents!Confirm,
     Agents!Connected, Agents!KillCall, Agents!files
<1> QED BY <1>1, <1>2, AppliedPublished DEF Agents!PublishedReady

\* A release changes no machine.
LEMMA NewRelease ==
  ASSUME AgentInv, NEW v \in Agents!Version, Agents!Release(v)
  PROVE  AgentInv'
<1>1. /\ latest' = v
      /\ UNCHANGED <<selection, intent, record, agent, endpoint, call, run, starting, ready, downed>>
  BY DEF Agents!Release, Agents!files, Agents!history
<1> QED
  BY <1>1 DEF AgentInv, AgentTypes, OneAgent, Agents!Locked, Released, Holding, Intended, Fitting,
     Agents!PublishedReady

\* No agent, no update, no run.
LEMMA AgentsInitially ==
  ASSUME Agents!ReleasesInit
  PROVE  AgentInv
<1>1. AgentTypes
  <2>1. 0 \in 0..MaxVersion /\ 1 \in Agents!Version BY AgentAssumption DEF Agents!Version
  <2>2. agent \in [Op -> AgentRow] BY <2>1 DEF Agents!ReleasesInit, Agents!Off, AgentRow, Phase
  <2>3. call \in [Process -> CallRow]
    BY <2>1 DEF Agents!ReleasesInit, Agents!NoCall, CallRow, CallPc
  <2>4. run \in [Agents!Actor -> RunRow]
    BY <2>1 DEF Agents!ReleasesInit, Agents!NoRun, RunRow, RunPc
  <2> QED BY <2>1, <2>2, <2>3, <2>4 DEF Agents!ReleasesInit, AgentTypes
<1>2. OneAgent BY DEF Agents!ReleasesInit, Agents!Off, OneAgent, Agents!Locked
<1>3. Released BY DEF Agents!ReleasesInit, Agents!NoCall, Agents!NoRun, Released
<1>4. Holding BY Actors DEF Agents!ReleasesInit, Agents!NoCall, Agents!NoRun, Holding
<1>5. Intended BY DEF Agents!ReleasesInit, Agents!NoRun, Intended, Fitting
<1>6. Agents!PublishedReady BY DEF Agents!ReleasesInit, Agents!PublishedReady
<1> QED BY <1>1, <1>2, <1>3, <1>4, <1>5, <1>6 DEF AgentInv

\* Every step keeps the invariant of the agents.
LEMMA AgentsStep ==
  ASSUME AgentInv, Agents!ReleasesNext
  PROVE  AgentInv'
<1>1. ASSUME NEW s \in Op, SlotStep(s) PROVE AgentInv'
  BY <1>1, AgentRows, SlotOne, SlotHolding, SlotIntended, SlotPublished DEF AgentInv, SlotStep
<1>2. ASSUME NEW a \in Agents!Actor, ActorStep(a) PROVE AgentInv'
  BY <1>2, ActorTypes, ActorOne, ActorHolding, ActorIntended, ActorPublished DEF AgentInv
<1>3. ASSUME NEW c \in Process, CallerStep(c) PROVE AgentInv'
  BY <1>3, CallerKeeps, CallerPublished DEF AgentInv
<1> QED BY <1>1, <1>2, <1>3, NewRelease DEF Agents!ReleasesNext, SlotStep, ActorStep, CallerStep

\* Nothing else touches it.
LEMMA AgentsStay ==
  ASSUME AgentInv, UNCHANGED agentVars
  PROVE  AgentInv'
  BY DEF AgentInv, agentVars, AgentTypes, OneAgent, Agents!Locked, Released, Holding, Intended,
     Fitting, Agents!PublishedReady

\* What is promised of the agents follows.
LEMMA AgentsKeep ==
  ASSUME AgentInv
  PROVE  Agents!AgentReachable /\ Agents!NoFallback /\ Agents!BusySpared /\ Agents!PublishedReady
<1>1. Agents!Cardinality(Agents!Locked) <= 1
  <2>1. CASE Agents!Locked = {}
    BY <2>1, FS_EmptySet, OneCardinality
  <2>2. ASSUME NEW s \in Agents!Locked PROVE Agents!Cardinality(Agents!Locked) <= 1
    <3>1. Agents!Locked = {s} BY DEF AgentInv, OneAgent
    <3>2. Cardinality({s}) = 1 BY FS_Singleton
    <3>3. Agents!Cardinality({s}) = 1 BY <3>2, OneCardinality
    <3> QED BY <3>1, <3>3
  <2> QED BY <2>1, <2>2
<1>2. Agents!AgentReachable BY <1>1 DEF AgentInv, OneAgent, Agents!AgentReachable
<1>3. Agents!NoFallback BY DEF AgentInv, Intended, Fitting, Agents!NoFallback
<1>4. Agents!BusySpared BY DEF AgentInv, OneAgent, Agents!BusySpared
<1> QED BY <1>2, <1>3, <1>4 DEF AgentInv

-----------------------------------------------------------------------------
(* The parts, and the agent. *)

\* Under the process lock no two answers of the ledger contradict each other.
LEMMA LedgerAgrees ==
  ASSUME Exclusive = TRUE
  PROVE  Spec => []AnswersAgree
<1>1. Init => AnswerGround
  BY DEF Init, AnswerGround
<1>2. IInv /\ LockInv /\ AnswerGround /\ [Next]_vars => AnswerGround'
  BY NextGround
<1>3. QED
  BY <1>1, <1>2, Inductive, LockInductive, GroundAgrees, PTL DEF Spec

\* What the tools of a tab do and answer is about the page that was observed.
LEMMA TabHolds == Tab!TabSpec => [](PageKnown /\ Tab!ToolHonest)
<1>1. TabInv /\ [Tab!TabNext]_(Tab!tabVars) => TabInv'
  BY TabSteps, TabStays
  DEF tabVars, Tab!tabVars, Tab!page, Tab!locks, Tab!history
<1>2. QED
  BY <1>1, TabInitially, TabKeeps, PTL DEF Tab!TabSpec

\* The pipe is never short of instances, and answers whom it has admitted.
LEMMA PipeHolds ==
  Pipe!OwnerPipeSpec => [](Pipe!InstancesLeft /\ Pipe!AdmittedAnswered /\ Pipe!ClosedIsQuiet)
<1>1. PipeInv /\ [Pipe!OwnerPipeNext]_(Pipe!pipeVars) => PipeInv'
  BY PipeSteps, PipeStays DEF pipeVars, Pipe!pipeVars, Pipe!serverVars
<1>2. QED
  BY <1>1, PipeInitially, PipeKeeps, PTL DEF Pipe!OwnerPipeSpec

\* No browser that runs is forgotten, or called closed.
LEMMA BrowsersHold == Browsers!ControlSpec => [](Browsers!BrowsersKept /\ Browsers!ClosedIsEnded)
<1>1. BrowserInv /\ [Browsers!ControlNext]_(Browsers!controlVars) => BrowserInv'
  BY BrowsersStep, BrowsersStay
  DEF browserVars, Browsers!controlVars, Browsers!sessions, Browsers!pages
<1>2. QED
  BY <1>1, BrowsersInitially, BrowsersKeep, PTL DEF Browsers!ControlSpec

\* Connectors find the one agent, and updates replace it only when it is idle.
LEMMA AgentsHold ==
  Agents!ReleasesSpec =>
      [](Agents!AgentReachable /\ Agents!NoFallback /\ Agents!BusySpared /\ Agents!PublishedReady)
<1>1. AgentInv /\ [Agents!ReleasesNext]_(Agents!releaseVars) => AgentInv'
  BY AgentsStep, AgentsStay
  DEF agentVars, Agents!releaseVars, Agents!files, Agents!history
<1>2. QED
  BY <1>1, AgentsInitially, AgentsKeep, PTL DEF Agents!ReleasesSpec

\* Every behaviour of the agent is one of each of its parts, so that what is proved of a
\* part alone, the ledger's theorems among it, is true of the agent.
THEOREM AgentHasParts ==
  PartSpec => /\ Spec /\ Agents!ReleasesSpec /\ Tab!TabSpec /\ Browsers!ControlSpec
              /\ Pipe!OwnerPipeSpec
<1> DEFINE all == <<part, vars, agentVars, tabVars, browserVars, pipeVars>>
<1>1. [PartNext]_all => [Next]_vars
  BY DEF PartNext
<1>2. [PartNext]_all => [Agents!ReleasesNext]_(Agents!releaseVars)
  BY DEF PartNext, agentVars, Agents!releaseVars, Agents!files, Agents!history
<1>3. [PartNext]_all => [Tab!TabNext]_(Tab!tabVars)
  BY DEF PartNext, tabVars, Tab!tabVars, Tab!page, Tab!locks, Tab!history
<1>4. [PartNext]_all => [Browsers!ControlNext]_(Browsers!controlVars)
  BY DEF PartNext, browserVars, Browsers!controlVars, Browsers!sessions, Browsers!pages
<1>5. [PartNext]_all => [Pipe!OwnerPipeNext]_(Pipe!pipeVars)
  BY DEF PartNext, pipeVars, Pipe!pipeVars, Pipe!serverVars
<1>6. PartInit => /\ Init /\ Agents!ReleasesInit /\ Tab!TabInit /\ Browsers!ControlInit
                  /\ Pipe!OwnerPipeInit
  BY DEF PartInit
<1>7. QED
  BY <1>1, <1>2, <1>3, <1>4, <1>5, <1>6, PTL
  DEF PartSpec, Spec, Agents!ReleasesSpec, Tab!TabSpec, Browsers!ControlSpec, Pipe!OwnerPipeSpec

\* An action on a page is sent only if nothing happened since the page was observed, an
\* observation is of one document, and a dialog is answered once.
THEOREM PageStaysKnown == PartSpec => []PageKnown
  BY AgentHasParts, TabHolds, PTL

\* No answer of the ledger contradicts another, nothing is selected or recorded as applied
\* that has never answered, what the browser tools answer is what happened, and whoever
\* the pipe has admitted is answered.
THEOREM AnswersStayTrue ==
  ASSUME Exclusive = TRUE
  PROVE  PartSpec => []AnswersTrue
<1>1. /\ AnswersAgree /\ Agents!PublishedReady /\ Tab!ToolHonest /\ Browsers!ClosedIsEnded
      /\ Pipe!AdmittedAnswered
      => AnswersTrue
  BY DEF AnswersTrue
<1>2. QED
  BY <1>1, AgentHasParts, LedgerAgrees, AgentsHold, TabHolds, BrowsersHold, PipeHolds, PTL

\* Connectors find the one agent that has the store open, an update neither falls back nor
\* stops an agent that works, no running browser is forgotten, and the pipe never runs out
\* of instances and closes only behind its last call.
THEOREM AgentStaysKept == PartSpec => []AgentKept
<1>1. /\ Agents!AgentReachable /\ Agents!NoFallback /\ Agents!BusySpared /\ Browsers!BrowsersKept
      /\ Pipe!InstancesLeft /\ Pipe!ClosedIsQuiet
      => AgentKept
  BY DEF AgentKept
<1>2. QED
  BY <1>1, AgentHasParts, AgentsHold, BrowsersHold, PipeHolds, PTL
=============================================================================
