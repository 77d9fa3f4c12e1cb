------------------------- MODULE SubchatLedgerProofs -------------------------
(***************************************************************************)
(* TLAPS proofs about SubchatLedger for every set of submissions, Chats,   *)
(* accounts and workers, and every follow-up relation After.               *)
(*                                                                         *)
(* None of the properties is inductive alone.  That a request leaves once  *)
(* follows from the reservation: a worker past begin_send owns the row,    *)
(* which is still "sending" and unsent.  That a Chat is serialized needs   *)
(* that a row keeps the Chat it asked for, and the exclusion of deletions  *)
(* that a delete worker past its check has a completed row.  IInv collects *)
(* these facts.                                                            *)
(*                                                                         *)
(* TransportHonest is about the parts beside the ledger, for every number  *)
(* of them: a send keeps the lock and its route until its page can no      *)
(* longer send, a guardian is done only when nothing of its Chrome runs,   *)
(* and a setup command saves what it saw under the lock it holds.          *)
(* BrowserInv, ChromeInv and SetupInv say so; TransportInv joins them.     *)
(***************************************************************************)
EXTENDS MCSubchatLedger, Sequences, FiniteSetTheorems, SequenceTheorems, TLAPS

Holds(w, o) ==
    /\ Doing(w, "reserved") \/ Doing(w, "claimed")
    /\ job[w].op = o

\* What the state of a row says about the rest of it.
RowShape ==
    \A o \in Op :
        /\ state[o] \in {"absent", "cancelled"} \cup Unsent =>
              ~ident[o] /\ account[o] = None /\ conv[o] = asked[o]
        /\ state[o] \in {"absent", "cancelled", "preflight_failed"} \cup Unsent =>
              posts[o] = 0
        /\ state[o] = "prepared" => After[o] = None
        /\ state[o] = "queued" => After[o] # None
        /\ state[o] \in {"submitted", "completed"} => conv[o] # None
        /\ asked[o] # None =>
              conv[o] = asked[o] /\ landed[o] \in {None, asked[o]}
        /\ posts[o] \in {0, 1}
        /\ posts[o] = 0 => landed[o] = None

\* A follow-up keeps the Chat of its target, which was dispatched before it.
TargetShape ==
    \A o \in Op : After[o] # None /\ state[o] # "absent" =>
        /\ state[After[o]] # "absent"
        /\ asked[o] # None
        /\ asked[o] = conv[After[o]]
        /\ state[o] \in Active \cup {"completed", "interrupted", "preflight_failed"} =>
              state[After[o]] = "completed"
        /\ account[o] # None => account[After[o]] \in {None, account[o]}

\* A worker's snapshot is as new as the row if the revision says so.
SnapshotShape ==
    \A w \in Worker : job[w] # None =>
        LET o == job[w].op IN
        /\ state[o] # "absent"
        /\ job[w].phase \in {"snapshot", "preparing"} =>
              job[w].revision <= revision[o]
        /\ /\ job[w].phase = "preparing"
           /\ After[o] = None \/ job[w].revision = revision[o]
           => job[w].checked = choice[o]

\* One worker at a time owns a reservation, and it has not posted yet.
HolderShape ==
    \A w \in Worker, o \in Op : Holds(w, o) =>
        /\ state[o] = "sending"
        /\ posts[o] = 0
        /\ job[w].checked = choice[o]
        /\ \A v \in Worker : Holds(v, o) => v = w

\* A worker that deletes a Chat has a completed row; past its claim it alone
\* has the right to the PATCH.
DeleterShape ==
    \A w \in Worker :
        job[w] # None /\ job[w].phase \in {"verifying", "patching", "patched"} =>
            LET c == conv[job[w].op] IN
            /\ state[job[w].op] = "completed"
            /\ job[w].phase # "verifying" => deletion[c] # "none"
            /\ job[w].phase = "patching" =>
                  /\ patches[c] = 0
                  /\ \A v \in Worker :
                        Doing(v, "patching") /\ conv[job[v].op] = c => v = w

IInv ==
    /\ TypeOK
    /\ RowShape
    /\ TargetShape
    /\ SnapshotShape
    /\ HolderShape
    /\ DeleterShape
    /\ ChatSerialized
    /\ DeletionExclusive
    /\ PatchedOnce

\* The empty ledger satisfies the invariant.
LEMMA InitIInv == Init => IInv
  BY ConstantAssumption, NoneAssumption
  DEF Init, IInv, TypeOK, RowShape, TargetShape, SnapshotShape, HolderShape,
      DeleterShape, ChatSerialized, DeletionExclusive, PatchedOnce, Holds,
      Doing, States, Unsent, Active, Final

-----------------------------------------------------------------------------
(* One lemma per action: it preserves IInv. *)

\* A first message creates an unsent row.
LEMMA FirstPreserves ==
  ASSUME IInv, NEW o \in Op, NEW c \in Chat \cup {None}, NEW m \in Choice,
         PrepareFirst(o, c, m)
  PROVE  IInv'
<1> USE ConstantAssumption, NoneAssumption
    DEF PrepareFirst, NewRow, Known, rows, provider, Doing,
        Unsent, Active, Final, States, Job, Phase
<1>1. TypeOK'
  BY DEF IInv, TypeOK
<1>2. RowShape'
  BY DEF IInv, TypeOK, RowShape
<1>3. TargetShape'
  BY DEF IInv, TypeOK, TargetShape, RowShape
<1>4. SnapshotShape'
  BY DEF IInv, TypeOK, SnapshotShape, RowShape
<1>5. HolderShape'
  BY DEF IInv, TypeOK, HolderShape, Holds, RowShape
<1>6. DeleterShape'
  BY DEF IInv, TypeOK, DeleterShape, RowShape, PatchedOnce
<1>7. ChatSerialized'
  BY DEF IInv, TypeOK, ChatSerialized, RowShape
<1>8. DeletionExclusive'
  BY DEF IInv, TypeOK, DeletionExclusive, RowShape, DeleterShape
<1>9. PatchedOnce'
  BY DEF IInv, PatchedOnce
<1>10. QED
  BY <1>1, <1>2, <1>3, <1>4, <1>5, <1>6, <1>7, <1>8, <1>9 DEF IInv

\* A follow-up copies the Chat of a checkpointed target.
LEMMA FollowUpPreserves ==
  ASSUME IInv, NEW o \in Op, NEW m \in Choice, PrepareFollowUp(o, m)
  PROVE  IInv'
<1>1. TypeOK'
  <2>1. conv[After[o]] \in Chat \cup {None} /\ "queued" \in States
    BY ConstantAssumption DEF IInv, TypeOK, PrepareFollowUp, States, Unsent
  <2>2. state' \in [Op -> States] /\ choice' \in [Op -> Choice \cup {None}]
    BY <2>1 DEF IInv, TypeOK, PrepareFollowUp, NewRow
  <2>3. asked' \in [Op -> Chat \cup {None}] /\ conv' \in [Op -> Chat \cup {None}]
    BY <2>1 DEF IInv, TypeOK, PrepareFollowUp, NewRow
  <2>4. UNCHANGED <<ident, account, revision, claims, deletion, job, posts, landed, patches>>
    BY DEF PrepareFollowUp, NewRow, provider
  <2>5. QED
    BY <2>2, <2>3, <2>4 DEF IInv, TypeOK
<1> USE ConstantAssumption, NoneAssumption
    DEF PrepareFollowUp, NewRow, Checkpointed, rows, provider, Doing,
        Unsent, Active, Final, States, Job, Phase
<1>2. RowShape'
  BY DEF IInv, TypeOK, RowShape
<1>3. TargetShape'
  <2> SUFFICES ASSUME NEW p \in Op, After[p] # None, state'[p] # "absent"
               PROVE  /\ state'[After[p]] # "absent"
                      /\ asked'[p] # None
                      /\ asked'[p] = conv'[After[p]]
                      /\ state'[p] \in Active \cup {"completed", "interrupted",
                                                   "preflight_failed"} =>
                            state'[After[p]] = "completed"
                      /\ account'[p] # None =>
                            account'[After[p]] \in {None, account'[p]}
    BY DEF TargetShape
  <2>1. CASE p = o
    <3>0. After[o] \in Op /\ After[o] # o
      OBVIOUS
    <3>1. conv[After[o]] # None
      BY <3>0 DEF IInv, RowShape
    <3>2. account[o] = None /\ state[After[o]] # "absent"
      BY DEF IInv, RowShape
    <3>3. QED
      BY <2>1, <3>0, <3>1, <3>2 DEF IInv, TypeOK
  <2>2. CASE p # o
    <3>0. After[p] \in Op /\ state[p] # "absent"
      BY <2>2 DEF IInv, TypeOK
    <3>1. After[p] # o /\ After[p] # None
      BY <3>0 DEF IInv, TargetShape
    <3>2. QED
      BY <2>2, <3>0, <3>1 DEF IInv, TypeOK, TargetShape
  <2>3. QED
    BY <2>1, <2>2
<1>4. SnapshotShape'
  BY DEF IInv, TypeOK, SnapshotShape, RowShape
<1>5. HolderShape'
  BY DEF IInv, TypeOK, HolderShape, Holds, RowShape
<1>6. DeleterShape'
  BY DEF IInv, TypeOK, DeleterShape, RowShape, PatchedOnce
<1>7. ChatSerialized'
  BY DEF IInv, TypeOK, ChatSerialized, RowShape
<1>8. DeletionExclusive'
  BY DEF IInv, TypeOK, DeletionExclusive, RowShape, DeleterShape
<1>9. PatchedOnce'
  BY DEF IInv, PatchedOnce
<1>10. QED
  BY <1>1, <1>2, <1>3, <1>4, <1>5, <1>6, <1>7, <1>8, <1>9 DEF IInv

\* Edits touch unsent rows only, and a new choice has a new revision.
LEMMA EditPreserves ==
  ASSUME IInv, NEW o \in Op,
         Cancel(o) \/ \E m \in Choice : ChangeQueued(o, m)
  PROVE  IInv'
<1> USE ConstantAssumption, NoneAssumption
    DEF Cancel, ChangeQueued, rows, provider, Doing,
        Unsent, Active, Final, States, Job, Phase
<1>1. TypeOK'
  BY DEF IInv, TypeOK
<1>2. RowShape'
  BY DEF IInv, TypeOK, RowShape
<1>3. TargetShape'
  BY DEF IInv, TypeOK, TargetShape, RowShape
<1>4. SnapshotShape'
  BY DEF IInv, TypeOK, SnapshotShape, RowShape
<1>5. HolderShape'
  BY DEF IInv, TypeOK, HolderShape, Holds, RowShape
<1>6. DeleterShape'
  BY DEF IInv, TypeOK, DeleterShape, RowShape, PatchedOnce
<1>7. ChatSerialized'
  BY DEF IInv, TypeOK, ChatSerialized, RowShape
<1>8. DeletionExclusive'
  BY DEF IInv, TypeOK, DeletionExclusive, RowShape, DeleterShape
<1>9. PatchedOnce'
  BY DEF IInv, PatchedOnce
<1>10. QED
  BY <1>1, <1>2, <1>3, <1>4, <1>5, <1>6, <1>7, <1>8, <1>9 DEF IInv

\* A worker's snapshot is never newer than the row it reads.
LEMMA SnapshotPreserves ==
  ASSUME IInv, NEW w \in Worker,
         ReadRow(w) \/ \E o \in Op : StartDispatch(w, o)
  PROVE  IInv'
<1> USE ConstantAssumption, NoneAssumption
    DEF StartDispatch, ReadRow, rows, provider, Doing,
        Unsent, Active, Final, States, Job, Phase
<1>1. TypeOK'
  BY DEF IInv, TypeOK
<1>2. SnapshotShape'
  BY DEF IInv, TypeOK, SnapshotShape, RowShape
<1>3. HolderShape'
  BY DEF IInv, TypeOK, HolderShape, Holds, RowShape
<1>4. DeleterShape'
  BY DEF IInv, TypeOK, DeleterShape, RowShape, PatchedOnce
<1>5. RowShape' /\ TargetShape' /\ ChatSerialized' /\ DeletionExclusive' /\ PatchedOnce'
  BY DEF IInv, RowShape, TargetShape, ChatSerialized, DeletionExclusive, PatchedOnce
<1>6. QED
  BY <1>1, <1>2, <1>3, <1>4, <1>5 DEF IInv

\* The reservation: the only step that makes a row active.
LEMMA BeginPreserves ==
  ASSUME IInv, NEW w \in Worker, NEW a \in Account, BeginSend(w, a)
  PROVE  IInv'
<1> USE ConstantAssumption, NoneAssumption
    DEF BeginSend, ChatFree, AccountFits, Move, rows, provider, Doing,
        Unsent, Active, Final, States, Job, Phase
<1>0. job[w] # None /\ job[w] \in Job /\ job[w].op \in Op
  BY DEF IInv, TypeOK
<1>1. TypeOK'
  BY DEF IInv, TypeOK
<1>2. RowShape'
  BY DEF IInv, TypeOK, RowShape
<1>3. TargetShape'
  <2> SUFFICES ASSUME NEW p \in Op, After[p] # None, state'[p] # "absent"
               PROVE  /\ state'[After[p]] # "absent"
                      /\ asked'[p] # None
                      /\ asked'[p] = conv'[After[p]]
                      /\ state'[p] \in Active \cup {"completed", "interrupted",
                                                   "preflight_failed"} =>
                            state'[After[p]] = "completed"
                      /\ account'[p] # None =>
                            account'[After[p]] \in {None, account'[p]}
    BY DEF TargetShape
  <2>0. After[p] \in Op /\ state[p] # "absent"
    BY <1>0 DEF IInv, TypeOK
  <2>1. CASE p = job[w].op
    BY <1>0, <2>0, <2>1 DEF IInv, TypeOK, TargetShape, RowShape
  <2>2. CASE p # job[w].op
    <3>1. /\ state[After[p]] # "absent"
          /\ asked[p] # None
          /\ asked[p] = conv[After[p]]
          /\ state[p] \in Active \cup {"completed", "interrupted",
                                     "preflight_failed"} =>
                state[After[p]] = "completed"
          /\ account[p] # None => account[After[p]] \in {None, account[p]}
      BY <2>0 DEF IInv, TargetShape
    <3>2. account[p] # None => After[p] # job[w].op
      BY <1>0, <2>0, <3>1 DEF IInv, TypeOK, RowShape
    <3>3. state[p] \in Active \cup {"completed", "interrupted",
                                  "preflight_failed"} => After[p] # job[w].op
      BY <3>1
    <3>4. QED
      BY <1>0, <2>0, <2>2, <3>1, <3>2, <3>3 DEF IInv, TypeOK
  <2>3. QED
    BY <2>1, <2>2
<1>4. SnapshotShape'
  BY DEF IInv, TypeOK, SnapshotShape, RowShape
<1>5. HolderShape'
  <2> DEFINE h == job[w].op
  <2>1. \A v \in Worker : ~Holds(v, h)
    BY <1>0 DEF IInv, HolderShape
  <2>2. \A v \in Worker, p \in Op : Holds(v, p)' =>
            (v = w /\ p = h) \/ (v # w /\ Holds(v, p))
    BY <1>0 DEF IInv, TypeOK, Holds
  <2>3. job'[w].checked = choice[h]
    BY <1>0 DEF IInv, TypeOK, SnapshotShape, RowShape
  <2>4. posts[h] = 0
    BY <1>0 DEF IInv, RowShape
  <2>5. QED
    BY <1>0, <2>1, <2>2, <2>3, <2>4 DEF IInv, TypeOK, HolderShape
<1>6. DeleterShape'
  BY DEF IInv, TypeOK, DeleterShape, RowShape, PatchedOnce
<1>7. ChatSerialized'
  BY DEF IInv, TypeOK, ChatSerialized, RowShape
<1>8. DeletionExclusive'
  BY DEF IInv, TypeOK, DeletionExclusive, RowShape, DeleterShape
<1>9. PatchedOnce'
  BY DEF IInv, PatchedOnce
<1>10. QED
  BY <1>1, <1>2, <1>3, <1>4, <1>5, <1>6, <1>7, <1>8, <1>9 DEF IInv

\* The browser binds identity and account to its own reservation.
LEMMA ObservePreserves ==
  ASSUME IInv, NEW w \in Worker, NEW a \in Account, ObserveRequest(w, a)
  PROVE  IInv'
<1> USE ConstantAssumption, NoneAssumption
    DEF ObserveRequest, ChatFree, AccountFits, Move, rows, provider, Doing,
        Unsent, Active, Final, States, Job, Phase
<1>0. job[w] # None /\ job[w] \in Job /\ job[w].op \in Op
  BY DEF IInv, TypeOK
<1>1. TypeOK'
  BY DEF IInv, TypeOK
<1>2. RowShape'
  BY DEF IInv, TypeOK, RowShape
<1>3. TargetShape'
  <2> SUFFICES ASSUME NEW p \in Op, After[p] # None, state'[p] # "absent"
               PROVE  /\ state'[After[p]] # "absent"
                      /\ asked'[p] # None
                      /\ asked'[p] = conv'[After[p]]
                      /\ state'[p] \in Active \cup {"completed", "interrupted",
                                                   "preflight_failed"} =>
                            state'[After[p]] = "completed"
                      /\ account'[p] # None =>
                            account'[After[p]] \in {None, account'[p]}
    BY DEF TargetShape
  <2>0. After[p] \in Op /\ state[p] # "absent"
    BY <1>0 DEF IInv, TypeOK
  <2>1. CASE p = job[w].op
    BY <1>0, <2>0, <2>1 DEF IInv, TypeOK, TargetShape, RowShape
  <2>2. CASE p # job[w].op
    <3>1. /\ state[After[p]] # "absent"
          /\ asked[p] # None
          /\ asked[p] = conv[After[p]]
          /\ state[p] \in Active \cup {"completed", "interrupted",
                                     "preflight_failed"} =>
                state[After[p]] = "completed"
          /\ account[p] # None => account[After[p]] \in {None, account[p]}
      BY <2>0 DEF IInv, TargetShape
    <3>2. account[p] # None => After[p] # job[w].op
      BY <1>0, <2>0, <3>1 DEF IInv, TypeOK, RowShape
    <3>3. state[p] \in Active \cup {"completed", "interrupted",
                                  "preflight_failed"} => After[p] # job[w].op
      BY <3>1
    <3>4. QED
      BY <1>0, <2>0, <2>2, <3>1, <3>2, <3>3 DEF IInv, TypeOK
  <2>3. QED
    BY <2>1, <2>2
<1>4. SnapshotShape'
  BY DEF IInv, TypeOK, SnapshotShape, RowShape
<1>5. HolderShape'
  BY DEF IInv, TypeOK, HolderShape, Holds, RowShape
<1>6. DeleterShape'
  BY DEF IInv, TypeOK, DeleterShape, RowShape, PatchedOnce
<1>7. ChatSerialized' /\ DeletionExclusive' /\ PatchedOnce'
  BY DEF IInv, ChatSerialized, DeletionExclusive, PatchedOnce
<1>8. QED
  BY <1>1, <1>2, <1>3, <1>4, <1>5, <1>6, <1>7 DEF IInv

\* The dispatch claim moves the owner of the reservation forward.
LEMMA ClaimPreserves ==
  ASSUME IInv, NEW w \in Worker, ClaimDispatch(w)
  PROVE  IInv'
<1> USE ConstantAssumption, NoneAssumption
    DEF ClaimDispatch, Move, rows, provider, Doing,
        Unsent, Active, Final, States, Job, Phase
<1>1. TypeOK'
  BY DEF IInv, TypeOK
<1>2. SnapshotShape'
  BY DEF IInv, TypeOK, SnapshotShape, RowShape
<1>3. HolderShape'
  BY DEF IInv, TypeOK, HolderShape, Holds, RowShape
<1>4. DeleterShape'
  BY DEF IInv, TypeOK, DeleterShape, RowShape, PatchedOnce
<1>5. RowShape' /\ TargetShape' /\ ChatSerialized' /\ DeletionExclusive' /\ PatchedOnce'
  BY DEF IInv, RowShape, TargetShape, ChatSerialized, DeletionExclusive, PatchedOnce
<1>6. QED
  BY <1>1, <1>2, <1>3, <1>4, <1>5 DEF IInv

\* The owner of the reservation posts, and owns it no more.
LEMMA PostPreserves ==
  ASSUME IInv, NEW w \in Worker, NEW c \in Chat \cup {None}, Post(w, c)
  PROVE  IInv'
<1> USE ConstantAssumption, NoneAssumption
    DEF Post, Known, Move, rows, provider, Doing,
        Unsent, Active, Final, States, Job, Phase
<1>0. job[w] # None /\ job[w] \in Job /\ job[w].op \in Op
  BY DEF IInv, TypeOK
<1>a. Holds(w, job[w].op)
  BY DEF Holds
<1>b. state[job[w].op] = "sending" /\ posts[job[w].op] = 0
  BY <1>0, <1>a DEF IInv, HolderShape
<1>1. TypeOK'
  BY DEF IInv, TypeOK
<1>2. RowShape'
  BY <1>0, <1>b DEF IInv, TypeOK, RowShape
<1>3. SnapshotShape'
  BY DEF IInv, TypeOK, SnapshotShape, RowShape
<1>4. HolderShape'
  BY DEF IInv, TypeOK, HolderShape, Holds, RowShape
<1>5. DeleterShape'
  BY DEF IInv, TypeOK, DeleterShape, RowShape, PatchedOnce
<1>6. TargetShape' /\ ChatSerialized' /\ DeletionExclusive' /\ PatchedOnce'
  BY DEF IInv, TargetShape, ChatSerialized, DeletionExclusive, PatchedOnce
<1>7. QED
  BY <1>1, <1>2, <1>3, <1>4, <1>5, <1>6 DEF IInv

\* Only the owner of an unsent reservation ends it.
LEMMA FailPreserves ==
  ASSUME IInv, NEW w \in Worker, FailPreflight(w)
  PROVE  IInv'
<1> USE ConstantAssumption, NoneAssumption
    DEF FailPreflight, Stop, rows, provider, Doing,
        Unsent, Active, Final, States, Job, Phase
<1>0. job[w] # None /\ job[w] \in Job /\ job[w].op \in Op
  BY DEF IInv, TypeOK
<1>a. Holds(w, job[w].op)
  BY DEF Holds
<1>b. posts[job[w].op] = 0
  BY <1>0, <1>a DEF IInv, HolderShape
<1>1. TypeOK'
  BY DEF IInv, TypeOK
<1>2. RowShape'
  BY <1>0, <1>b DEF IInv, TypeOK, RowShape
<1>3. TargetShape'
  BY DEF IInv, TypeOK, TargetShape, RowShape
<1>4. SnapshotShape'
  BY DEF IInv, TypeOK, SnapshotShape, RowShape
<1>5. HolderShape'
  BY DEF IInv, TypeOK, HolderShape, Holds, RowShape
<1>6. DeleterShape'
  BY DEF IInv, TypeOK, DeleterShape, RowShape, PatchedOnce
<1>7. ChatSerialized'
  BY DEF IInv, TypeOK, ChatSerialized, RowShape
<1>8. DeletionExclusive'
  BY DEF IInv, TypeOK, DeletionExclusive, RowShape, DeleterShape
<1>9. PatchedOnce'
  BY DEF IInv, PatchedOnce
<1>10. QED
  BY <1>1, <1>2, <1>3, <1>4, <1>5, <1>6, <1>7, <1>8, <1>9 DEF IInv

\* A task that ends gives up what it owned and leaves the rows alone.
LEMMA EndPreserves ==
  ASSUME IInv, NEW w \in Worker, EndTask(w)
  PROVE  IInv'
<1> USE ConstantAssumption, NoneAssumption
    DEF EndTask, Stop, rows, provider, Doing,
        Unsent, Active, Final, States, Job, Phase
<1>1. TypeOK'
  BY DEF IInv, TypeOK
<1>2. SnapshotShape'
  BY DEF IInv, TypeOK, SnapshotShape, RowShape
<1>3. HolderShape'
  BY DEF IInv, TypeOK, HolderShape, Holds, RowShape
<1>4. DeleterShape'
  BY DEF IInv, TypeOK, DeleterShape, RowShape, PatchedOnce
<1>5. RowShape' /\ TargetShape' /\ ChatSerialized' /\ DeletionExclusive' /\ PatchedOnce'
  BY DEF IInv, RowShape, TargetShape, ChatSerialized, DeletionExclusive, PatchedOnce
<1>6. QED
  BY <1>1, <1>2, <1>3, <1>4, <1>5 DEF IInv

\* A New Chat learns its Chat only if nobody is active there.
LEMMA ConversationPreserves ==
  ASSUME IInv, NEW w \in Worker, ObserveConversation(w)
  PROVE  IInv'
<1> USE ConstantAssumption, NoneAssumption
    DEF ObserveConversation, ChatFree, rows, provider, Doing,
        Unsent, Active, Final, States, Job, Phase
<1>1. TypeOK'
  BY DEF IInv, TypeOK
<1>2. RowShape'
  BY DEF IInv, TypeOK, RowShape
<1>3. TargetShape'
  BY DEF IInv, TypeOK, TargetShape, RowShape
<1>4. DeleterShape'
  BY DEF IInv, TypeOK, DeleterShape, RowShape, PatchedOnce
<1>5. ChatSerialized'
  BY DEF IInv, TypeOK, ChatSerialized, RowShape
<1>6. SnapshotShape' /\ HolderShape' /\ DeletionExclusive' /\ PatchedOnce'
  BY DEF IInv, SnapshotShape, HolderShape, DeletionExclusive, PatchedOnce, Holds
<1>7. QED
  BY <1>1, <1>2, <1>3, <1>4, <1>5, <1>6 DEF IInv

\* Recovery confirms a message that landed, hence was posted.
LEMMA SubmittedPreserves ==
  ASSUME IInv, NEW o \in Op, Submitted(o)
  PROVE  IInv'
<1> USE ConstantAssumption, NoneAssumption
    DEF Submitted, rows, provider, Doing,
        Unsent, Active, Final, States, Job, Phase
<1>1. TypeOK'
  BY DEF IInv, TypeOK
<1>2. RowShape'
  BY DEF IInv, TypeOK, RowShape
<1>3. TargetShape'
  BY DEF IInv, TypeOK, TargetShape, RowShape
<1>4. SnapshotShape'
  BY DEF IInv, TypeOK, SnapshotShape, RowShape
<1>5. HolderShape'
  BY DEF IInv, TypeOK, HolderShape, Holds, RowShape
<1>6. DeleterShape'
  BY DEF IInv, TypeOK, DeleterShape, RowShape, PatchedOnce
<1>7. ChatSerialized'
  BY DEF IInv, TypeOK, ChatSerialized, RowShape
<1>8. DeletionExclusive'
  BY DEF IInv, TypeOK, DeletionExclusive, RowShape, DeleterShape
<1>9. PatchedOnce'
  BY DEF IInv, PatchedOnce
<1>10. QED
  BY <1>1, <1>2, <1>3, <1>4, <1>5, <1>6, <1>7, <1>8, <1>9 DEF IInv

\* A confirmed submission gets its answer or its interruption.
LEMMA SettlePreserves ==
  ASSUME IInv, NEW o \in Op, Complete(o) \/ Interrupt(o)
  PROVE  IInv'
<1> USE ConstantAssumption, NoneAssumption
    DEF Complete, Interrupt, Settle, rows, provider, Doing,
        Unsent, Active, Final, States, Job, Phase
<1>1. TypeOK'
  BY DEF IInv, TypeOK
<1>2. RowShape'
  BY DEF IInv, TypeOK, RowShape
<1>3. TargetShape'
  BY DEF IInv, TypeOK, TargetShape, RowShape
<1>4. SnapshotShape'
  BY DEF IInv, TypeOK, SnapshotShape, RowShape
<1>5. HolderShape'
  BY DEF IInv, TypeOK, HolderShape, Holds, RowShape
<1>6. DeleterShape'
  BY DEF IInv, TypeOK, DeleterShape, RowShape, PatchedOnce
<1>7. ChatSerialized'
  BY DEF IInv, TypeOK, ChatSerialized, RowShape
<1>8. DeletionExclusive'
  BY DEF IInv, TypeOK, DeletionExclusive, RowShape, DeleterShape
<1>9. PatchedOnce'
  BY DEF IInv, PatchedOnce
<1>10. QED
  BY <1>1, <1>2, <1>3, <1>4, <1>5, <1>6, <1>7, <1>8, <1>9 DEF IInv

\* A delete worker starts from a completed row.
LEMMA DeletePreserves ==
  ASSUME IInv, NEW w \in Worker, NEW o \in Op, StartDelete(w, o)
  PROVE  IInv'
<1> USE ConstantAssumption, NoneAssumption
    DEF StartDelete, NoActivePeer, rows, provider, Doing,
        Unsent, Active, Final, States, Job, Phase
<1>1. TypeOK'
  BY DEF IInv, TypeOK
<1>2. SnapshotShape'
  BY DEF IInv, TypeOK, SnapshotShape, RowShape
<1>3. HolderShape'
  BY DEF IInv, TypeOK, HolderShape, Holds, RowShape
<1>4. DeleterShape'
  BY DEF IInv, TypeOK, DeleterShape, RowShape, PatchedOnce
<1>5. RowShape' /\ TargetShape' /\ ChatSerialized' /\ DeletionExclusive' /\ PatchedOnce'
  BY DEF IInv, RowShape, TargetShape, ChatSerialized, DeletionExclusive, PatchedOnce
<1>6. QED
  BY <1>1, <1>2, <1>3, <1>4, <1>5 DEF IInv

\* The claim: no send can be active in the Chat, nor become so.
LEMMA ClaimDeletePreserves ==
  ASSUME IInv, NEW w \in Worker, ClaimDelete(w)
  PROVE  IInv'
<1> USE ConstantAssumption, NoneAssumption
    DEF ClaimDelete, NoActivePeer, Move, rows, provider, Doing,
        Unsent, Active, Final, States, Job, Phase
<1>0. job[w] # None /\ job[w] \in Job /\ job[w].op \in Op
  BY DEF IInv, TypeOK
<1>a. state[job[w].op] = "completed" /\ conv[job[w].op] \in Chat
  BY <1>0 DEF IInv, TypeOK, RowShape, DeleterShape
<1>1. TypeOK'
  <2>1. job' \in [Worker -> Job \cup {None}]
    BY <1>0 DEF IInv, TypeOK
  <2>2. deletion' \in [Chat -> {"none", "unknown", "deleted"}]
    BY DEF IInv, TypeOK
  <2>3. QED
    BY <2>1, <2>2 DEF IInv, TypeOK
<1>2. SnapshotShape'
  BY DEF IInv, TypeOK, SnapshotShape, RowShape
<1>3. HolderShape'
  BY DEF IInv, TypeOK, HolderShape, Holds, RowShape
<1>4. DeleterShape'
  <2> DEFINE c == conv[job[w].op]
  <2>1. c \in Chat /\ patches[c] = 0
    <3>1. patches[c] \in Nat /\ patches[c] <= 1 /\ patches[c] # 1
      BY <1>a DEF IInv, TypeOK, PatchedOnce
    <3>2. QED
      BY <1>a, <3>1
  <2>2. \A v \in Worker :
            Doing(v, "patching") => conv[job[v].op] # c
    BY <2>1 DEF IInv, TypeOK, DeleterShape
  <2>3. QED
    BY <1>0, <2>1, <2>2 DEF IInv, TypeOK, DeleterShape
<1>5. DeletionExclusive'
  BY DEF IInv, TypeOK, DeletionExclusive, RowShape, DeleterShape
<1>6. PatchedOnce'
  BY DEF IInv, TypeOK, PatchedOnce, DeleterShape
<1>7. RowShape' /\ TargetShape' /\ ChatSerialized'
  BY DEF IInv, RowShape, TargetShape, ChatSerialized
<1>8. QED
  BY <1>1, <1>2, <1>3, <1>4, <1>5, <1>6, <1>7 DEF IInv

\* The worker with the claim sends the one PATCH.
LEMMA PatchPreserves ==
  ASSUME IInv, NEW w \in Worker, Patch(w)
  PROVE  IInv'
<1> USE ConstantAssumption, NoneAssumption
    DEF Patch, Move, rows, provider, Doing,
        Unsent, Active, Final, States, Job, Phase
<1>0. job[w] # None /\ job[w] \in Job /\ job[w].op \in Op
  BY DEF IInv, TypeOK
<1>a. state[job[w].op] = "completed" /\ conv[job[w].op] \in Chat
  BY <1>0 DEF IInv, TypeOK, RowShape, DeleterShape
<1>1. TypeOK'
  <2>1. job' \in [Worker -> Job \cup {None}]
    BY <1>0 DEF IInv, TypeOK
  <2>2. patches' \in [Chat -> Nat]
    BY <1>a DEF IInv, TypeOK
  <2>3. QED
    BY <2>1, <2>2 DEF IInv, TypeOK
<1>2. SnapshotShape'
  BY DEF IInv, TypeOK, SnapshotShape, RowShape
<1>3. HolderShape'
  BY DEF IInv, TypeOK, HolderShape, Holds, RowShape
<1>4. DeleterShape'
  BY DEF IInv, TypeOK, DeleterShape, RowShape, PatchedOnce
<1>5. PatchedOnce'
  BY DEF IInv, TypeOK, PatchedOnce, DeleterShape
<1>6. RowShape' /\ TargetShape' /\ ChatSerialized' /\ DeletionExclusive'
  BY DEF IInv, RowShape, TargetShape, ChatSerialized, DeletionExclusive
<1>7. QED
  BY <1>1, <1>2, <1>3, <1>4, <1>5, <1>6 DEF IInv

\* A confirmed deletion stays a claim.
LEMMA ConfirmPreserves ==
  ASSUME IInv, NEW w \in Worker, ConfirmDelete(w)
  PROVE  IInv'
<1> USE ConstantAssumption, NoneAssumption
    DEF ConfirmDelete, Stop, rows, provider, Doing,
        Unsent, Active, Final, States, Job, Phase
<1>1. TypeOK'
  BY DEF IInv, TypeOK
<1>2. SnapshotShape'
  BY DEF IInv, TypeOK, SnapshotShape, RowShape
<1>3. HolderShape'
  BY DEF IInv, TypeOK, HolderShape, Holds, RowShape
<1>4. DeleterShape'
  BY DEF IInv, TypeOK, DeleterShape, RowShape, PatchedOnce
<1>5. DeletionExclusive'
  BY DEF IInv, TypeOK, DeletionExclusive, RowShape, DeleterShape
<1>6. PatchedOnce'
  BY DEF IInv, TypeOK, PatchedOnce, DeleterShape
<1>7. RowShape' /\ TargetShape' /\ ChatSerialized'
  BY DEF IInv, RowShape, TargetShape, ChatSerialized
<1>8. QED
  BY <1>1, <1>2, <1>3, <1>4, <1>5, <1>6, <1>7 DEF IInv

-----------------------------------------------------------------------------
\* Every step of every controller preserves the invariant.
LEMMA NextPreserves ==
  ASSUME IInv, [Next]_vars
  PROVE  IInv'
<1>1. CASE UNCHANGED vars
  BY <1>1
  DEF vars, IInv, TypeOK, RowShape, TargetShape, SnapshotShape, HolderShape,
      DeleterShape, ChatSerialized, DeletionExclusive, PatchedOnce, Holds,
      Doing
<1>2. ASSUME NEW o \in Op,
             \/ \E c \in Chat \cup {None}, m \in Choice : PrepareFirst(o, c, m)
             \/ \E m \in Choice : PrepareFollowUp(o, m) \/ ChangeQueued(o, m)
             \/ Cancel(o) \/ Submitted(o) \/ Complete(o) \/ Interrupt(o)
      PROVE  IInv'
  BY <1>2, FirstPreserves, FollowUpPreserves, EditPreserves,
     SubmittedPreserves, SettlePreserves
<1>3. ASSUME NEW w \in Worker,
             \/ \E o \in Op : StartDispatch(w, o) \/ StartDelete(w, o)
             \/ \E a \in Account : BeginSend(w, a) \/ ObserveRequest(w, a)
             \/ \E c \in Chat \cup {None} : Post(w, c)
             \/ ReadRow(w) \/ ClaimDispatch(w) \/ FailPreflight(w)
             \/ ObserveConversation(w) \/ EndTask(w)
             \/ ClaimDelete(w) \/ Patch(w) \/ ConfirmDelete(w)
      PROVE  IInv'
  BY <1>3, SnapshotPreserves, BeginPreserves, ObservePreserves,
     ClaimPreserves, PostPreserves, FailPreserves, EndPreserves,
     ConversationPreserves, DeletePreserves, ClaimDeletePreserves,
     PatchPreserves, ConfirmPreserves
<1>4. CASE Next
  BY <1>2, <1>3, <1>4 DEF Next
<1>5. QED
  BY <1>1, <1>4

\* The invariant that carries all the theorems below: the reservation has one
\* owner and a row keeps the Chat, account and choice it was reserved with.
THEOREM SubchatInductive == Spec => []IInv
<1>1. Init => IInv
  BY InitIInv
<1>2. IInv /\ [Next]_vars => IInv'
  BY NextPreserves
<1>3. QED
  BY <1>1, <1>2, PTL DEF Spec

\* The tables of the shared SQLite file and the tasks hold what they should.
THEOREM SubchatTypeCorrect == Spec => []TypeOK
<1>1. IInv => TypeOK
  BY DEF IInv
<1>2. QED
  BY <1>1, SubchatInductive, PTL

\* A generation request leaves at most once, however many controllers race,
\* recover, cancel or die, and never for a submission that says it was not
\* sent.
THEOREM SentAtMostOnce == Spec => []SentOnce
<1>1. IInv => SentOnce
  BY DEF IInv, TypeOK, RowShape, SentOnce, Unsent
<1>2. QED
  BY <1>1, SubchatInductive, PTL

\* Two sends reserved for one Chat are never active together.
THEOREM ChatsSerialized == Spec => []ChatSerialized
<1>1. IInv => ChatSerialized
  BY DEF IInv
<1>2. QED
  BY <1>1, SubchatInductive, PTL

\* A deletion claim and an active send reserved for the Chat exclude each
\* other.
THEOREM DeletionsExclusive == Spec => []DeletionExclusive
<1>1. IInv => DeletionExclusive
  BY DEF IInv
<1>2. QED
  BY <1>1, SubchatInductive, PTL

\* No edit of a queued submission slips between preparation and dispatch.
THEOREM SelectionsHold == Spec => []SentAsChecked
<1>1. IInv => SentAsChecked
  BY DEF IInv, TypeOK, HolderShape, Holds, SentAsChecked, Doing, Job
<1>2. QED
  BY <1>1, SubchatInductive, PTL

\* A follow-up is dispatched after its target's answer, in the target's Chat
\* and under the target's account.
THEOREM FollowUpsFollow == Spec => []FollowsTarget
<1>1. IInv => FollowsTarget
  BY ConstantAssumption
  DEF IInv, TypeOK, RowShape, TargetShape, FollowsTarget, Active
<1>2. QED
  BY <1>1, SubchatInductive, PTL

\* The deletion request of a Chat leaves at most once and under its claim.
THEOREM PatchesOnce == Spec => []PatchedOnce
<1>1. IInv => PatchedOnce
  BY DEF IInv
<1>2. QED
  BY <1>1, SubchatInductive, PTL

(***************************************************************************)
(* The process of the dedicated Chrome (BackgroundChrome).                 *)
(***************************************************************************)

\* Where an owner of the dedicated Chrome, its guardian and its process can be.
OwnerStage == {"idle", "locked", "alone", "armed", "launched", "found", "unattached", "attached",
               "leaving", "detaching", "waiting", "done", "dead"}
GuardState == {"none", "watching", "dismissed", "alarmed", "ended", "failed"}
ChromeState == {"none", "launched", "running", "leaving", "gone"}

\* The stages are the ones that the code has.
ChromeType ==
    /\ lock \in Op \cup {None}
    /\ owner \in [Op -> OwnerStage]
    /\ guardian \in [Op -> GuardState]
    /\ process \in [Op -> ChromeState]

\* An owner between its lock and its end holds the lock.
LockHeld == \A o \in Op : owner[o] \notin {"idle", "done", "dead"} => lock = o
\* An owner that has found its Chrome need not wait for one that is to come.
ChromeCame ==
    \A o \in Op : owner[o] \in {"unattached", "attached", "detaching"} =>
        process[o] \notin {"none", "launched"}
\* A guardian is done with only after its owner has cleaned up or died.
GuardianLast ==
    \A o \in Op : guardian[o] \in {"dismissed", "alarmed", "ended", "failed"} =>
        owner[o] \in {"waiting", "done", "dead"}
\* and then nothing runs or comes.
GuardianDone ==
    \A o \in Op : guardian[o] \in {"dismissed", "ended"} => process[o] \in {"none", "gone"}

\* The inductive invariant of the dedicated Chrome.
ChromeInv ==
    /\ ChromeType /\ LockHeld /\ ChromeCame /\ GuardianLast /\ GuardianDone
    /\ Chrome!AttachedSpared

\* No owner has begun.
LEMMA ChromeStarts == Chrome!BackgroundInit => ChromeInv
BY ConstantAssumption DEF Chrome!BackgroundInit, ChromeInv, ChromeType, LockHeld, ChromeCame,
   GuardianLast, GuardianDone, Chrome!AttachedSpared, OwnerStage, GuardState, ChromeState

\* Every step of an owner, a guardian, a Chrome process or another program keeps it.
LEMMA ChromeStep ==
    ASSUME ChromeInv, Chrome!BackgroundNext
    PROVE  ChromeInv'
<1> USE ConstantAssumption DEF ChromeInv, ChromeType, LockHeld, ChromeCame, GuardianLast,
        GuardianDone, Chrome!AttachedSpared, OwnerStage, GuardState, ChromeState, Chrome!Goto,
        Chrome!Leave, Chrome!Visible, Chrome!Running, Chrome!Ended, Chrome!files
<1>1. CASE Chrome!Foreign
  BY <1>1 DEF Chrome!Foreign
<1>2. ASSUME NEW o \in Op, Chrome!Lock(o) PROVE ChromeInv'
  BY <1>2 DEF Chrome!Lock
<1>3. ASSUME NEW o \in Op, Chrome!StopPrevious(o) PROVE ChromeInv'
  <2>1. {t \in Chrome!Predecessor : owner[t] = "attached"} = {}
    BY <1>3 DEF Chrome!StopPrevious, Chrome!Predecessor
  <2>2. struck' = {}
    BY <1>3, <2>1 DEF Chrome!StopPrevious
  <2> QED BY <1>3, <2>2 DEF Chrome!StopPrevious, Chrome!Predecessor
<1>4. ASSUME NEW o \in Op, Chrome!FindPort(o) \/ Chrome!Attach(o) \/ Chrome!Leaves(o)
      PROVE  ChromeInv'
  BY <1>4 DEF Chrome!FindPort, Chrome!Attach, Chrome!Leaves
<1>5. ASSUME NEW o \in Op, Chrome!Finish(o) \/ Chrome!Dies(o) PROVE ChromeInv'
  BY <1>5 DEF Chrome!Finish, Chrome!Dies
<1>6. ASSUME NEW o \in Op, Chrome!Starts(o) \/ Chrome!Ends(o) PROVE ChromeInv'
  BY <1>6 DEF Chrome!Starts, Chrome!Ends
<1>7. ASSUME NEW o \in Op, NEW ok \in BOOLEAN, Chrome!Arm(o, ok) \/ Chrome!Launch(o, ok)
      PROVE  ChromeInv'
  BY <1>7 DEF Chrome!Arm, Chrome!Launch
<1>8. ASSUME NEW o \in Op, NEW ok \in BOOLEAN, Chrome!Cleanup(o, ok) PROVE ChromeInv'
  BY <1>8 DEF Chrome!Cleanup
<1>9. ASSUME NEW o \in Op, NEW ok \in BOOLEAN, Chrome!Guard(o, ok) PROVE ChromeInv'
  BY <1>9 DEF Chrome!Guard
<1> QED BY <1>1, <1>2, <1>3, <1>4, <1>5, <1>6, <1>7, <1>8, <1>9 DEF Chrome!BackgroundNext

\* and with it what the transport promises of the Chrome of an owner.
LEMMA ChromeTrue == ChromeInv => Chrome!NoneLeft /\ Chrome!AttachedSpared
BY DEF ChromeInv, GuardianDone, Chrome!NoneLeft

(***************************************************************************)
(* A send in the dedicated browser (BrowserSend): every part of BrowserInv on *)
(* its own, one step for each of its actions.                              *)
(***************************************************************************)

\* The stages of a send: before its reservation, under it, and after its draft.
Preparing == {"opening", "choosing", "prepared"}
Writing == {"reserved", "routed"}
Inserted == {"inserted", "rejected", "waiting", "cleaning"}
SendStage == {"idle", "opening", "choosing", "prepared", "reserved", "routed",
              "inserted", "rejected", "waiting", "cleaning", "done"}
RowState == {"prepared", "sending", "preflight_failed", "completed"}
CallbackState == {"none", "claimed", "recorded", "posted", "streaming", "ended"}

\* The rows, the stages and the pages are what the code has.
BrowserType ==
    /\ httpx \in BOOLEAN
    /\ row \in [Account -> RowState]
    /\ at \in [Account -> SendStage]
    /\ tab \in [Account -> Choice \cup {None}]
    /\ previous \in [Account -> Choice \cup {None}]
    /\ pages \in [Account -> Choice \cup {None}]
    /\ gen \in [Account -> CallbackState]
    /\ dispatched \in [Account -> {"pending", "accepted", "failed"}]
    /\ told \in [Account -> {"nothing", "sent", "failed", "unknown"}]
    /\ finished \subseteq Account
    /\ open \subseteq Choice
    /\ shown \in [Choice -> SUBSET Account]
    /\ draft \in [Choice -> Account \cup {None}]
    /\ fetch \in [Choice -> Account \cup {None}]
    /\ routes \in [Choice -> Seq(Account \cup {"abort"})]

\* The lock is held from prepare to the end of send, and what has not reached the
\* reservation is still prepared.
LockSpansSend ==
    \A o \in Account :
        /\ holder = o <=> at[o] \notin {"idle", "done"}
        /\ row[o] = "prepared" <=> at[o] \in {"idle"} \cup Preparing
        /\ at[o] \in Writing => row[o] = "sending"
        /\ at[o] \notin {"idle"} => tab[o] \in Choice
        /\ at[o] \in Preparing \cup Writing => tab[o] \in open

\* A reserved message is the only one that is being sent.
SendingAlone ==
    \A o, q \in Account :
        row[q] = "sending" /\ (row[o] = "sending" \/ at[o] \in Writing \cup Inserted) => q = o

\* The page of a message that needs one is the page prepare has opened or taken for it.
OwnsPage ==
    /\ \A o \in Account : Browser!Busy(o) => pages[o] = tab[o]
    /\ \A o \in finished : row[o] = "completed"

\* Before its draft is inserted nothing of a message is anywhere.
NothingInserted ==
    \A o \in Account : at[o] \in {"idle"} \cup Preparing \cup Writing =>
        /\ o \notin block \cup claimed \cup orphaned
        /\ \A p \in Choice : o \notin shown[p] /\ draft[p] # o /\ fetch[p] # o

\* The route that comes first on page p aborts the POST of message f, or is its own.
Blocked(f, p) ==
    /\ routes[p] # <<>>
    /\ Head(routes[p]) = f \/ (f \in block /\ Head(routes[p]) = "abort")

\* A message that has been routed is intercepted in its page.
Routed == \A o \in Account : at[o] = "routed" => Blocked(o, tab[o])

\* A draft or a POST that is still to come is in the page of its message, which is
\* "sending" and unclaimed, and it is intercepted there.
LooseBlocked ==
    \A p \in Choice, f \in Account : draft[p] = f \/ fetch[p] = f =>
        /\ p = tab[f] /\ p \in open
        /\ row[f] = "sending" /\ f \notin claimed
        /\ draft[p] = f => fetch[p] # f
        /\ Blocked(f, p)
        /\ f \notin block => at[f] \in {"inserted", "waiting"}

\* Until its POST is claimed a message that is being sent stays "sending".
Unclaimed ==
    \A o \in Account : o \notin claimed =>
        /\ at[o] \in Writing \cup {"inserted", "waiting", "rejected"} => row[o] = "sending"
        /\ gen[o] = "none" /\ dispatched[o] = "pending"

\* A message whose insertion was rejected is blocked, and nothing blocked was claimed.
RejectedBlocked ==
    /\ block \cap claimed = {}
    /\ \A o \in Account : at[o] = "rejected" => o \in block

\* What the callback has done so far.
CallbackOrder ==
    /\ left \subseteq claimed \cap identified
    /\ appeared \subseteq left
    /\ \A o \in Account :
        /\ gen[o] \in {"claimed", "recorded"} =>
              /\ row[o] = "sending" /\ o \notin left /\ dispatched[o] = "pending"
              /\ o \notin orphaned => at[o] \in {"inserted", "waiting"}
        /\ gen[o] = "recorded" => o \in identified
        /\ gen[o] \in {"posted", "streaming"} => o \in left
        /\ dispatched[o] = "accepted" => o \in left
        /\ row[o] = "completed" => o \in appeared

\* Messages a page shows that the server has not taken.
Ghosts(p) == shown[p] \ (appeared \cup orphaned)
\* They stand in the page of their message, which is not to be used again.
GhostsOwned ==
    \A p \in Choice : \A m \in Ghosts(p) :
        /\ p \in open
        /\ tab[m] = p /\ pages[m] = p
        /\ row[m] = "sending" \/ (row[m] = "preflight_failed" /\ p \in unreusable)
\* The page of the send under way shows none but its own.
GhostsElsewhere ==
    \A o \in Account : holder = o /\ tab[o] \in Choice =>
        \A m \in Ghosts(tab[o]) : m = o \/ row[m] = "sending"

\* The inductive invariant of a send in the dedicated browser.
BrowserInv ==
    /\ BrowserType /\ LockSpansSend /\ SendingAlone /\ OwnsPage /\ NothingInserted /\ Routed
    /\ LooseBlocked /\ Unclaimed /\ RejectedBlocked /\ CallbackOrder
    /\ GhostsOwned /\ GhostsElsewhere
    /\ Browser!NothingEscaped /\ Browser!EscapesRecorded /\ Browser!TabsSpared

\* Uninstalling the route of a message leaves the first of the others first.
LEMMA OthersKept ==
    ASSUME BrowserType, NEW o \in Account, NEW p \in Choice
    PROVE  /\ Browser!Others(o, p) \in Seq(Account \cup {"abort"})
           /\ routes[p] # <<>> /\ Head(routes[p]) # o =>
                 Browser!Others(o, p) # <<>> /\ Head(Browser!Others(o, p)) = Head(routes[p])
<1> DEFINE r == routes[p]
           H == Account \cup {"abort"}
           i == CHOOSE i \in Browser!At(o, p) : TRUE
           s == SubSeq(r, 1, i - 1)
           t == SubSeq(r, i + 1, Len(r))
<1>1. r \in Seq(H)
  BY DEF BrowserType
<1>2. CASE Browser!At(o, p) = {}
  BY <1>1, <1>2 DEF Browser!Others
<1>3. CASE Browser!At(o, p) # {}
  <2>1. i \in 1..Len(r) /\ r[i] = o
    BY <1>1, <1>3 DEF Browser!At
  <2>2. Browser!Others(o, p) = s \o t
    BY <1>3 DEF Browser!Others
  <2> HIDE DEF i
  <2> DEFINE n == i - 1
  <2>3. Len(r) \in Nat /\ (\A k \in 1..Len(r) : r[k] \in H)
    BY <1>1
  <2>4. n \in Nat /\ (\A k \in 1..n : r[k] \in H)
    BY <2>1, <2>3
  <2>5. s \in Seq(H) /\ Len(s) = n /\ (\A k \in 1..n : s[k] = r[k])
    <3>1. /\ SubSeq(r, 1, n) \in Seq(H)
          /\ Len(SubSeq(r, 1, n)) = (IF 1 <= n THEN n - 1 + 1 ELSE 0)
          /\ \A k \in 1..(n - 1 + 1) : SubSeq(r, 1, n)[k] = r[1 + k - 1]
      <4> HIDE DEF n, r, H
      <4> QED BY <2>4, SubSeqProperties
    <3> QED BY <3>1, <2>4
  <2>6. t \in Seq(H)
    <3>1. \A k \in (i + 1)..Len(r) : r[k] \in H
      BY <2>1, <2>3
    <3>2. i + 1 \in Int /\ Len(r) \in Int
      BY <2>1, <2>3
    <3> HIDE DEF r, H
    <3> QED BY <3>1, <3>2, SubSeqProperties
  <2> HIDE DEF s, t
  <2>7. s \o t \in Seq(H) /\ Len(s \o t) >= n /\ \A k \in 1..n : (s \o t)[k] = r[k]
    BY <2>4, <2>5, <2>6
  <2>8. ASSUME r # <<>>, Head(r) # o
        PROVE  s \o t # <<>> /\ Head(s \o t) = Head(r)
    <3>1. Head(r) = r[1]
      BY <1>1, <2>8
    <3>2. n >= 1
      BY <2>1, <2>8, <3>1
    <3> QED BY <2>4, <2>7, <3>1, <3>2
  <2> QED BY <2>2, <2>7, <2>8
<1> QED BY <1>2, <1>3

\* Closing pages forgets what they showed and held.
LEMMA ClosedType ==
    ASSUME BrowserType, NEW S, Browser!Closed(S)
    PROVE  /\ open' \subseteq Choice
           /\ shown' \in [Choice -> SUBSET Account]
           /\ draft' \in [Choice -> Account \cup {None}]
           /\ fetch' \in [Choice -> Account \cup {None}]
           /\ routes' \in [Choice -> Seq(Account \cup {"abort"})]
<1>1. <<>> \in Seq(Account \cup {"abort"})
  OBVIOUS
<1> QED BY <1>1 DEF BrowserType, Browser!Closed

\* A page that sends its draft shows it and fetches.
LEMMA SendsType ==
    ASSUME BrowserType, NEW p \in Choice, draft[p] \in Account, Browser!Sends(p)
    PROVE  /\ shown' \in [Choice -> SUBSET Account]
           /\ draft' \in [Choice -> Account \cup {None}]
           /\ fetch' \in [Choice -> Account \cup {None}]
BY DEF BrowserType, Browser!Sends

\* The other pages stay routed, and the page of a blocked message aborts.
LEMMA UninstallKept ==
    ASSUME BrowserType, NEW o \in Account, tab[o] \in Choice, Browser!Uninstall(o)
    PROVE  /\ routes' \in [Choice -> Seq(Account \cup {"abort"})]
           /\ o \notin block =>
                 \A p \in Choice : routes[p] # <<>> /\ Head(routes[p]) # o =>
                     routes'[p] # <<>> /\ Head(routes'[p]) = Head(routes[p])
           /\ o \in block =>
                 \A p \in Choice : routes'[p] = routes[p] \/
                     (routes'[p] # <<>> /\ Head(routes'[p]) = "abort")
<1> DEFINE H == Account \cup {"abort"}
           r == routes[tab[o]]
           s == Browser!Others(o, tab[o])
<1>1. /\ r \in Seq(H) /\ s \in Seq(H)
      /\ r # <<>> /\ Head(r) # o => s # <<>> /\ Head(s) = Head(r)
  BY OthersKept DEF BrowserType
<1>2. <<"abort">> \in Seq(H)
  OBVIOUS
<1>3. <<"abort">> \o r \in Seq(H) /\ <<"abort">> \o s \in Seq(H)
  BY <1>1, <1>2
<1>4. ASSUME tab[o] \notin open PROVE routes' = routes
  BY <1>4 DEF Browser!Uninstall
<1>5. ASSUME tab[o] \in open
      PROVE  \E q \in Browser!CleanedRoutes(o, tab[o]) : routes' = [routes EXCEPT ![tab[o]] = q]
  BY <1>5 DEF Browser!Uninstall
<1>6. \A q \in Browser!CleanedRoutes(o, tab[o]) :
          /\ q \in Seq(H)
          /\ o \notin block => q \in {r, s}
          /\ o \in block => q = r \/ (q # <<>> /\ Head(q) = "abort")
  <2>1. \A q \in {r, s} : <<"abort">> \o q # <<>> /\ Head(<<"abort">> \o q) = "abort"
    BY <1>1
  <2> HIDE DEF r, s, H
  <2> QED BY <1>1, <1>3, <2>1 DEF Browser!CleanedRoutes, r, s
<1> QED BY <1>1, <1>4, <1>5, <1>6 DEF BrowserType

\* A fetch that is issued is claimed by the callback of its message, or by nobody.
LEMMA IssueClaims ==
    ASSUME BrowserType, LooseBlocked, NEW p \in Choice, Browser!Issue(p)
    PROVE  /\ left' = left
           /\ \/ claimed' = claimed /\ gen' = gen
              \/ \E f \in Account :
                    /\ fetch[p] = f /\ f \notin block
                    /\ claimed' = claimed \cup {f}
                    /\ gen' = [gen EXCEPT ![f] = "claimed"]
<1> DEFINE f == fetch[p]
<1>1. f \in Account /\ Blocked(f, p)
  BY DEF Browser!Issue, BrowserType, LooseBlocked
<1>2. Head(routes[p]) # None
  BY <1>1, ConstantAssumption, TransportAssumption DEF Blocked
<1> QED BY <1>1, <1>2, TransportAssumption DEF Browser!Issue, Blocked

\* A message that was never claimed closes a tab that no other message needs.
LEMMA RejectedAlone ==
    ASSUME LockSpansSend, SendingAlone, OwnsPage, Unclaimed, RejectedBlocked,
           NEW o \in Account, holder = o,
           at[o] = "rejected" \/ (at[o] = "waiting" /\ o \notin claimed)
    PROVE  ~Browser!Robs(o, tab[o])
<1>1. row[o] = "sending"
  BY DEF Unclaimed, RejectedBlocked
<1>2. ASSUME NEW q \in Account \ {o} PROVE ~Browser!Busy(q)
  BY <1>1 DEF Browser!Busy, SendingAlone
<1> QED BY <1>2 DEF Browser!Robs, Browser!Owners

\* Every step keeps the types.
LEMMA BrowserTypeStep ==
    ASSUME BrowserInv, Browser!BrowserSendNext
    PROVE  BrowserType'
<1> USE ConstantAssumption, TransportAssumption DEF BrowserInv, BrowserType, SendStage,
        RowState, CallbackState
<1>1. ASSUME NEW o \in Account, NEW p \in Choice, Browser!Prepare(o, p) PROVE BrowserType'
  BY <1>1 DEF Browser!Prepare, Browser!Candidates, Browser!Owners, Browser!Goto, Browser!tabs,
     Browser!editor, Browser!sends
<1>2. ASSUME NEW o \in Account, Browser!Compose(o) PROVE BrowserType'
  BY <1>2 DEF Browser!Compose, Browser!Holds, Browser!Goto, Browser!editor, Browser!sends
<1>3. ASSUME NEW o \in Account, Browser!Baseline(o) PROVE BrowserType'
  BY <1>3 DEF Browser!Baseline, Browser!Holds, Browser!Goto, Browser!editor, Browser!sends
<1>4. ASSUME NEW o \in Account, Browser!Reserve(o) PROVE BrowserType'
  BY <1>4 DEF Browser!Reserve, Browser!Holds, Browser!Goto, Browser!tabs, Browser!editor,
     Browser!sends
<1>5. ASSUME NEW o \in Account, NEW b \in BOOLEAN, Browser!FailPrepare(o, b) PROVE BrowserType'
  BY <1>5, ClosedType DEF Browser!FailPrepare, Browser!MayClose, Browser!Goto, Browser!sends
<1>6. ASSUME NEW o \in Account, NEW b \in BOOLEAN, Browser!Refuse(o, b) PROVE BrowserType'
  BY <1>6, ClosedType DEF Browser!Refuse, Browser!Discard, Browser!MayClose, Browser!Goto,
     Browser!sends, Browser!editor
<1>7. ASSUME NEW o \in Account, NEW b \in BOOLEAN, Browser!AuthFails(o, b) PROVE BrowserType'
  BY <1>7, ClosedType, ZenonT(40) DEF Browser!AuthFails, Browser!Discard, Browser!MayClose, Browser!Goto,
     Browser!editor
<1>8. ASSUME NEW o \in Account, Browser!Intercept(o) PROVE BrowserType'
  <2>1. tab[o] \in Choice
    BY <1>8 DEF Browser!Intercept, Browser!Holds, LockSpansSend
  <2>2. <<o>> \o routes[tab[o]] \in Seq(Account \cup {"abort"})
    BY <2>1
  <2> QED BY <1>8, <2>1, <2>2 DEF Browser!Intercept, Browser!Holds, Browser!Goto, Browser!tabs,
     Browser!sends
<1>9. ASSUME NEW o \in Account, Browser!Insert(o) PROVE BrowserType'
  BY <1>9 DEF Browser!Insert, Browser!Holds, Browser!Goto, Browser!tabs, Browser!sends,
     Browser!editor
<1>10. ASSUME NEW o \in Account, Browser!Click(o) PROVE BrowserType'
  BY <1>10, SendsType DEF Browser!Click, Browser!Holds, Browser!Goto, Browser!tabs, Browser!sends,
     LockSpansSend
<1>11. ASSUME NEW p \in Choice, Browser!UserSends(p) PROVE BrowserType'
  BY <1>11, SendsType DEF Browser!UserSends, Browser!tabs, Browser!sends
<1>12. ASSUME NEW o \in Account, Browser!RejectDraft(o) PROVE BrowserType'
  BY <1>12 DEF Browser!RejectDraft, Browser!Holds, Browser!Goto, Browser!editor
<1>13. ASSUME NEW o \in Account, Browser!Return(o) PROVE BrowserType'
  BY <1>13 DEF Browser!Return, Browser!Holds, Browser!Goto, Browser!tabs, Browser!editor
<1>14. ASSUME NEW o \in Account, Browser!GiveUp(o) PROVE BrowserType'
  BY <1>14 DEF Browser!GiveUp, Browser!Goto, Browser!tabs, Browser!editor
<1>15. ASSUME NEW o \in Account, Browser!Clean(o) PROVE BrowserType'
  BY <1>15, UninstallKept DEF Browser!Clean, Browser!Holds, Browser!Goto, Browser!tabs,
     Browser!sends,
     LockSpansSend
<1>16. ASSUME NEW o \in Account, Browser!FinishRoute(o) PROVE BrowserType'
  <2>1. tab[o] \in Choice
    BY <1>16 DEF Browser!FinishRoute, Unclaimed, NothingInserted, LockSpansSend
  <2> QED BY <1>16, <2>1, UninstallKept DEF Browser!FinishRoute, Browser!tabs, Browser!sends
<1>17. ASSUME NEW o \in Account, NEW b \in BOOLEAN, Browser!DropRejected(o, b) PROVE BrowserType'
  BY <1>17, ClosedType DEF Browser!DropRejected, Browser!MayClose, Browser!Goto, Browser!tabs
<1>18. ASSUME NEW o \in Account, NEW b \in BOOLEAN, Browser!Late(o, b) PROVE BrowserType'
  BY <1>18, ClosedType DEF Browser!Late, Browser!MayClose, Browser!Goto
<1>19. ASSUME NEW o \in Account, Browser!Record(o) PROVE BrowserType'
  BY <1>19 DEF Browser!Record, Browser!tabs, Browser!sends, Browser!editor
<1>20. ASSUME NEW o \in Account, Browser!Headers(o) PROVE BrowserType'
  BY <1>20 DEF Browser!Headers, Browser!tabs, Browser!editor
<1>21. ASSUME NEW o \in Account, Browser!RefusePost(o) PROVE BrowserType'
  BY <1>21 DEF Browser!RefusePost, Browser!Ends, Browser!editor
<1>22. ASSUME NEW o \in Account, Browser!Forward(o) PROVE BrowserType'
  BY <1>22, SMTT(90) DEF Browser!Forward, Browser!Ends, Browser!tabs, Browser!editor
<1>23. ASSUME NEW o \in Account, Browser!Land(o) PROVE BrowserType'
  BY <1>23 DEF Browser!Land, Browser!tabs, Browser!editor, Browser!sends
<1>24. ASSUME NEW o \in Account, NEW b \in BOOLEAN, Browser!EndCallback(o, b) PROVE BrowserType'
  BY <1>24 DEF Browser!EndCallback, Browser!Ends, Browser!tabs, Browser!editor
<1>25. ASSUME NEW o \in Account, Browser!Complete(o) PROVE BrowserType'
  <2>1. row' \in [Account -> RowState] /\ finished' \subseteq Account
    BY <1>25 DEF Browser!Complete
  <2>2. /\ gen' \in [Account -> CallbackState]
        /\ dispatched' \in [Account -> {"pending", "accepted", "failed"}]
    <3>1. CASE gen[o] \in {"none", "ended"}
      BY <1>25, <3>1 DEF Browser!Complete
    <3>2. CASE gen[o] \notin {"none", "ended"}
      BY <1>25, <3>2 DEF Browser!Complete, Browser!Ends
    <3> QED BY <3>1, <3>2
  <2> QED BY <1>25, <2>1, <2>2 DEF Browser!Complete, Browser!editor
<1>26. ASSUME NEW o \in Account, Browser!KeepTab(o) PROVE BrowserType'
  BY <1>26 DEF Browser!KeepTab, Browser!editor, Browser!sends
<1>27. ASSUME NEW o \in Account, NEW b \in BOOLEAN, Browser!ReleaseTab(o, b) PROVE BrowserType'
  BY <1>27, ClosedType DEF Browser!ReleaseTab, Browser!sends
<1>28. ASSUME NEW p \in Choice, Browser!Issue(p) PROVE BrowserType'
  BY <1>28, IssueClaims DEF Browser!Issue, Browser!tabs
<1> QED BY <1>1, <1>2, <1>3, <1>4, <1>5, <1>6, <1>7, <1>8, <1>9, <1>10, <1>11, <1>12, <1>13,
   <1>14, <1>15, <1>16, <1>17, <1>18, <1>19, <1>20, <1>21, <1>22, <1>23, <1>24, <1>25, <1>26,
   <1>27, <1>28, SMTT(30) DEF Browser!BrowserSendNext

\* Every step keeps the send under the lock.
LEMMA LockSpansSendStep ==
    ASSUME BrowserInv, Browser!BrowserSendNext
    PROVE  LockSpansSend'
<1> USE ConstantAssumption, TransportAssumption DEF BrowserInv, BrowserType, Unclaimed,
        NothingInserted, CallbackOrder, OwnsPage, Browser!Busy, Preparing, Writing, Inserted,
        SendStage, RowState, CallbackState, LockSpansSend
<1>1. ASSUME NEW o \in Account, NEW p \in Choice, Browser!Prepare(o, p) PROVE LockSpansSend'
  BY <1>1 DEF Browser!Prepare, Browser!Candidates, Browser!Owners, Browser!Goto, Browser!tabs,
     Browser!editor, Browser!sends
<1>2. ASSUME NEW o \in Account, Browser!Compose(o) \/ Browser!Baseline(o) \/ Browser!Reserve(o)
      PROVE  LockSpansSend'
  BY <1>2 DEF Browser!Compose, Browser!Baseline, Browser!Reserve, Browser!Holds, Browser!Goto,
     Browser!editor, Browser!sends, Browser!tabs
<1>3. ASSUME NEW o \in Account, NEW b \in BOOLEAN,
             Browser!FailPrepare(o, b) \/ Browser!Refuse(o, b) \/ Browser!AuthFails(o, b)
      PROVE  LockSpansSend'
  BY <1>3 DEF Browser!FailPrepare, Browser!Refuse, Browser!AuthFails, Browser!Goto,
     Browser!Closed, Browser!MayClose, Browser!sends, Browser!editor, Browser!Holds,
     Browser!Discard, Browser!Owners, Browser!Robs
<1>4. ASSUME NEW o \in Account, Browser!Intercept(o) \/ Browser!Insert(o) \/ Browser!Click(o)
      PROVE  LockSpansSend'
  BY <1>4 DEF Browser!Intercept, Browser!Insert, Browser!Click, Browser!Holds, Browser!Goto,
     Browser!tabs, Browser!sends, Browser!editor, Browser!Sends
<1>5. ASSUME NEW o \in Account, Browser!RejectDraft(o) \/ Browser!Return(o) PROVE LockSpansSend'
  BY <1>5 DEF Browser!RejectDraft, Browser!Return, Browser!Holds, Browser!Goto,
     Browser!editor, Browser!tabs
<1>6. ASSUME NEW o \in Account, Browser!GiveUp(o) \/ Browser!Clean(o) PROVE LockSpansSend'
  BY <1>6 DEF Browser!GiveUp, Browser!Clean, Browser!Goto, Browser!tabs, Browser!editor,
     Browser!Holds, Browser!sends
<1>7. ASSUME NEW o \in Account, NEW b \in BOOLEAN,
             Browser!DropRejected(o, b) \/ Browser!Late(o, b)
      PROVE  LockSpansSend'
  BY <1>7 DEF Browser!DropRejected, Browser!Late, Browser!Holds, Browser!Goto, Browser!Closed,
     Browser!MayClose, Browser!tabs
<1>8. ASSUME NEW o \in Account, Browser!Record(o) \/ Browser!RefusePost(o) \/ Browser!Headers(o)
      PROVE  LockSpansSend'
  BY <1>8 DEF Browser!Record, Browser!RefusePost, Browser!Headers, Browser!tabs,
     Browser!sends, Browser!editor, Browser!Ends
<1>9. ASSUME NEW o \in Account, Browser!Forward(o) \/ Browser!Land(o) PROVE LockSpansSend'
  BY <1>9 DEF Browser!Forward, Browser!Land, Browser!Ends, Browser!tabs, Browser!editor,
     Browser!sends
<1>10. ASSUME NEW o \in Account, Browser!FinishRoute(o) PROVE LockSpansSend'
  BY <1>10 DEF Browser!FinishRoute, Browser!tabs, Browser!sends
<1>11. ASSUME NEW o \in Account, NEW b \in BOOLEAN, Browser!EndCallback(o, b)
      PROVE  LockSpansSend'
  BY <1>11 DEF Browser!EndCallback, Browser!Ends, Browser!tabs, Browser!editor
<1>12. ASSUME NEW o \in Account, Browser!Complete(o) \/ Browser!KeepTab(o) PROVE LockSpansSend'
  BY <1>12 DEF Browser!Complete, Browser!KeepTab, Browser!Ends, Browser!editor, Browser!sends
<1>13. ASSUME NEW o \in Account, NEW b \in BOOLEAN, Browser!ReleaseTab(o, b) PROVE LockSpansSend'
  BY <1>13 DEF Browser!ReleaseTab, Browser!Abandoned, Browser!Owners, Browser!Closed,
     Browser!Robs, Browser!sends
<1>14. ASSUME NEW p \in Choice, Browser!UserSends(p) PROVE LockSpansSend'
  BY <1>14 DEF Browser!UserSends, Browser!Sends, Browser!tabs, Browser!sends
<1>15. ASSUME NEW p \in Choice, Browser!Issue(p) PROVE LockSpansSend'
  BY <1>15 DEF Browser!Issue, Browser!tabs
<1> QED BY <1>1, <1>2, <1>3, <1>4, <1>5, <1>6, <1>7, <1>8, <1>9, <1>10, <1>11, <1>12, <1>13,
   <1>14, <1>15 DEF Browser!BrowserSendNext

\* No step begins a second send while one is uncertain.
LEMMA SendingAloneStep ==
    ASSUME BrowserInv, Browser!BrowserSendNext
    PROVE  SendingAlone'
<1> USE ConstantAssumption, TransportAssumption DEF BrowserInv, BrowserType, LockSpansSend,
        Preparing, Writing, Inserted, SendStage, RowState, CallbackState, SendingAlone
<1>1. ASSUME NEW o \in Account, NEW p \in Choice, Browser!Prepare(o, p) PROVE SendingAlone'
  BY <1>1 DEF Browser!Prepare, Browser!Candidates, Browser!Owners, Browser!Goto, Browser!tabs,
     Browser!editor, Browser!sends
<1>2. ASSUME NEW o \in Account, Browser!Compose(o) \/ Browser!Baseline(o) \/ Browser!Reserve(o)
      PROVE  SendingAlone'
  BY <1>2 DEF Browser!Compose, Browser!Baseline, Browser!Reserve, Browser!Holds, Browser!Goto,
     Browser!editor, Browser!sends, Browser!tabs
<1>3. ASSUME NEW o \in Account, NEW b \in BOOLEAN,
             Browser!FailPrepare(o, b) \/ Browser!Refuse(o, b) \/ Browser!AuthFails(o, b)
      PROVE  SendingAlone'
  BY <1>3 DEF Browser!FailPrepare, Browser!Refuse, Browser!AuthFails, Browser!Goto,
     Browser!Closed, Browser!MayClose, Browser!sends, Browser!editor, Browser!Holds,
     Browser!Discard, Browser!Owners, Browser!Robs
<1>4. ASSUME NEW o \in Account, Browser!Intercept(o) \/ Browser!Insert(o) \/ Browser!Click(o)
      PROVE  SendingAlone'
  BY <1>4 DEF Browser!Intercept, Browser!Insert, Browser!Click, Browser!Holds, Browser!Goto,
     Browser!tabs, Browser!sends, Browser!editor, Browser!Sends
<1>5. ASSUME NEW o \in Account, Browser!RejectDraft(o) \/ Browser!Return(o) PROVE SendingAlone'
  BY <1>5 DEF Browser!RejectDraft, Browser!Return, Browser!Holds, Browser!Goto,
     Browser!editor, Browser!tabs
<1>6. ASSUME NEW o \in Account, Browser!GiveUp(o) \/ Browser!Clean(o) PROVE SendingAlone'
  BY <1>6 DEF Browser!GiveUp, Browser!Clean, Browser!Goto, Browser!tabs, Browser!editor,
     Browser!Holds, Browser!sends
<1>7. ASSUME NEW o \in Account, NEW b \in BOOLEAN,
             Browser!DropRejected(o, b) \/ Browser!Late(o, b)
      PROVE  SendingAlone'
  BY <1>7 DEF Browser!DropRejected, Browser!Late, Browser!Holds, Browser!Goto, Browser!Closed,
     Browser!MayClose, Browser!tabs
<1>8. ASSUME NEW o \in Account, Browser!Record(o) \/ Browser!RefusePost(o) \/ Browser!Headers(o)
      PROVE  SendingAlone'
  BY <1>8 DEF Browser!Record, Browser!RefusePost, Browser!Headers, Browser!tabs,
     Browser!sends, Browser!editor, Browser!Ends
<1>9. ASSUME NEW o \in Account, Browser!Forward(o) \/ Browser!Land(o) PROVE SendingAlone'
  BY <1>9 DEF Browser!Forward, Browser!Land, Browser!Ends, Browser!tabs, Browser!editor,
     Browser!sends
<1>10. ASSUME NEW o \in Account, Browser!FinishRoute(o) PROVE SendingAlone'
  BY <1>10 DEF Browser!FinishRoute, Browser!tabs, Browser!sends
<1>11. ASSUME NEW o \in Account, NEW b \in BOOLEAN, Browser!EndCallback(o, b) PROVE SendingAlone'
  BY <1>11 DEF Browser!EndCallback, Browser!Ends, Browser!tabs, Browser!editor
<1>12. ASSUME NEW o \in Account, Browser!Complete(o) PROVE SendingAlone'
  BY <1>12 DEF Browser!Complete, Browser!Ends, Browser!editor
<1>13. ASSUME NEW o \in Account, Browser!KeepTab(o) PROVE SendingAlone'
  BY <1>13 DEF Browser!KeepTab, Browser!editor, Browser!sends
<1>14. ASSUME NEW o \in Account, NEW b \in BOOLEAN, Browser!ReleaseTab(o, b) PROVE SendingAlone'
  BY <1>14 DEF Browser!ReleaseTab, Browser!Abandoned, Browser!Owners, Browser!Closed,
     Browser!Robs, Browser!sends
<1>15. ASSUME NEW p \in Choice, Browser!UserSends(p) PROVE SendingAlone'
  BY <1>15 DEF Browser!UserSends, Browser!Sends, Browser!tabs, Browser!sends
<1>16. ASSUME NEW p \in Choice, Browser!Issue(p) PROVE SendingAlone'
  BY <1>16 DEF Browser!Issue, Browser!tabs
<1> QED BY <1>1, <1>2, <1>3, <1>4, <1>5, <1>6, <1>7, <1>8, <1>9, <1>10, <1>11, <1>12, <1>13,
   <1>14, <1>15, <1>16 DEF Browser!BrowserSendNext

\* No step takes the page of a message that needs it.
LEMMA OwnsPageStep ==
    ASSUME BrowserInv, Browser!BrowserSendNext
    PROVE  OwnsPage'
<1> USE ConstantAssumption, TransportAssumption DEF BrowserInv, BrowserType, LockSpansSend,
        SendingAlone, Unclaimed, CallbackOrder, Browser!Busy, Preparing, Writing, Inserted,
        SendStage, RowState, CallbackState, OwnsPage
<1>1. ASSUME NEW o \in Account, NEW p \in Choice, Browser!Prepare(o, p) PROVE OwnsPage'
  BY <1>1 DEF Browser!Prepare, Browser!Candidates, Browser!Owners, Browser!Goto, Browser!tabs,
     Browser!editor, Browser!sends
<1>2. ASSUME NEW o \in Account, Browser!Compose(o) \/ Browser!Baseline(o) \/ Browser!Reserve(o)
      PROVE  OwnsPage'
  BY <1>2 DEF Browser!Compose, Browser!Baseline, Browser!Reserve, Browser!Holds, Browser!Goto,
     Browser!editor, Browser!sends, Browser!tabs
<1>3. ASSUME NEW o \in Account, NEW b \in BOOLEAN, Browser!FailPrepare(o, b) PROVE OwnsPage'
  BY <1>3 DEF Browser!FailPrepare, Browser!Goto, Browser!Closed, Browser!MayClose,
     Browser!sends, Browser!editor
<1>4. ASSUME NEW o \in Account, NEW b \in BOOLEAN, Browser!Refuse(o, b) PROVE OwnsPage'
  BY <1>4 DEF Browser!Refuse, Browser!Holds, Browser!Goto, Browser!Discard, Browser!Owners,
     Browser!Closed, Browser!MayClose, Browser!Robs, Browser!sends, Browser!editor
<1>5. ASSUME NEW o \in Account, NEW b \in BOOLEAN, Browser!AuthFails(o, b) PROVE OwnsPage'
  BY <1>5 DEF Browser!AuthFails, Browser!Holds, Browser!Goto, Browser!Discard, Browser!Owners,
     Browser!Closed, Browser!MayClose, Browser!Robs, Browser!sends, Browser!editor
<1>6. ASSUME NEW o \in Account, Browser!Intercept(o) \/ Browser!Insert(o) \/ Browser!Click(o)
      PROVE  OwnsPage'
  BY <1>6 DEF Browser!Intercept, Browser!Insert, Browser!Click, Browser!Holds, Browser!Goto,
     Browser!tabs, Browser!sends, Browser!editor, Browser!Sends
<1>7. ASSUME NEW o \in Account, Browser!RejectDraft(o) \/ Browser!Return(o) PROVE OwnsPage'
  BY <1>7 DEF Browser!RejectDraft, Browser!Return, Browser!Holds, Browser!Goto,
     Browser!editor, Browser!tabs
<1>8. ASSUME NEW o \in Account, Browser!GiveUp(o) \/ Browser!Clean(o) PROVE OwnsPage'
  BY <1>8 DEF Browser!GiveUp, Browser!Clean, Browser!Goto, Browser!tabs, Browser!editor,
     Browser!Holds, Browser!sends
<1>9. ASSUME NEW o \in Account, NEW b \in BOOLEAN,
             Browser!DropRejected(o, b) \/ Browser!Late(o, b)
      PROVE  OwnsPage'
  BY <1>9 DEF Browser!DropRejected, Browser!Late, Browser!Holds, Browser!Goto, Browser!Closed,
     Browser!MayClose, Browser!tabs
<1>10. ASSUME NEW o \in Account, Browser!Record(o) \/ Browser!RefusePost(o) \/ Browser!Headers(o)
      PROVE  OwnsPage'
  BY <1>10 DEF Browser!Record, Browser!RefusePost, Browser!Headers, Browser!tabs,
     Browser!sends, Browser!editor, Browser!Ends
<1>11. ASSUME NEW o \in Account, Browser!Forward(o) \/ Browser!Land(o) PROVE OwnsPage'
  BY <1>11 DEF Browser!Forward, Browser!Land, Browser!Ends, Browser!tabs, Browser!editor,
     Browser!sends
<1>12. ASSUME NEW o \in Account, Browser!FinishRoute(o) PROVE OwnsPage'
  BY <1>12 DEF Browser!FinishRoute, Browser!tabs, Browser!sends
<1>13. ASSUME NEW o \in Account, NEW b \in BOOLEAN, Browser!EndCallback(o, b) PROVE OwnsPage'
  BY <1>13 DEF Browser!EndCallback, Browser!Ends, Browser!tabs, Browser!editor
<1>14. ASSUME NEW o \in Account, Browser!Complete(o) \/ Browser!KeepTab(o) PROVE OwnsPage'
  BY <1>14 DEF Browser!Complete, Browser!KeepTab, Browser!Ends, Browser!editor, Browser!sends
<1>15. ASSUME NEW o \in Account, NEW b \in BOOLEAN, Browser!ReleaseTab(o, b) PROVE OwnsPage'
  BY <1>15 DEF Browser!ReleaseTab, Browser!Abandoned, Browser!Owners, Browser!Closed,
     Browser!Robs, Browser!sends
<1>16. ASSUME NEW p \in Choice, Browser!UserSends(p) PROVE OwnsPage'
  BY <1>16 DEF Browser!UserSends, Browser!Sends, Browser!tabs, Browser!sends
<1>17. ASSUME NEW p \in Choice, Browser!Issue(p) PROVE OwnsPage'
  BY <1>17 DEF Browser!Issue, Browser!tabs
<1> QED BY <1>1, <1>2, <1>3, <1>4, <1>5, <1>6, <1>7, <1>8, <1>9, <1>10, <1>11, <1>12, <1>13,
   <1>14, <1>15, <1>16, <1>17 DEF Browser!BrowserSendNext

\* No step shows a message before its draft is inserted.
LEMMA NothingInsertedStep ==
    ASSUME BrowserInv, Browser!BrowserSendNext
    PROVE  NothingInserted'
<1> USE ConstantAssumption, TransportAssumption DEF BrowserInv, BrowserType, LockSpansSend,
        Unclaimed, LooseBlocked, CallbackOrder, Preparing, Writing, Inserted, SendStage,
        RowState, CallbackState, NothingInserted
<1>1. ASSUME NEW o \in Account, NEW p \in Choice, Browser!Prepare(o, p) PROVE NothingInserted'
  BY <1>1 DEF Browser!Prepare, Browser!Candidates, Browser!Owners, Browser!Goto, Browser!tabs,
     Browser!editor, Browser!sends
<1>2. ASSUME NEW o \in Account, Browser!Compose(o) \/ Browser!Baseline(o) \/ Browser!Reserve(o)
      PROVE  NothingInserted'
  BY <1>2 DEF Browser!Compose, Browser!Baseline, Browser!Reserve, Browser!Holds, Browser!Goto,
     Browser!editor, Browser!sends, Browser!tabs
<1>3. ASSUME NEW o \in Account, NEW b \in BOOLEAN,
             Browser!FailPrepare(o, b) \/ Browser!Refuse(o, b) \/ Browser!AuthFails(o, b)
      PROVE  NothingInserted'
  BY <1>3 DEF Browser!FailPrepare, Browser!Refuse, Browser!AuthFails, Browser!Goto,
     Browser!Closed, Browser!MayClose, Browser!sends, Browser!editor, Browser!Holds,
     Browser!Discard, Browser!Owners, Browser!Robs
<1>4. ASSUME NEW o \in Account, Browser!Intercept(o) \/ Browser!Insert(o) \/ Browser!Click(o)
      PROVE  NothingInserted'
  <2>1. CASE Browser!Intercept(o)
    BY <2>1, SMTT(30) DEF Browser!Intercept, Browser!Holds, Browser!Goto, Browser!tabs,
       Browser!sends, Browser!editor
  <2>2. CASE Browser!Insert(o)
    BY <2>2, SMTT(30) DEF Browser!Insert, Browser!Holds, Browser!Goto, Browser!tabs,
       Browser!sends
  <2>3. CASE Browser!Click(o)
    BY <2>3, SMTT(30) DEF Browser!Click, Browser!Holds, Browser!Goto, Browser!tabs,
       Browser!sends, Browser!Sends
  <2> QED BY <1>4, <2>1, <2>2, <2>3, SMTT(30)
<1>5. ASSUME NEW o \in Account, Browser!RejectDraft(o) \/ Browser!Return(o)
      PROVE  NothingInserted'
  <2>1. CASE Browser!RejectDraft(o)
    BY <2>1 DEF Browser!RejectDraft, Browser!Holds, Browser!Goto, Browser!editor, Browser!tabs
  <2>2. CASE Browser!Return(o)
    BY <2>2 DEF Browser!Return, Browser!Holds, Browser!Goto, Browser!editor, Browser!tabs
  <2> QED BY <1>5, <2>1, <2>2
<1>6. ASSUME NEW o \in Account, Browser!GiveUp(o) \/ Browser!Clean(o) PROVE NothingInserted'
  BY <1>6 DEF Browser!GiveUp, Browser!Clean, Browser!Goto, Browser!tabs, Browser!editor,
     Browser!Holds, Browser!sends
<1>7. ASSUME NEW o \in Account, NEW b \in BOOLEAN, Browser!DropRejected(o, b)
      PROVE  NothingInserted'
  BY <1>7 DEF Browser!DropRejected, Browser!Holds, Browser!Goto, Browser!Closed,
     Browser!MayClose, Browser!tabs
<1>8. ASSUME NEW o \in Account, NEW b \in BOOLEAN, Browser!Late(o, b) PROVE NothingInserted'
  BY <1>8 DEF Browser!Late, Browser!Holds, Browser!Goto, Browser!Closed, Browser!MayClose
<1>9. ASSUME NEW o \in Account, Browser!Record(o) \/ Browser!RefusePost(o) \/ Browser!Headers(o)
      PROVE  NothingInserted'
  BY <1>9 DEF Browser!Record, Browser!RefusePost, Browser!Headers, Browser!tabs,
     Browser!sends, Browser!editor, Browser!Ends
<1>10. ASSUME NEW o \in Account, Browser!Forward(o) \/ Browser!Land(o) PROVE NothingInserted'
  BY <1>10 DEF Browser!Forward, Browser!Land, Browser!Ends, Browser!tabs, Browser!editor,
     Browser!sends
<1>11. ASSUME NEW o \in Account, Browser!FinishRoute(o) PROVE NothingInserted'
  BY <1>11 DEF Browser!FinishRoute, Browser!tabs, Browser!sends
<1>12. ASSUME NEW o \in Account, NEW b \in BOOLEAN, Browser!EndCallback(o, b)
      PROVE  NothingInserted'
  BY <1>12 DEF Browser!EndCallback, Browser!Ends, Browser!tabs, Browser!editor
<1>13. ASSUME NEW o \in Account, Browser!Complete(o) \/ Browser!KeepTab(o) PROVE NothingInserted'
  BY <1>13 DEF Browser!Complete, Browser!KeepTab, Browser!Ends, Browser!editor, Browser!sends
<1>14. ASSUME NEW o \in Account, NEW b \in BOOLEAN, Browser!ReleaseTab(o, b)
      PROVE  NothingInserted'
  BY <1>14 DEF Browser!ReleaseTab, Browser!Abandoned, Browser!Owners, Browser!Closed,
     Browser!Robs, Browser!sends
<1>15. ASSUME NEW p \in Choice, Browser!UserSends(p) PROVE NothingInserted'
  BY <1>15 DEF Browser!UserSends, Browser!Sends, Browser!tabs, Browser!sends
<1>16. ASSUME NEW p \in Choice, Browser!Issue(p) PROVE NothingInserted'
  BY <1>16 DEF Browser!Issue, Browser!tabs
<1> QED BY <1>1, <1>2, <1>3, <1>4, <1>5, <1>6, <1>7, <1>8, <1>9, <1>10, <1>11, <1>12, <1>13,
   <1>14, <1>15, <1>16 DEF Browser!BrowserSendNext

\* No step removes the route of a message under its reservation.
LEMMA RoutedStep ==
    ASSUME BrowserInv, Browser!BrowserSendNext
    PROVE  Routed'
<1> USE ConstantAssumption, TransportAssumption DEF BrowserInv, BrowserType, LockSpansSend,
        SendingAlone, NothingInserted, Unclaimed, RejectedBlocked, OwnsPage, Blocked,
        Browser!Busy, Preparing, Writing, Inserted, SendStage, RowState, CallbackState, Routed
<1>1. ASSUME NEW o \in Account, NEW p \in Choice, Browser!Prepare(o, p) PROVE Routed'
  BY <1>1 DEF Browser!Prepare, Browser!Candidates, Browser!Owners, Browser!Goto, Browser!tabs,
     Browser!editor, Browser!sends
<1>2. ASSUME NEW o \in Account, Browser!Compose(o) \/ Browser!Baseline(o) \/ Browser!Reserve(o)
      PROVE  Routed'
  BY <1>2 DEF Browser!Compose, Browser!Baseline, Browser!Reserve, Browser!Holds, Browser!Goto,
     Browser!editor, Browser!sends, Browser!tabs
<1>3. ASSUME NEW o \in Account, NEW b \in BOOLEAN,
             Browser!FailPrepare(o, b) \/ Browser!Refuse(o, b) \/ Browser!AuthFails(o, b)
      PROVE  Routed'
  BY <1>3 DEF Browser!FailPrepare, Browser!Refuse, Browser!AuthFails, Browser!Goto,
     Browser!Closed, Browser!MayClose, Browser!sends, Browser!editor, Browser!Holds,
     Browser!Discard, Browser!Owners, Browser!Robs
<1>4. ASSUME NEW o \in Account, Browser!Intercept(o) \/ Browser!Insert(o) \/ Browser!Click(o)
      PROVE  Routed'
  BY <1>4 DEF Browser!Intercept, Browser!Insert, Browser!Click, Browser!Holds, Browser!Goto,
     Browser!tabs, Browser!sends, Browser!editor, Browser!Sends
<1>5. ASSUME NEW o \in Account, Browser!RejectDraft(o) \/ Browser!Return(o) PROVE Routed'
  BY <1>5 DEF Browser!RejectDraft, Browser!Return, Browser!Holds, Browser!Goto,
     Browser!editor, Browser!tabs
<1>6. ASSUME NEW o \in Account, Browser!GiveUp(o) \/ Browser!Clean(o) PROVE Routed'
  BY <1>6 DEF Browser!GiveUp, Browser!Clean, Browser!Goto, Browser!tabs, Browser!editor,
     Browser!Holds, Browser!sends
<1>7. ASSUME NEW o \in Account, NEW b \in BOOLEAN,
             Browser!DropRejected(o, b) \/ Browser!Late(o, b)
      PROVE  Routed'
  BY <1>7 DEF Browser!DropRejected, Browser!Late, Browser!Holds, Browser!Goto, Browser!Closed,
     Browser!MayClose, Browser!tabs
<1>8. ASSUME NEW o \in Account, Browser!Record(o) \/ Browser!RefusePost(o) \/ Browser!Headers(o)
      PROVE  Routed'
  BY <1>8 DEF Browser!Record, Browser!RefusePost, Browser!Headers, Browser!tabs,
     Browser!sends, Browser!editor, Browser!Ends
<1>9. ASSUME NEW o \in Account, Browser!Forward(o) \/ Browser!Land(o) PROVE Routed'
  BY <1>9 DEF Browser!Forward, Browser!Land, Browser!Ends, Browser!tabs, Browser!editor,
     Browser!sends
<1>10. ASSUME NEW o \in Account, Browser!FinishRoute(o) PROVE Routed'
  <2>1. tab[o] \in Choice /\ o \in claimed /\ o \notin block
    BY <1>10 DEF Browser!FinishRoute
  <2>2. ASSUME NEW f \in Account, at[f] = "routed"
        PROVE  routes[tab[f]] # <<>> /\ Head(routes[tab[f]]) = f /\ f # o /\ tab[f] \in Choice
    BY <2>1, <2>2
  <2>3. \A q \in Choice : routes[q] # <<>> /\ Head(routes[q]) # o =>
            routes'[q] # <<>> /\ Head(routes'[q]) = Head(routes[q])
    BY <1>10, <2>1, UninstallKept DEF Browser!FinishRoute
  <2> QED BY <1>10, <2>2, <2>3 DEF Browser!FinishRoute, Browser!tabs, Browser!sends
<1>11. ASSUME NEW o \in Account, NEW b \in BOOLEAN, Browser!EndCallback(o, b) PROVE Routed'
  BY <1>11 DEF Browser!EndCallback, Browser!Ends, Browser!tabs, Browser!editor
<1>12. ASSUME NEW o \in Account, Browser!Complete(o) \/ Browser!KeepTab(o) PROVE Routed'
  BY <1>12 DEF Browser!Complete, Browser!KeepTab, Browser!Ends, Browser!editor, Browser!sends
<1>13. ASSUME NEW o \in Account, NEW b \in BOOLEAN, Browser!ReleaseTab(o, b) PROVE Routed'
  BY <1>13 DEF Browser!ReleaseTab, Browser!Abandoned, Browser!Owners, Browser!Closed,
     Browser!Robs, Browser!sends
<1>14. ASSUME NEW p \in Choice, Browser!UserSends(p) PROVE Routed'
  BY <1>14 DEF Browser!UserSends, Browser!Sends, Browser!tabs, Browser!sends
<1>15. ASSUME NEW p \in Choice, Browser!Issue(p) PROVE Routed'
  BY <1>15 DEF Browser!Issue, Browser!tabs
<1> QED BY <1>1, <1>2, <1>3, <1>4, <1>5, <1>6, <1>7, <1>8, <1>9, <1>10, <1>11, <1>12, <1>13,
   <1>14, <1>15 DEF Browser!BrowserSendNext

\* No step leaves a draft or a POST that is still to come without its route.
LEMMA LooseBlockedStep ==
    ASSUME BrowserInv, Browser!BrowserSendNext
    PROVE  LooseBlocked'
<1> USE ConstantAssumption, TransportAssumption DEF BrowserInv, BrowserType, LockSpansSend,
        SendingAlone, NothingInserted, Routed, Unclaimed, RejectedBlocked, CallbackOrder,
        OwnsPage, Browser!Busy, Blocked, Preparing, Writing, Inserted, SendStage, RowState,
        CallbackState, LooseBlocked
<1>1. ASSUME NEW o \in Account, NEW p \in Choice, Browser!Prepare(o, p) PROVE LooseBlocked'
  BY <1>1 DEF Browser!Prepare, Browser!Candidates, Browser!Owners, Browser!Goto, Browser!tabs,
     Browser!editor, Browser!sends
<1>2. ASSUME NEW o \in Account, Browser!Compose(o) \/ Browser!Baseline(o) \/ Browser!Reserve(o)
      PROVE  LooseBlocked'
  BY <1>2 DEF Browser!Compose, Browser!Baseline, Browser!Reserve, Browser!Holds, Browser!Goto,
     Browser!editor, Browser!sends, Browser!tabs
<1>3. ASSUME NEW o \in Account, NEW b \in BOOLEAN,
             Browser!FailPrepare(o, b) \/ Browser!Refuse(o, b) \/ Browser!AuthFails(o, b)
      PROVE  LooseBlocked'
  BY <1>3 DEF Browser!FailPrepare, Browser!Refuse, Browser!AuthFails, Browser!Goto,
     Browser!Closed, Browser!MayClose, Browser!sends, Browser!editor, Browser!Holds,
     Browser!Discard, Browser!Owners, Browser!Robs
<1>4. ASSUME NEW o \in Account, Browser!Intercept(o) \/ Browser!Insert(o) \/ Browser!Click(o)
      PROVE  LooseBlocked'
  BY <1>4 DEF Browser!Intercept, Browser!Insert, Browser!Click, Browser!Holds, Browser!Goto,
     Browser!tabs, Browser!sends, Browser!editor, Browser!Sends
<1>5. ASSUME NEW o \in Account, Browser!RejectDraft(o) \/ Browser!Return(o) PROVE LooseBlocked'
  BY <1>5 DEF Browser!RejectDraft, Browser!Return, Browser!Holds, Browser!Goto,
     Browser!editor, Browser!tabs
<1>6. ASSUME NEW o \in Account, Browser!GiveUp(o) PROVE LooseBlocked'
  BY <1>6 DEF Browser!GiveUp, Browser!Goto, Browser!tabs, Browser!editor
<1>7. ASSUME NEW o \in Account, Browser!Clean(o) PROVE LooseBlocked'
  <2>1. tab[o] \in Choice
    BY <1>7 DEF Browser!Clean, Browser!Holds
  <2>2. ASSUME NEW q \in Choice, NEW f \in Account, draft[q] = f \/ fetch[q] = f
        PROVE  f = o /\ o \in block
    <3>1. at[o] = "cleaning" /\ row[f] = "sending"
          /\ (f \notin block => at[f] \in {"inserted", "waiting"})
      BY <1>7, <2>2 DEF Browser!Clean, Browser!Holds
    <3>2. f = o
      BY <3>1
    <3> QED BY <3>1, <3>2
  <2> QED BY <1>7, <2>1, <2>2, UninstallKept DEF Browser!Clean, Browser!Holds, Browser!Goto,
     Browser!tabs, Browser!sends
<1>8. ASSUME NEW o \in Account, NEW b \in BOOLEAN,
             Browser!DropRejected(o, b) \/ Browser!Late(o, b)
      PROVE  LooseBlocked'
  BY <1>8 DEF Browser!DropRejected, Browser!Late, Browser!Holds, Browser!Goto, Browser!Closed,
     Browser!MayClose, Browser!tabs
<1>9. ASSUME NEW o \in Account, Browser!Record(o) \/ Browser!RefusePost(o) \/ Browser!Headers(o)
      PROVE  LooseBlocked'
  BY <1>9 DEF Browser!Record, Browser!RefusePost, Browser!Headers, Browser!tabs,
     Browser!sends, Browser!editor, Browser!Ends
<1>10. ASSUME NEW o \in Account, Browser!Forward(o) \/ Browser!Land(o) PROVE LooseBlocked'
  BY <1>10 DEF Browser!Forward, Browser!Land, Browser!Ends, Browser!tabs, Browser!editor,
     Browser!sends
<1>11. ASSUME NEW o \in Account, Browser!FinishRoute(o) PROVE LooseBlocked'
  <2>1. tab[o] \in Choice /\ o \in claimed /\ o \notin block
    BY <1>11 DEF Browser!FinishRoute
  <2>2. ASSUME NEW q \in Choice, NEW f \in Account, draft[q] = f \/ fetch[q] = f
        PROVE  routes[q] # <<>> /\ Head(routes[q]) # o
    BY <2>1, <2>2
  <2>3. \A q \in Choice : routes[q] # <<>> /\ Head(routes[q]) # o =>
            routes'[q] # <<>> /\ Head(routes'[q]) = Head(routes[q])
    BY <1>11, <2>1, UninstallKept DEF Browser!FinishRoute
  <2> QED BY <1>11, <2>2, <2>3 DEF Browser!FinishRoute, Browser!tabs, Browser!sends
<1>12. ASSUME NEW o \in Account, NEW b \in BOOLEAN, Browser!EndCallback(o, b) PROVE LooseBlocked'
  BY <1>12 DEF Browser!EndCallback, Browser!Ends, Browser!tabs, Browser!editor
<1>13. ASSUME NEW o \in Account, Browser!Complete(o) \/ Browser!KeepTab(o) PROVE LooseBlocked'
  BY <1>13 DEF Browser!Complete, Browser!KeepTab, Browser!Ends, Browser!editor, Browser!sends
<1>14. ASSUME NEW o \in Account, NEW b \in BOOLEAN, Browser!ReleaseTab(o, b) PROVE LooseBlocked'
  BY <1>14 DEF Browser!ReleaseTab, Browser!Abandoned, Browser!Owners, Browser!Closed,
     Browser!Robs, Browser!sends
<1>15. ASSUME NEW p \in Choice, Browser!UserSends(p) PROVE LooseBlocked'
  BY <1>15 DEF Browser!UserSends, Browser!Sends, Browser!tabs, Browser!sends
<1>16. ASSUME NEW p \in Choice, Browser!Issue(p) PROVE LooseBlocked'
  BY <1>16 DEF Browser!Issue, Browser!tabs
<1> QED BY <1>1, <1>2, <1>3, <1>4, <1>5, <1>6, <1>7, <1>8, <1>9, <1>10, <1>11, <1>12, <1>13,
   <1>14, <1>15, <1>16 DEF Browser!BrowserSendNext

\* No step ends a send whose POST could still be claimed.
LEMMA UnclaimedStep ==
    ASSUME BrowserInv, Browser!BrowserSendNext
    PROVE  Unclaimed'
<1> USE ConstantAssumption, TransportAssumption DEF BrowserInv, BrowserType, LockSpansSend,
        CallbackOrder, LooseBlocked, NothingInserted, RejectedBlocked, Preparing, Writing,
        Inserted, SendStage, RowState, CallbackState, Unclaimed
<1>1. ASSUME NEW o \in Account, NEW p \in Choice, Browser!Prepare(o, p) PROVE Unclaimed'
  BY <1>1 DEF Browser!Prepare, Browser!Candidates, Browser!Owners, Browser!Goto, Browser!tabs,
     Browser!editor, Browser!sends
<1>2. ASSUME NEW o \in Account, Browser!Compose(o) \/ Browser!Baseline(o) \/ Browser!Reserve(o)
      PROVE  Unclaimed'
  BY <1>2 DEF Browser!Compose, Browser!Baseline, Browser!Reserve, Browser!Holds, Browser!Goto,
     Browser!editor, Browser!sends, Browser!tabs
<1>3. ASSUME NEW o \in Account, NEW b \in BOOLEAN,
             Browser!FailPrepare(o, b) \/ Browser!Refuse(o, b) \/ Browser!AuthFails(o, b)
      PROVE  Unclaimed'
  BY <1>3 DEF Browser!FailPrepare, Browser!Refuse, Browser!AuthFails, Browser!Goto,
     Browser!Closed, Browser!MayClose, Browser!sends, Browser!editor, Browser!Holds,
     Browser!Discard, Browser!Owners, Browser!Robs
<1>4. ASSUME NEW o \in Account, Browser!Intercept(o) \/ Browser!Insert(o) \/ Browser!Click(o)
      PROVE  Unclaimed'
  BY <1>4 DEF Browser!Intercept, Browser!Insert, Browser!Click, Browser!Holds, Browser!Goto,
     Browser!tabs, Browser!sends, Browser!editor, Browser!Sends
<1>5. ASSUME NEW o \in Account, Browser!RejectDraft(o) \/ Browser!Return(o) PROVE Unclaimed'
  BY <1>5 DEF Browser!RejectDraft, Browser!Return, Browser!Holds, Browser!Goto,
     Browser!editor, Browser!tabs
<1>6. ASSUME NEW o \in Account, Browser!GiveUp(o) \/ Browser!Clean(o) PROVE Unclaimed'
  BY <1>6 DEF Browser!GiveUp, Browser!Clean, Browser!Goto, Browser!tabs, Browser!editor,
     Browser!Holds, Browser!sends
<1>7. ASSUME NEW o \in Account, NEW b \in BOOLEAN,
             Browser!DropRejected(o, b) \/ Browser!Late(o, b)
      PROVE  Unclaimed'
  BY <1>7 DEF Browser!DropRejected, Browser!Late, Browser!Holds, Browser!Goto, Browser!Closed,
     Browser!MayClose, Browser!tabs
<1>8. ASSUME NEW o \in Account, Browser!Record(o) \/ Browser!RefusePost(o) \/ Browser!Headers(o)
      PROVE  Unclaimed'
  BY <1>8 DEF Browser!Record, Browser!RefusePost, Browser!Headers, Browser!tabs,
     Browser!sends, Browser!editor, Browser!Ends
<1>9. ASSUME NEW o \in Account, Browser!Forward(o) \/ Browser!Land(o) PROVE Unclaimed'
  BY <1>9 DEF Browser!Forward, Browser!Land, Browser!Ends, Browser!tabs, Browser!editor,
     Browser!sends
<1>10. ASSUME NEW o \in Account, Browser!FinishRoute(o) PROVE Unclaimed'
  BY <1>10 DEF Browser!FinishRoute, Browser!tabs, Browser!sends
<1>11. ASSUME NEW o \in Account, NEW b \in BOOLEAN, Browser!EndCallback(o, b) PROVE Unclaimed'
  BY <1>11 DEF Browser!EndCallback, Browser!Ends, Browser!tabs, Browser!editor
<1>12. ASSUME NEW o \in Account, Browser!Complete(o) \/ Browser!KeepTab(o) PROVE Unclaimed'
  BY <1>12 DEF Browser!Complete, Browser!KeepTab, Browser!Ends, Browser!editor, Browser!sends
<1>13. ASSUME NEW o \in Account, NEW b \in BOOLEAN, Browser!ReleaseTab(o, b) PROVE Unclaimed'
  BY <1>13 DEF Browser!ReleaseTab, Browser!Abandoned, Browser!Owners, Browser!Closed,
     Browser!Robs, Browser!sends
<1>14. ASSUME NEW p \in Choice, Browser!UserSends(p) PROVE Unclaimed'
  BY <1>14 DEF Browser!UserSends, Browser!Sends, Browser!tabs, Browser!sends
<1>15. ASSUME NEW p \in Choice, Browser!Issue(p) PROVE Unclaimed'
  BY <1>15 DEF Browser!Issue, Browser!tabs
<1> QED BY <1>1, <1>2, <1>3, <1>4, <1>5, <1>6, <1>7, <1>8, <1>9, <1>10, <1>11, <1>12, <1>13,
   <1>14, <1>15 DEF Browser!BrowserSendNext

\* No step claims what was blocked.
LEMMA RejectedBlockedStep ==
    ASSUME BrowserInv, Browser!BrowserSendNext
    PROVE  RejectedBlocked'
<1> USE ConstantAssumption, TransportAssumption DEF BrowserInv, BrowserType, LockSpansSend,
        Unclaimed, LooseBlocked, NothingInserted, Preparing, Writing, Inserted, SendStage,
        RowState, CallbackState, RejectedBlocked
<1>1. ASSUME NEW o \in Account, NEW p \in Choice, Browser!Prepare(o, p) PROVE RejectedBlocked'
  BY <1>1 DEF Browser!Prepare, Browser!Candidates, Browser!Owners, Browser!Goto, Browser!tabs,
     Browser!editor, Browser!sends
<1>2. ASSUME NEW o \in Account, Browser!Compose(o) \/ Browser!Baseline(o) \/ Browser!Reserve(o)
      PROVE  RejectedBlocked'
  BY <1>2 DEF Browser!Compose, Browser!Baseline, Browser!Reserve, Browser!Holds, Browser!Goto,
     Browser!editor, Browser!sends, Browser!tabs
<1>3. ASSUME NEW o \in Account, NEW b \in BOOLEAN,
             Browser!FailPrepare(o, b) \/ Browser!Refuse(o, b) \/ Browser!AuthFails(o, b)
      PROVE  RejectedBlocked'
  BY <1>3 DEF Browser!FailPrepare, Browser!Refuse, Browser!AuthFails, Browser!Goto,
     Browser!Closed, Browser!MayClose, Browser!sends, Browser!editor, Browser!Holds,
     Browser!Discard, Browser!Owners, Browser!Robs
<1>4. ASSUME NEW o \in Account, Browser!Intercept(o) \/ Browser!Insert(o) \/ Browser!Click(o)
      PROVE  RejectedBlocked'
  BY <1>4 DEF Browser!Intercept, Browser!Insert, Browser!Click, Browser!Holds, Browser!Goto,
     Browser!tabs, Browser!sends, Browser!editor, Browser!Sends
<1>5. ASSUME NEW o \in Account, Browser!RejectDraft(o) \/ Browser!Return(o)
      PROVE  RejectedBlocked'
  BY <1>5 DEF Browser!RejectDraft, Browser!Return, Browser!Holds, Browser!Goto,
     Browser!editor, Browser!tabs
<1>6. ASSUME NEW o \in Account, Browser!GiveUp(o) \/ Browser!Clean(o) PROVE RejectedBlocked'
  BY <1>6 DEF Browser!GiveUp, Browser!Clean, Browser!Goto, Browser!tabs, Browser!editor,
     Browser!Holds, Browser!sends
<1>7. ASSUME NEW o \in Account, NEW b \in BOOLEAN,
             Browser!DropRejected(o, b) \/ Browser!Late(o, b)
      PROVE  RejectedBlocked'
  BY <1>7 DEF Browser!DropRejected, Browser!Late, Browser!Holds, Browser!Goto, Browser!Closed,
     Browser!MayClose, Browser!tabs
<1>8. ASSUME NEW o \in Account, Browser!Record(o) \/ Browser!RefusePost(o) \/ Browser!Headers(o)
      PROVE  RejectedBlocked'
  BY <1>8 DEF Browser!Record, Browser!RefusePost, Browser!Headers, Browser!tabs,
     Browser!sends, Browser!editor, Browser!Ends
<1>9. ASSUME NEW o \in Account, Browser!Forward(o) \/ Browser!Land(o) PROVE RejectedBlocked'
  BY <1>9 DEF Browser!Forward, Browser!Land, Browser!Ends, Browser!tabs, Browser!editor,
     Browser!sends
<1>10. ASSUME NEW o \in Account, Browser!FinishRoute(o) PROVE RejectedBlocked'
  BY <1>10 DEF Browser!FinishRoute, Browser!tabs, Browser!sends
<1>11. ASSUME NEW o \in Account, NEW b \in BOOLEAN, Browser!EndCallback(o, b)
      PROVE  RejectedBlocked'
  BY <1>11 DEF Browser!EndCallback, Browser!Ends, Browser!tabs, Browser!editor
<1>12. ASSUME NEW o \in Account, Browser!Complete(o) \/ Browser!KeepTab(o) PROVE RejectedBlocked'
  BY <1>12 DEF Browser!Complete, Browser!KeepTab, Browser!Ends, Browser!editor, Browser!sends
<1>13. ASSUME NEW o \in Account, NEW b \in BOOLEAN, Browser!ReleaseTab(o, b)
      PROVE  RejectedBlocked'
  BY <1>13 DEF Browser!ReleaseTab, Browser!Abandoned, Browser!Owners, Browser!Closed,
     Browser!Robs, Browser!sends
<1>14. ASSUME NEW p \in Choice, Browser!UserSends(p) PROVE RejectedBlocked'
  BY <1>14 DEF Browser!UserSends, Browser!Sends, Browser!tabs, Browser!sends
<1>15. ASSUME NEW p \in Choice, Browser!Issue(p) PROVE RejectedBlocked'
  BY <1>15 DEF Browser!Issue, Browser!tabs
<1> QED BY <1>1, <1>2, <1>3, <1>4, <1>5, <1>6, <1>7, <1>8, <1>9, <1>10, <1>11, <1>12, <1>13,
   <1>14, <1>15 DEF Browser!BrowserSendNext

\* The callback claims, records, lets the POST leave and hears of it, in that order.
LEMMA CallbackOrderStep ==
    ASSUME BrowserInv, Browser!BrowserSendNext
    PROVE  CallbackOrder'
<1> USE ConstantAssumption, TransportAssumption DEF BrowserInv, BrowserType, LockSpansSend,
        Unclaimed, LooseBlocked, NothingInserted, RejectedBlocked, Preparing, Writing,
        Inserted, SendStage, RowState, CallbackState, CallbackOrder
<1>1. ASSUME NEW o \in Account, NEW p \in Choice, Browser!Prepare(o, p) PROVE CallbackOrder'
  BY <1>1 DEF Browser!Prepare, Browser!Candidates, Browser!Owners, Browser!Goto, Browser!tabs,
     Browser!editor, Browser!sends
<1>2. ASSUME NEW o \in Account, Browser!Compose(o) \/ Browser!Baseline(o) \/ Browser!Reserve(o)
      PROVE  CallbackOrder'
  BY <1>2 DEF Browser!Compose, Browser!Baseline, Browser!Reserve, Browser!Holds, Browser!Goto,
     Browser!editor, Browser!sends, Browser!tabs
<1>3. ASSUME NEW o \in Account, NEW b \in BOOLEAN,
             Browser!FailPrepare(o, b) \/ Browser!Refuse(o, b) \/ Browser!AuthFails(o, b)
      PROVE  CallbackOrder'
  BY <1>3 DEF Browser!FailPrepare, Browser!Refuse, Browser!AuthFails, Browser!Goto,
     Browser!Closed, Browser!MayClose, Browser!sends, Browser!editor, Browser!Holds,
     Browser!Discard, Browser!Owners, Browser!Robs
<1>4. ASSUME NEW o \in Account, Browser!Intercept(o) PROVE CallbackOrder'
  BY <1>4 DEF Browser!Intercept, Browser!Holds, Browser!Goto, Browser!tabs, Browser!sends,
     Browser!editor
<1>5. ASSUME NEW o \in Account, Browser!Insert(o) PROVE CallbackOrder'
  BY <1>5 DEF Browser!Insert, Browser!Holds, Browser!Goto, Browser!tabs, Browser!sends,
     Browser!editor
<1>6. ASSUME NEW o \in Account, Browser!Click(o) PROVE CallbackOrder'
  BY <1>6 DEF Browser!Click, Browser!Holds, Browser!Goto, Browser!Sends, Browser!tabs,
     Browser!sends
<1>7. ASSUME NEW o \in Account, Browser!RejectDraft(o) PROVE CallbackOrder'
  BY <1>7 DEF Browser!RejectDraft, Browser!Holds, Browser!Goto, Browser!editor
<1>8. ASSUME NEW o \in Account, Browser!Return(o) PROVE CallbackOrder'
  BY <1>8 DEF Browser!Return, Browser!Holds, Browser!Goto, Browser!tabs, Browser!editor
<1>9. ASSUME NEW o \in Account, Browser!GiveUp(o) PROVE CallbackOrder'
  BY <1>9 DEF Browser!GiveUp, Browser!Goto, Browser!tabs, Browser!editor
<1>10. ASSUME NEW o \in Account, Browser!Clean(o) PROVE CallbackOrder'
  BY <1>10 DEF Browser!Clean, Browser!Holds, Browser!Goto, Browser!tabs, Browser!sends
<1>11. ASSUME NEW o \in Account, NEW b \in BOOLEAN,
             Browser!DropRejected(o, b) \/ Browser!Late(o, b)
      PROVE  CallbackOrder'
  BY <1>11 DEF Browser!DropRejected, Browser!Late, Browser!Holds, Browser!Goto,
     Browser!Closed, Browser!MayClose, Browser!tabs
<1>12. ASSUME NEW o \in Account, Browser!Record(o) \/ Browser!RefusePost(o) \/ Browser!Headers(o)
      PROVE  CallbackOrder'
  BY <1>12 DEF Browser!Record, Browser!RefusePost, Browser!Headers, Browser!tabs,
     Browser!sends, Browser!editor, Browser!Ends
<1>13. ASSUME NEW o \in Account, Browser!Forward(o) \/ Browser!Land(o) PROVE CallbackOrder'
  BY <1>13 DEF Browser!Forward, Browser!Land, Browser!Ends, Browser!tabs, Browser!editor,
     Browser!sends
<1>14. ASSUME NEW o \in Account, Browser!FinishRoute(o) PROVE CallbackOrder'
  BY <1>14 DEF Browser!FinishRoute, Browser!tabs, Browser!sends
<1>15. ASSUME NEW o \in Account, NEW b \in BOOLEAN, Browser!EndCallback(o, b)
      PROVE  CallbackOrder'
  BY <1>15 DEF Browser!EndCallback, Browser!Ends, Browser!tabs, Browser!editor
<1>16. ASSUME NEW o \in Account, Browser!Complete(o) \/ Browser!KeepTab(o) PROVE CallbackOrder'
  BY <1>16 DEF Browser!Complete, Browser!KeepTab, Browser!Ends, Browser!editor, Browser!sends
<1>17. ASSUME NEW o \in Account, NEW b \in BOOLEAN, Browser!ReleaseTab(o, b) PROVE CallbackOrder'
  BY <1>17 DEF Browser!ReleaseTab, Browser!Abandoned, Browser!Owners, Browser!Closed,
     Browser!Robs, Browser!sends
<1>18. ASSUME NEW p \in Choice, Browser!UserSends(p) PROVE CallbackOrder'
  BY <1>18 DEF Browser!UserSends, Browser!Sends, Browser!tabs, Browser!sends
<1>19. ASSUME NEW p \in Choice, Browser!Issue(p) PROVE CallbackOrder'
  <2>1. ASSUME NEW f \in Account, fetch[p] = f, f \notin block
        PROVE  /\ row[f] = "sending" /\ f \notin left /\ dispatched[f] = "pending"
               /\ at[f] \in {"inserted", "waiting"}
    BY <2>1
  <2>2. UNCHANGED <<row, identified, at, dispatched, appeared, orphaned>>
    BY <1>19 DEF Browser!Issue
  <2> QED BY <1>19, <2>1, <2>2, IssueClaims
<1> QED BY <1>1, <1>2, <1>3, <1>4, <1>5, <1>6, <1>7, <1>8, <1>9, <1>10, <1>11, <1>12, <1>13,
   <1>14, <1>15, <1>16, <1>17, <1>18, <1>19 DEF Browser!BrowserSendNext

\* No step leaves a message that never left in a page that is used again.
LEMMA GhostsOwnedStep ==
    ASSUME BrowserInv, Browser!BrowserSendNext
    PROVE  GhostsOwned'
<1> USE ConstantAssumption, TransportAssumption DEF BrowserInv, BrowserType, LockSpansSend,
        OwnsPage, NothingInserted, LooseBlocked, CallbackOrder, Unclaimed, Ghosts,
        Browser!Busy, Preparing, Writing, Inserted, SendStage, RowState, CallbackState,
        GhostsOwned
<1>1. ASSUME NEW o \in Account, NEW p \in Choice, Browser!Prepare(o, p) PROVE GhostsOwned'
  BY <1>1 DEF Browser!Prepare, Browser!Candidates, Browser!Owners, Browser!Goto, Browser!tabs,
     Browser!editor, Browser!sends
<1>2. ASSUME NEW o \in Account, Browser!Compose(o) \/ Browser!Baseline(o) \/ Browser!Reserve(o)
      PROVE  GhostsOwned'
  BY <1>2 DEF Browser!Compose, Browser!Baseline, Browser!Reserve, Browser!Holds, Browser!Goto,
     Browser!editor, Browser!sends, Browser!tabs
<1>3. ASSUME NEW o \in Account, NEW b \in BOOLEAN,
             Browser!FailPrepare(o, b) \/ Browser!Refuse(o, b) \/ Browser!AuthFails(o, b)
      PROVE  GhostsOwned'
  BY <1>3 DEF Browser!FailPrepare, Browser!Refuse, Browser!AuthFails, Browser!Goto,
     Browser!Closed, Browser!MayClose, Browser!sends, Browser!editor, Browser!Holds,
     Browser!Discard, Browser!Owners, Browser!Robs
<1>4. ASSUME NEW o \in Account, Browser!Intercept(o) PROVE GhostsOwned'
  BY <1>4 DEF Browser!Intercept, Browser!Holds, Browser!Goto, Browser!tabs, Browser!sends,
     Browser!editor
<1>5. ASSUME NEW o \in Account, Browser!Insert(o) PROVE GhostsOwned'
  BY <1>5 DEF Browser!Insert, Browser!Holds, Browser!Goto, Browser!tabs, Browser!sends,
     Browser!editor
<1>6. ASSUME NEW o \in Account, Browser!Click(o) PROVE GhostsOwned'
  BY <1>6 DEF Browser!Click, Browser!Holds, Browser!Goto, Browser!Sends, Browser!tabs,
     Browser!sends
<1>7. ASSUME NEW o \in Account, Browser!RejectDraft(o) \/ Browser!Return(o) PROVE GhostsOwned'
  BY <1>7 DEF Browser!RejectDraft, Browser!Return, Browser!Holds, Browser!Goto,
     Browser!editor, Browser!tabs
<1>8. ASSUME NEW o \in Account, Browser!GiveUp(o) \/ Browser!Clean(o) PROVE GhostsOwned'
  BY <1>8 DEF Browser!GiveUp, Browser!Clean, Browser!Goto, Browser!tabs, Browser!editor,
     Browser!Holds, Browser!sends
<1>9. ASSUME NEW o \in Account, NEW b \in BOOLEAN,
             Browser!DropRejected(o, b) \/ Browser!Late(o, b)
      PROVE  GhostsOwned'
  BY <1>9 DEF Browser!DropRejected, Browser!Late, Browser!Holds, Browser!Goto, Browser!Closed,
     Browser!MayClose, Browser!tabs
<1>10. ASSUME NEW o \in Account, Browser!Record(o) \/ Browser!RefusePost(o) \/ Browser!Headers(o)
      PROVE  GhostsOwned'
  BY <1>10 DEF Browser!Record, Browser!RefusePost, Browser!Headers, Browser!tabs,
     Browser!sends, Browser!editor, Browser!Ends
<1>11. ASSUME NEW o \in Account, Browser!Forward(o) \/ Browser!Land(o) PROVE GhostsOwned'
  BY <1>11 DEF Browser!Forward, Browser!Land, Browser!Ends, Browser!tabs, Browser!editor,
     Browser!sends
<1>12. ASSUME NEW o \in Account, Browser!FinishRoute(o) PROVE GhostsOwned'
  BY <1>12 DEF Browser!FinishRoute, Browser!tabs, Browser!sends
<1>13. ASSUME NEW o \in Account, NEW b \in BOOLEAN, Browser!EndCallback(o, b) PROVE GhostsOwned'
  BY <1>13 DEF Browser!EndCallback, Browser!Ends, Browser!tabs, Browser!editor
<1>14. ASSUME NEW o \in Account, Browser!Complete(o) \/ Browser!KeepTab(o) PROVE GhostsOwned'
  BY <1>14 DEF Browser!Complete, Browser!KeepTab, Browser!Ends, Browser!editor, Browser!sends
<1>15. ASSUME NEW o \in Account, NEW b \in BOOLEAN, Browser!ReleaseTab(o, b) PROVE GhostsOwned'
  BY <1>15 DEF Browser!ReleaseTab, Browser!Abandoned, Browser!Owners, Browser!Closed,
     Browser!Robs, Browser!sends
<1>16. ASSUME NEW p \in Choice, Browser!UserSends(p) PROVE GhostsOwned'
  BY <1>16 DEF Browser!UserSends, Browser!Sends, Browser!tabs, Browser!sends
<1>17. ASSUME NEW p \in Choice, Browser!Issue(p) PROVE GhostsOwned'
  BY <1>17 DEF Browser!Issue, Browser!tabs
<1> QED BY <1>1, <1>2, <1>3, <1>4, <1>5, <1>6, <1>7, <1>8, <1>9, <1>10, <1>11, <1>12, <1>13,
   <1>14, <1>15, <1>16, <1>17 DEF Browser!BrowserSendNext

\* No step gives a send a page that shows the message of another.
LEMMA GhostsElsewhereStep ==
    ASSUME BrowserInv, Browser!BrowserSendNext
    PROVE  GhostsElsewhere'
<1> USE ConstantAssumption, TransportAssumption DEF BrowserInv, BrowserType, LockSpansSend,
        SendingAlone, OwnsPage, GhostsOwned, CallbackOrder, LooseBlocked, NothingInserted,
        Unclaimed, Ghosts, Browser!Busy, Preparing, Writing, Inserted, SendStage, RowState,
        CallbackState, GhostsElsewhere
<1>1. ASSUME NEW o \in Account, NEW p \in Choice, Browser!Prepare(o, p) PROVE GhostsElsewhere'
  BY <1>1 DEF Browser!Prepare, Browser!Candidates, Browser!Owners, Browser!Goto, Browser!tabs,
     Browser!editor, Browser!sends
<1>2. ASSUME NEW o \in Account, Browser!Compose(o) \/ Browser!Baseline(o) \/ Browser!Reserve(o)
      PROVE  GhostsElsewhere'
  BY <1>2 DEF Browser!Compose, Browser!Baseline, Browser!Reserve, Browser!Holds, Browser!Goto,
     Browser!editor, Browser!sends, Browser!tabs
<1>3. ASSUME NEW o \in Account, NEW b \in BOOLEAN,
             Browser!FailPrepare(o, b) \/ Browser!Refuse(o, b) \/ Browser!AuthFails(o, b)
      PROVE  GhostsElsewhere'
  BY <1>3 DEF Browser!FailPrepare, Browser!Refuse, Browser!AuthFails, Browser!Goto,
     Browser!Closed, Browser!MayClose, Browser!sends, Browser!editor, Browser!Holds,
     Browser!Discard, Browser!Owners, Browser!Robs
<1>4. ASSUME NEW o \in Account, Browser!Intercept(o) \/ Browser!Insert(o) \/ Browser!Click(o)
      PROVE  GhostsElsewhere'
  BY <1>4 DEF Browser!Intercept, Browser!Insert, Browser!Click, Browser!Holds, Browser!Goto,
     Browser!tabs, Browser!sends, Browser!editor, Browser!Sends
<1>5. ASSUME NEW o \in Account, Browser!RejectDraft(o) \/ Browser!Return(o)
      PROVE  GhostsElsewhere'
  BY <1>5 DEF Browser!RejectDraft, Browser!Return, Browser!Holds, Browser!Goto,
     Browser!editor, Browser!tabs
<1>6. ASSUME NEW o \in Account, Browser!GiveUp(o) \/ Browser!Clean(o) PROVE GhostsElsewhere'
  BY <1>6 DEF Browser!GiveUp, Browser!Clean, Browser!Goto, Browser!tabs, Browser!editor,
     Browser!Holds, Browser!sends
<1>7. ASSUME NEW o \in Account, NEW b \in BOOLEAN,
             Browser!DropRejected(o, b) \/ Browser!Late(o, b)
      PROVE  GhostsElsewhere'
  BY <1>7 DEF Browser!DropRejected, Browser!Late, Browser!Holds, Browser!Goto, Browser!Closed,
     Browser!MayClose, Browser!tabs
<1>8. ASSUME NEW o \in Account, Browser!Record(o) \/ Browser!RefusePost(o) \/ Browser!Headers(o)
      PROVE  GhostsElsewhere'
  BY <1>8 DEF Browser!Record, Browser!RefusePost, Browser!Headers, Browser!tabs,
     Browser!sends, Browser!editor, Browser!Ends
<1>9. ASSUME NEW o \in Account, Browser!Forward(o) \/ Browser!Land(o) PROVE GhostsElsewhere'
  BY <1>9 DEF Browser!Forward, Browser!Land, Browser!Ends, Browser!tabs, Browser!editor,
     Browser!sends
<1>10. ASSUME NEW o \in Account, Browser!FinishRoute(o) PROVE GhostsElsewhere'
  BY <1>10 DEF Browser!FinishRoute, Browser!tabs, Browser!sends
<1>11. ASSUME NEW o \in Account, NEW b \in BOOLEAN, Browser!EndCallback(o, b)
      PROVE  GhostsElsewhere'
  BY <1>11 DEF Browser!EndCallback, Browser!Ends, Browser!tabs, Browser!editor
<1>12. ASSUME NEW o \in Account, Browser!Complete(o) \/ Browser!KeepTab(o) PROVE GhostsElsewhere'
  BY <1>12 DEF Browser!Complete, Browser!KeepTab, Browser!Ends, Browser!editor, Browser!sends
<1>13. ASSUME NEW o \in Account, NEW b \in BOOLEAN, Browser!ReleaseTab(o, b)
      PROVE  GhostsElsewhere'
  BY <1>13 DEF Browser!ReleaseTab, Browser!Abandoned, Browser!Owners, Browser!Closed,
     Browser!Robs, Browser!sends
<1>14. ASSUME NEW p \in Choice, Browser!UserSends(p) PROVE GhostsElsewhere'
  BY <1>14 DEF Browser!UserSends, Browser!Sends, Browser!tabs, Browser!sends
<1>15. ASSUME NEW p \in Choice, Browser!Issue(p) PROVE GhostsElsewhere'
  BY <1>15 DEF Browser!Issue, Browser!tabs
<1> QED BY <1>1, <1>2, <1>3, <1>4, <1>5, <1>6, <1>7, <1>8, <1>9, <1>10, <1>11, <1>12, <1>13,
   <1>14, <1>15 DEF Browser!BrowserSendNext

\* No step lets a POST leave that the ledger calls unsent.
LEMMA NothingEscapedStep ==
    ASSUME BrowserInv, Browser!BrowserSendNext
    PROVE  Browser!NothingEscaped'
<1> USE ConstantAssumption, TransportAssumption DEF BrowserInv, BrowserType, LockSpansSend,
        Unclaimed, CallbackOrder, LooseBlocked, NothingInserted, Preparing, Writing, Inserted,
        SendStage, RowState, CallbackState, Browser!NothingEscaped
<1>1. ASSUME NEW o \in Account, NEW p \in Choice, Browser!Prepare(o, p)
      PROVE  Browser!NothingEscaped'
  BY <1>1 DEF Browser!Prepare, Browser!Candidates, Browser!Owners, Browser!Goto, Browser!tabs,
     Browser!editor, Browser!sends
<1>2. ASSUME NEW o \in Account, Browser!Compose(o) \/ Browser!Baseline(o) \/ Browser!Reserve(o)
      PROVE  Browser!NothingEscaped'
  BY <1>2 DEF Browser!Compose, Browser!Baseline, Browser!Reserve, Browser!Holds, Browser!Goto,
     Browser!editor, Browser!sends, Browser!tabs
<1>3. ASSUME NEW o \in Account, NEW b \in BOOLEAN,
             Browser!FailPrepare(o, b) \/ Browser!Refuse(o, b) \/ Browser!AuthFails(o, b)
      PROVE  Browser!NothingEscaped'
  BY <1>3 DEF Browser!FailPrepare, Browser!Refuse, Browser!AuthFails, Browser!Goto,
     Browser!Closed, Browser!MayClose, Browser!sends, Browser!editor, Browser!Holds,
     Browser!Discard, Browser!Owners, Browser!Robs
<1>4. ASSUME NEW o \in Account, Browser!Intercept(o) \/ Browser!Insert(o) \/ Browser!Click(o)
      PROVE  Browser!NothingEscaped'
  BY <1>4 DEF Browser!Intercept, Browser!Insert, Browser!Click, Browser!Holds, Browser!Goto,
     Browser!tabs, Browser!sends, Browser!editor, Browser!Sends
<1>5. ASSUME NEW o \in Account, Browser!RejectDraft(o) \/ Browser!Return(o)
      PROVE  Browser!NothingEscaped'
  BY <1>5 DEF Browser!RejectDraft, Browser!Return, Browser!Holds, Browser!Goto,
     Browser!editor, Browser!tabs
<1>6. ASSUME NEW o \in Account, Browser!GiveUp(o) \/ Browser!Clean(o)
      PROVE  Browser!NothingEscaped'
  BY <1>6 DEF Browser!GiveUp, Browser!Clean, Browser!Goto, Browser!tabs, Browser!editor,
     Browser!Holds, Browser!sends
<1>7. ASSUME NEW o \in Account, NEW b \in BOOLEAN,
             Browser!DropRejected(o, b) \/ Browser!Late(o, b)
      PROVE  Browser!NothingEscaped'
  BY <1>7 DEF Browser!DropRejected, Browser!Late, Browser!Holds, Browser!Goto, Browser!Closed,
     Browser!MayClose, Browser!tabs
<1>8. ASSUME NEW o \in Account, Browser!Record(o) \/ Browser!RefusePost(o) \/ Browser!Headers(o)
      PROVE  Browser!NothingEscaped'
  BY <1>8 DEF Browser!Record, Browser!RefusePost, Browser!Headers, Browser!tabs,
     Browser!sends, Browser!editor, Browser!Ends
<1>9. ASSUME NEW o \in Account, Browser!Forward(o) \/ Browser!Land(o)
      PROVE  Browser!NothingEscaped'
  BY <1>9 DEF Browser!Forward, Browser!Land, Browser!Ends, Browser!tabs, Browser!editor,
     Browser!sends
<1>10. ASSUME NEW o \in Account, Browser!FinishRoute(o) PROVE Browser!NothingEscaped'
  BY <1>10 DEF Browser!FinishRoute, Browser!tabs, Browser!sends
<1>11. ASSUME NEW o \in Account, NEW b \in BOOLEAN, Browser!EndCallback(o, b)
      PROVE  Browser!NothingEscaped'
  BY <1>11 DEF Browser!EndCallback, Browser!Ends, Browser!tabs, Browser!editor
<1>12. ASSUME NEW o \in Account, Browser!Complete(o) \/ Browser!KeepTab(o)
      PROVE  Browser!NothingEscaped'
  BY <1>12 DEF Browser!Complete, Browser!KeepTab, Browser!Ends, Browser!editor, Browser!sends
<1>13. ASSUME NEW o \in Account, NEW b \in BOOLEAN, Browser!ReleaseTab(o, b)
      PROVE  Browser!NothingEscaped'
  BY <1>13 DEF Browser!ReleaseTab, Browser!Abandoned, Browser!Owners, Browser!Closed,
     Browser!Robs, Browser!sends
<1>14. ASSUME NEW p \in Choice, Browser!UserSends(p) PROVE Browser!NothingEscaped'
  BY <1>14 DEF Browser!UserSends, Browser!Sends, Browser!tabs, Browser!sends
<1>15. ASSUME NEW p \in Choice, Browser!Issue(p) PROVE Browser!NothingEscaped'
  BY <1>15, IssueClaims DEF Browser!Issue, Browser!tabs
<1> QED BY <1>1, <1>2, <1>3, <1>4, <1>5, <1>6, <1>7, <1>8, <1>9, <1>10, <1>11, <1>12, <1>13,
   <1>14, <1>15 DEF Browser!BrowserSendNext

\* No step lets a POST leave before its identities are recorded.
LEMMA EscapesRecordedStep ==
    ASSUME BrowserInv, Browser!BrowserSendNext
    PROVE  Browser!EscapesRecorded'
<1> USE ConstantAssumption, TransportAssumption DEF BrowserInv, BrowserType, LockSpansSend,
        Unclaimed, CallbackOrder, LooseBlocked, NothingInserted, Preparing, Writing, Inserted,
        SendStage, RowState, CallbackState, Browser!EscapesRecorded
<1>1. ASSUME NEW o \in Account, NEW p \in Choice, Browser!Prepare(o, p)
      PROVE  Browser!EscapesRecorded'
  BY <1>1 DEF Browser!Prepare, Browser!Candidates, Browser!Owners, Browser!Goto, Browser!tabs,
     Browser!editor, Browser!sends
<1>2. ASSUME NEW o \in Account, Browser!Compose(o) \/ Browser!Baseline(o) \/ Browser!Reserve(o)
      PROVE  Browser!EscapesRecorded'
  BY <1>2 DEF Browser!Compose, Browser!Baseline, Browser!Reserve, Browser!Holds, Browser!Goto,
     Browser!editor, Browser!sends, Browser!tabs
<1>3. ASSUME NEW o \in Account, NEW b \in BOOLEAN,
             Browser!FailPrepare(o, b) \/ Browser!Refuse(o, b) \/ Browser!AuthFails(o, b)
      PROVE  Browser!EscapesRecorded'
  BY <1>3 DEF Browser!FailPrepare, Browser!Refuse, Browser!AuthFails, Browser!Goto,
     Browser!Closed, Browser!MayClose, Browser!sends, Browser!editor, Browser!Holds,
     Browser!Discard, Browser!Owners, Browser!Robs
<1>4. ASSUME NEW o \in Account, Browser!Intercept(o) \/ Browser!Insert(o) \/ Browser!Click(o)
      PROVE  Browser!EscapesRecorded'
  BY <1>4 DEF Browser!Intercept, Browser!Insert, Browser!Click, Browser!Holds, Browser!Goto,
     Browser!tabs, Browser!sends, Browser!editor, Browser!Sends
<1>5. ASSUME NEW o \in Account, Browser!RejectDraft(o) \/ Browser!Return(o)
      PROVE  Browser!EscapesRecorded'
  BY <1>5 DEF Browser!RejectDraft, Browser!Return, Browser!Holds, Browser!Goto,
     Browser!editor, Browser!tabs
<1>6. ASSUME NEW o \in Account, Browser!GiveUp(o) \/ Browser!Clean(o)
      PROVE  Browser!EscapesRecorded'
  BY <1>6 DEF Browser!GiveUp, Browser!Clean, Browser!Goto, Browser!tabs, Browser!editor,
     Browser!Holds, Browser!sends
<1>7. ASSUME NEW o \in Account, NEW b \in BOOLEAN,
             Browser!DropRejected(o, b) \/ Browser!Late(o, b)
      PROVE  Browser!EscapesRecorded'
  BY <1>7 DEF Browser!DropRejected, Browser!Late, Browser!Holds, Browser!Goto, Browser!Closed,
     Browser!MayClose, Browser!tabs
<1>8. ASSUME NEW o \in Account, Browser!Record(o) \/ Browser!RefusePost(o) \/ Browser!Headers(o)
      PROVE  Browser!EscapesRecorded'
  BY <1>8 DEF Browser!Record, Browser!RefusePost, Browser!Headers, Browser!tabs,
     Browser!sends, Browser!editor, Browser!Ends
<1>9. ASSUME NEW o \in Account, Browser!Forward(o) \/ Browser!Land(o)
      PROVE  Browser!EscapesRecorded'
  BY <1>9 DEF Browser!Forward, Browser!Land, Browser!Ends, Browser!tabs, Browser!editor,
     Browser!sends
<1>10. ASSUME NEW o \in Account, Browser!FinishRoute(o) PROVE Browser!EscapesRecorded'
  BY <1>10 DEF Browser!FinishRoute, Browser!tabs, Browser!sends
<1>11. ASSUME NEW o \in Account, NEW b \in BOOLEAN, Browser!EndCallback(o, b)
      PROVE  Browser!EscapesRecorded'
  BY <1>11 DEF Browser!EndCallback, Browser!Ends, Browser!tabs, Browser!editor
<1>12. ASSUME NEW o \in Account, Browser!Complete(o) \/ Browser!KeepTab(o)
      PROVE  Browser!EscapesRecorded'
  BY <1>12 DEF Browser!Complete, Browser!KeepTab, Browser!Ends, Browser!editor, Browser!sends
<1>13. ASSUME NEW o \in Account, NEW b \in BOOLEAN, Browser!ReleaseTab(o, b)
      PROVE  Browser!EscapesRecorded'
  BY <1>13 DEF Browser!ReleaseTab, Browser!Abandoned, Browser!Owners, Browser!Closed,
     Browser!Robs, Browser!sends
<1>14. ASSUME NEW p \in Choice, Browser!UserSends(p) PROVE Browser!EscapesRecorded'
  BY <1>14 DEF Browser!UserSends, Browser!Sends, Browser!tabs, Browser!sends
<1>15. ASSUME NEW p \in Choice, Browser!Issue(p) PROVE Browser!EscapesRecorded'
  BY <1>15, IssueClaims DEF Browser!Issue, Browser!tabs
<1> QED BY <1>1, <1>2, <1>3, <1>4, <1>5, <1>6, <1>7, <1>8, <1>9, <1>10, <1>11, <1>12, <1>13,
   <1>14, <1>15 DEF Browser!BrowserSendNext

\* No step closes the tab of another message.
LEMMA TabsSparedStep ==
    ASSUME BrowserInv, Browser!BrowserSendNext
    PROVE  Browser!TabsSpared'
<1> USE ConstantAssumption, TransportAssumption DEF BrowserInv, BrowserType, LockSpansSend,
        SendingAlone, OwnsPage, Unclaimed, LooseBlocked, RejectedBlocked, NothingInserted,
        Browser!Busy, Preparing, Writing, Inserted, SendStage, RowState, CallbackState,
        Browser!TabsSpared
<1>1. ASSUME NEW o \in Account, NEW p \in Choice, Browser!Prepare(o, p) PROVE Browser!TabsSpared'
  BY <1>1 DEF Browser!Prepare, Browser!Candidates, Browser!Owners, Browser!Goto, Browser!tabs,
     Browser!editor, Browser!sends
<1>2. ASSUME NEW o \in Account, Browser!Compose(o) \/ Browser!Baseline(o) \/ Browser!Reserve(o)
      PROVE  Browser!TabsSpared'
  BY <1>2 DEF Browser!Compose, Browser!Baseline, Browser!Reserve, Browser!Holds, Browser!Goto,
     Browser!editor, Browser!sends, Browser!tabs
<1>3. ASSUME NEW o \in Account, NEW b \in BOOLEAN,
             Browser!FailPrepare(o, b) \/ Browser!Refuse(o, b) \/ Browser!AuthFails(o, b)
      PROVE  Browser!TabsSpared'
  BY <1>3 DEF Browser!FailPrepare, Browser!Refuse, Browser!AuthFails, Browser!Goto,
     Browser!Closed, Browser!MayClose, Browser!sends, Browser!editor, Browser!Holds,
     Browser!Discard, Browser!Owners, Browser!Robs
<1>4. ASSUME NEW o \in Account, Browser!Intercept(o) \/ Browser!Insert(o) \/ Browser!Click(o)
      PROVE  Browser!TabsSpared'
  BY <1>4 DEF Browser!Intercept, Browser!Insert, Browser!Click, Browser!Holds, Browser!Goto,
     Browser!tabs, Browser!sends, Browser!editor, Browser!Sends
<1>5. ASSUME NEW o \in Account, Browser!RejectDraft(o) \/ Browser!Return(o)
      PROVE  Browser!TabsSpared'
  BY <1>5 DEF Browser!RejectDraft, Browser!Return, Browser!Holds, Browser!Goto,
     Browser!editor, Browser!tabs
<1>6. ASSUME NEW o \in Account, Browser!GiveUp(o) \/ Browser!Clean(o) PROVE Browser!TabsSpared'
  BY <1>6 DEF Browser!GiveUp, Browser!Clean, Browser!Goto, Browser!tabs, Browser!editor,
     Browser!Holds, Browser!sends
<1>7. ASSUME NEW o \in Account, NEW b \in BOOLEAN,
             Browser!DropRejected(o, b) \/ Browser!Late(o, b)
      PROVE  Browser!TabsSpared'
  BY <1>7, RejectedAlone DEF Browser!DropRejected, Browser!Late, Browser!Holds
<1>8. ASSUME NEW o \in Account, Browser!Record(o) \/ Browser!RefusePost(o) \/ Browser!Headers(o)
      PROVE  Browser!TabsSpared'
  BY <1>8 DEF Browser!Record, Browser!RefusePost, Browser!Headers, Browser!tabs,
     Browser!sends, Browser!editor, Browser!Ends
<1>9. ASSUME NEW o \in Account, Browser!Forward(o) \/ Browser!Land(o) PROVE Browser!TabsSpared'
  BY <1>9 DEF Browser!Forward, Browser!Land, Browser!Ends, Browser!tabs, Browser!editor,
     Browser!sends
<1>10. ASSUME NEW o \in Account, Browser!FinishRoute(o) PROVE Browser!TabsSpared'
  BY <1>10 DEF Browser!FinishRoute, Browser!tabs, Browser!sends
<1>11. ASSUME NEW o \in Account, NEW b \in BOOLEAN, Browser!EndCallback(o, b)
      PROVE  Browser!TabsSpared'
  BY <1>11 DEF Browser!EndCallback, Browser!Ends, Browser!tabs, Browser!editor
<1>12. ASSUME NEW o \in Account, Browser!Complete(o) \/ Browser!KeepTab(o)
      PROVE  Browser!TabsSpared'
  BY <1>12 DEF Browser!Complete, Browser!KeepTab, Browser!Ends, Browser!editor, Browser!sends
<1>13. ASSUME NEW o \in Account, NEW b \in BOOLEAN, Browser!ReleaseTab(o, b)
      PROVE  Browser!TabsSpared'
  BY <1>13 DEF Browser!ReleaseTab, Browser!Abandoned, Browser!Owners, Browser!Closed,
     Browser!Robs, Browser!sends
<1>14. ASSUME NEW p \in Choice, Browser!UserSends(p) PROVE Browser!TabsSpared'
  BY <1>14 DEF Browser!UserSends, Browser!Sends, Browser!tabs, Browser!sends
<1>15. ASSUME NEW p \in Choice, Browser!Issue(p) PROVE Browser!TabsSpared'
  BY <1>15 DEF Browser!Issue, Browser!tabs
<1> QED BY <1>1, <1>2, <1>3, <1>4, <1>5, <1>6, <1>7, <1>8, <1>9, <1>10, <1>11, <1>12, <1>13,
   <1>14, <1>15 DEF Browser!BrowserSendNext

\* No send has begun.
LEMMA BrowserBegins ==
    ASSUME Browser!BrowserSendInit
    PROVE  BrowserInv
<1> USE ConstantAssumption, TransportAssumption DEF Browser!BrowserSendInit
<1>1. BrowserType
  <2>1. routes \in [Choice -> Seq(Account \cup {"abort"})]
    OBVIOUS
  <2> QED BY <2>1 DEF BrowserType, SendStage, RowState, CallbackState
<1>2. LockSpansSend /\ SendingAlone
  BY DEF LockSpansSend, SendingAlone, Preparing, Writing, Inserted
<1>3. OwnsPage /\ NothingInserted
  BY DEF OwnsPage, NothingInserted, Browser!Busy, Preparing, Writing
<1>4. Routed /\ LooseBlocked
  BY DEF Routed, LooseBlocked
<1>5. Unclaimed /\ RejectedBlocked /\ CallbackOrder
  BY DEF Unclaimed, RejectedBlocked, CallbackOrder, Writing
<1>6. GhostsOwned /\ GhostsElsewhere
  BY DEF GhostsOwned, GhostsElsewhere, Ghosts
<1>7. Browser!NothingEscaped /\ Browser!EscapesRecorded /\ Browser!TabsSpared
  BY DEF Browser!NothingEscaped, Browser!EscapesRecorded, Browser!TabsSpared
<1> QED BY <1>1, <1>2, <1>3, <1>4, <1>5, <1>6, <1>7 DEF BrowserInv

\* A step of another part leaves the browser as it is.
LEMMA BrowserStutters ==
    ASSUME BrowserInv, UNCHANGED browserVars
    PROVE  BrowserInv'
<1> USE DEF BrowserInv, browserVars
<1>1. BrowserType'
  BY DEF BrowserType
<1>2. LockSpansSend' /\ SendingAlone'
  BY DEF LockSpansSend, SendingAlone
<1>3. OwnsPage' /\ NothingInserted'
  BY DEF OwnsPage, NothingInserted, Browser!Busy
<1>4. Routed' /\ LooseBlocked'
  BY DEF Routed, LooseBlocked, Blocked
<1>5. Unclaimed' /\ RejectedBlocked' /\ CallbackOrder'
  BY DEF Unclaimed, RejectedBlocked, CallbackOrder
<1>6. GhostsOwned' /\ GhostsElsewhere'
  BY DEF GhostsOwned, GhostsElsewhere, Ghosts
<1>7. Browser!NothingEscaped' /\ Browser!EscapesRecorded' /\ Browser!TabsSpared'
  BY DEF Browser!NothingEscaped, Browser!EscapesRecorded, Browser!TabsSpared
<1> QED BY <1>1, <1>2, <1>3, <1>4, <1>5, <1>6, <1>7 DEF BrowserInv

\* and with it what the transport promises of a send: the page of a reserved message
\* shows nothing of another that has not been sent.
LEMMA BrowserTrue ==
    ASSUME BrowserInv
    PROVE  /\ Browser!NothingEscaped /\ Browser!EscapesRecorded
           /\ Browser!BaselineTrue /\ Browser!TabsSpared
<1>1. ASSUME NEW o \in Account, holder = o, at[o] \in {"reserved", "routed", "inserted"}
      PROVE  shown[tab[o]] \subseteq appeared \cup orphaned \cup {o}
  <2>1. tab[o] \in Choice
    BY <1>1 DEF BrowserInv, LockSpansSend
  <2>2. shown[tab[o]] \subseteq Account
    BY <2>1 DEF BrowserInv, BrowserType
  <2>3. \A m \in Ghosts(tab[o]) : m = o \/ row[m] = "sending"
    BY <1>1, <2>1 DEF BrowserInv, GhostsElsewhere
  <2>4. \A m \in Account : row[m] = "sending" => m = o
    BY <1>1 DEF BrowserInv, SendingAlone, Writing, Inserted
  <2> QED BY <2>2, <2>3, <2>4 DEF Ghosts
<1>2. Browser!BaselineTrue
  BY <1>1 DEF Browser!BaselineTrue
<1> QED BY <1>2 DEF BrowserInv

(***************************************************************************)
(* The commands that choose a login (SubchatSetup).  A command is followed *)
(* from step to step by what it does to itself (Moved, Stopped), the files by *)
(* what a step does to them (Quiet, FileStep).                             *)
(***************************************************************************)

\* The places a login is read from, and the copies of it.
Profiles == Choice \cup {"own"}
Snapshots == [account : Account, there : BOOLEAN]

\* What is kept of a command of the setup.
CommandFields == {"at", "do", "profile", "account", "send", "name", "seen", "table", "snap",
                  "copy", "revoked"}

\* The saved files, the copies, the commands and the session are what the code has.
SetupType ==
    /\ live \in [Profiles -> Account \cup {None}]
    /\ selection \in Selections \cup {None}
    /\ names \in [Name -> Selections \cup {None}]
    /\ config \in Selections \cup {None}
    /\ snaps \in Seq(Snapshots)
    /\ DOMAIN cmd = Setup!Command
    /\ DOMAIN session = {"at", "first", "place", "pin", "send", "login", "moved"}
    /\ session.first \in Selections \cup {None}

\* A command has its fields; what it read is a selection.
CommandType(c) ==
    /\ cmd[c] = [f \in CommandFields |-> cmd[c][f]]
    /\ cmd[c].seen \in Selections \cup {None}
    /\ cmd[c].snap \in Nat
    /\ cmd[c].revoked = FALSE

\* The steps that a command takes.
OnCourse(c) ==
    /\ cmd[c].at = "inspect" => cmd[c].do \in Setup!Choosing \cup {"use-named"}
    /\ cmd[c].at = "lock" => cmd[c].do \in Setup!Guarded
    /\ cmd[c].at = "lockHttp" => cmd[c].do = "stage-http"
    /\ cmd[c].at = "read" => cmd[c].do \in {"stage", "save-named", "use-named", "doctor"}
    /\ cmd[c].at \in {"copy", "publish"} => cmd[c].do \in {"stage", "stage-http"}
    /\ cmd[c].at = "save" =>
          cmd[c].do \in Setup!Choosing \cup
              {"use-named", "revoke", "stage", "stage-http", "save-named"}
    /\ cmd[c].at = "clean" => cmd[c].do = "stage-http"
    /\ cmd[c].at \in {"resolve", "observe"} => cmd[c].do = "doctor"
    /\ cmd[c].at \in {"idle", "inspect", "lock", "read"} => cmd[c].seen = None
    /\ cmd[c].snap # 0 <=>
          cmd[c].at \in {"save", "clean"} /\ cmd[c].do \in {"stage", "stage-http"}

\* What a command was given.
Given(c) ==
    cmd[c].at # "idle" =>
        /\ cmd[c].do \in Setup!Choosing \cup {"stage", "stage-http"} =>
              cmd[c].profile \in Profiles /\ cmd[c].account \in Account
        /\ cmd[c].do \in {"save-named", "use-named"} => cmd[c].name \in Name
        /\ cmd[c].do = "use-named" => cmd[c].account \in Account /\ cmd[c].send \in BOOLEAN
        /\ cmd[c].do = "use-named" /\ cmd[c].at \in {"inspect", "save"} =>
              cmd[c].profile \in Profiles
        /\ cmd[c].do \in Setup!Choosing => cmd[c].send \in BOOLEAN

\* A command between its lock and its end holds it.
HoldsLocks(c) ==
    /\ \/ cmd[c].do \in {"stage", "save-named", "use-named"} /\ cmd[c].at \notin {"idle", "lock"}
       \/ cmd[c].do \in {"choose", "choose-dedicated", "revoke"} /\ cmd[c].at = "save"
       => stageLock = c
    /\ cmd[c].do = "stage-http" /\ cmd[c].at \notin {"idle", "lockHttp"} => httpLock = c

\* A selection that a file may hold: its account was in its place.
Grounded(r) ==
    IF Setup!Staged(r.place)
    THEN r.place.at \in 1..Len(snaps) /\ snaps[r.place.at].account = r.account
    ELSE r.place.at \in Profiles /\ <<r.place.at, r.account>> \in was

\* What a command is about to save was seen, and what it has read is as it has read it.
SavesGrounded(c) ==
    /\ \/ cmd[c].at = "save" /\ cmd[c].do \in Setup!Choosing \cup {"use-named"}
       \/ cmd[c].at = "lock" /\ cmd[c].do \in {"choose", "choose-dedicated"}
       => <<cmd[c].profile, cmd[c].account>> \in was
    /\ cmd[c].at = "save" /\ cmd[c].do \in {"stage", "stage-http"} =>
          /\ cmd[c].snap \in 1..Len(snaps)
          /\ snaps[cmd[c].snap].account = cmd[c].account /\ snaps[cmd[c].snap].there
    /\ cmd[c].do = "stage-http" /\ cmd[c].at \in {"copy", "publish", "save"} =>
          cmd[c].seen = config /\ config # None
    /\ cmd[c].at \in {"clean", "resolve", "observe"} => cmd[c].seen # None
    /\ cmd[c].at = "clean" /\ Setup!Staged(cmd[c].seen.place) => cmd[c].seen.place.at # 0

\* The table of names is as its writer has read it.
NamesRead(c) ==
    cmd[c].at = "save" /\ cmd[c].do = "save-named" =>
        /\ cmd[c].seen # None /\ Grounded(cmd[c].seen) /\ cmd[c].seen.place.kind = "id"
        /\ cmd[c].table = names
        /\ names[cmd[c].name] # None \/ Setup!Cardinality(Setup!Used(names)) < MaxNames

\* What a command has read or been given, the owner has consented to.
ConsentRead(c) ==
    /\ cmd[c].do = "stage" /\ cmd[c].seen # None => cmd[c].seen.account = cmd[c].account
    /\ cmd[c].do # "stage-http" /\ cmd[c].seen # None /\ cmd[c].seen.send =>
          cmd[c].seen.account \in consented
    /\ cmd[c].do = "use-named" /\ cmd[c].send => cmd[c].account \in consented

\* The copy that a selection refers to, if any.
SnapOf(r) == IF r # None /\ Setup!Staged(r.place) THEN r.place.at ELSE 0

\* Every snapshot belongs to one file or one command.
SnapshotApart(c) ==
    /\ cmd[c].at = "save" /\ cmd[c].snap # 0 =>
          /\ cmd[c].snap \notin {SnapOf(selection), SnapOf(config)}
          /\ \A d \in Setup!Command : cmd[d].at = "save" /\ cmd[d].snap = cmd[c].snap => d = c
    /\ cmd[c].at = "clean" /\ SnapOf(cmd[c].seen) # 0 =>
          /\ SnapOf(cmd[c].seen) \in 1..Len(snaps)
          /\ SnapOf(cmd[c].seen) \notin {SnapOf(selection), SnapOf(config)}
          /\ \A d \in Setup!Command : cmd[d].at = "save" => cmd[d].snap # SnapOf(cmd[c].seen)

\* What holds of every command.
CommandFits(c) ==
    /\ CommandType(c) /\ OnCourse(c) /\ Given(c) /\ HoldsLocks(c) /\ SavesGrounded(c)
    /\ NamesRead(c) /\ ConsentRead(c) /\ SnapshotApart(c)

\* What the saved files refer to was seen, and is there.
FilesGrounded ==
    /\ \A p \in Profiles : <<p, live[p]>> \in was
    /\ selection # None => Grounded(selection) /\ ~selection.undone
    /\ \A n \in Name : names[n] # None => Grounded(names[n]) /\ names[n].place.kind = "id"
    /\ config # None /\ Setup!Staged(config.place) => Grounded(config)
    /\ SnapOf(selection) # 0 => SnapOf(selection) # SnapOf(config)
    /\ service # None => service = config /\ httpLock = Setup!Service
    /\ \A r \in {selection, config} \ {None} :
          Setup!Staged(r.place) /\ ~torn => snaps[r.place.at].there

\* A Plugin session sends only what the owner has consented to.
PluginConsented ==
    /\ session.first # None /\ session.first.send => session.first.account \in consented
    /\ session.at = "decide" => ~session.send
    /\ session.at = "resolve" /\ session.send => session.first # None /\ session.first.send
    /\ session.at \in {"open", "on"} /\ session.send /\ ~session.moved =>
          session.pin # None /\ session.pin \in consented
    /\ session.at # "on" => session.login = None

\* The inductive invariant of the setup.
SetupInv ==
    /\ SetupType /\ FilesGrounded /\ PluginConsented
    /\ Setup!SendConsented /\ Setup!NamesKept
    /\ \A c \in Setup!Command : CommandFits(c)

\* A command goes on with a step: it keeps what it was given and, unless said, what it read.
Moved(c, s) ==
    /\ DOMAIN cmd' = Setup!Command
    /\ cmd'[c] = [f \in CommandFields |-> cmd'[c][f]]
    /\ cmd'[c].at = s
    /\ cmd'[c].do = cmd[c].do /\ cmd'[c].account = cmd[c].account
    /\ cmd'[c].name = cmd[c].name /\ cmd'[c].revoked = cmd[c].revoked
    /\ \A d \in Setup!Command \ {c} : cmd'[d] = cmd[d]
\* What a command keeps: its arguments, what it read, its copy.
AsGiven(c) == cmd'[c].profile = cmd[c].profile /\ cmd'[c].send = cmd[c].send
AsRead(c) == cmd'[c].seen = cmd[c].seen
SameSnap(c) == cmd'[c].snap = cmd[c].snap
\* A command that has ended.
Stopped(c) ==
    /\ DOMAIN cmd' = Setup!Command
    /\ cmd'[c] = [f \in CommandFields |-> cmd'[c][f]]
    /\ cmd'[c].at = "idle" /\ cmd'[c].seen = None /\ cmd'[c].send = FALSE
    /\ cmd'[c].snap = 0 /\ cmd'[c].revoked = FALSE
    /\ \A d \in Setup!Command \ {c} : cmd'[d] = cmd[d]

\* What the effects on cmd do, one lemma for each form of them.
LEMMA EndsStops ==
    ASSUME SetupType, NEW c \in Setup!Command, Setup!Ends(c)
    PROVE  Stopped(c)
BY DEF SetupType, Setup!Ends, Setup!Idle, Stopped, CommandFields

LEMMA SeenSet ==
    ASSUME SetupType, NEW c \in Setup!Command, CommandType(c), NEW s, NEW x,
           cmd' = [cmd EXCEPT ![c] = [cmd[c] EXCEPT !.at = s, !.seen = x]]
    PROVE  Moved(c, s) /\ AsGiven(c) /\ SameSnap(c) /\ cmd'[c].seen = x
BY DEF SetupType, CommandType, CommandFields, Moved, AsGiven, AsRead, SameSnap

\* A command that goes on with both files.
TakesUp(c, s, x, y) ==
    cmd' = [cmd EXCEPT ![c] = [cmd[c] EXCEPT !.at = s, !.seen = x, !.table = y]]

LEMMA SeenTableSet ==
    ASSUME SetupType, NEW c \in Setup!Command, CommandType(c), NEW s, NEW x, NEW y,
           TakesUp(c, s, x, y)
    PROVE  Moved(c, s) /\ AsGiven(c) /\ SameSnap(c) /\ cmd'[c].seen = x /\ cmd'[c].table = y
BY DEF TakesUp, SetupType, CommandType, CommandFields, Moved, AsGiven, AsRead, SameSnap

LEMMA TableSet ==
    ASSUME SetupType, NEW c \in Setup!Command, CommandType(c), NEW s, NEW x,
           cmd' = [cmd EXCEPT ![c] = [cmd[c] EXCEPT !.at = s, !.table = x]]
    PROVE  Moved(c, s) /\ AsGiven(c) /\ SameSnap(c) /\ AsRead(c)
BY DEF SetupType, CommandType, CommandFields, Moved, AsGiven, AsRead, SameSnap

LEMMA CopySet ==
    ASSUME SetupType, NEW c \in Setup!Command, CommandType(c), NEW s, NEW x,
           cmd' = [cmd EXCEPT ![c] = [cmd[c] EXCEPT !.at = s, !.copy = x]]
    PROVE  Moved(c, s) /\ AsGiven(c) /\ SameSnap(c) /\ AsRead(c)
BY DEF SetupType, CommandType, CommandFields, Moved, AsGiven, AsRead, SameSnap

LEMMA SnapSet ==
    ASSUME SetupType, NEW c \in Setup!Command, CommandType(c), NEW s, NEW x, NEW y,
           cmd' = [cmd EXCEPT ![c] = [cmd[c] EXCEPT !.at = s, !.snap = x, !.copy = y]]
    PROVE  Moved(c, s) /\ AsGiven(c) /\ AsRead(c) /\ cmd'[c].snap = x
BY DEF SetupType, CommandType, CommandFields, Moved, AsGiven, AsRead, SameSnap

LEMMA WishSet ==
    ASSUME SetupType, NEW c \in Setup!Command, CommandType(c), NEW s, NEW x, NEW y,
           cmd' = [cmd EXCEPT ![c] = [cmd[c] EXCEPT !.at = s, !.profile = x, !.send = y]]
    PROVE  Moved(c, s) /\ AsRead(c) /\ SameSnap(c) /\ cmd'[c].profile = x /\ cmd'[c].send = y
BY DEF SetupType, CommandType, CommandFields, Moved, AsGiven, AsRead, SameSnap

\* What each step of a command does: it stops, or goes on to the next.
LEMMA LockHttpMoves ==
    ASSUME SetupType, NEW c \in Setup!Command, CommandType(c), Setup!LockHttp(c)
    PROVE  \/ Stopped(c) /\ Setup!Ends(c)
           \/ /\ Moved(c, "copy") /\ AsGiven(c) /\ cmd'[c].seen = config /\ SameSnap(c)
              /\ Setup!Pin(config) = cmd[c].account
              /\ httpLock = None /\ httpLock' = c /\ UNCHANGED stageLock
<1>1. CASE httpLock = None /\ Setup!Pin(config) = cmd[c].account
  <2>1. /\ cmd' = [cmd EXCEPT ![c] = [cmd[c] EXCEPT !.at = "copy", !.seen = config]]
        /\ httpLock' = c /\ UNCHANGED stageLock
    BY <1>1 DEF Setup!LockHttp, Setup!GoesIf, Setup!Goes
  <2> QED BY <1>1, <2>1, SeenSet
<1>2. CASE ~(httpLock = None /\ Setup!Pin(config) = cmd[c].account)
  BY <1>2, EndsStops DEF Setup!LockHttp, Setup!GoesIf
<1> QED BY <1>1, <1>2

LEMMA ReadToStageMoves ==
    ASSUME SetupType, NEW c \in Setup!Command, CommandType(c), Setup!ReadToStage(c)
    PROVE  \/ Stopped(c) /\ Setup!Ends(c)
           \/ /\ Moved(c, "copy") /\ AsGiven(c) /\ cmd'[c].seen = selection /\ SameSnap(c)
              /\ selection = None \/ selection.account = cmd[c].account
              /\ UNCHANGED <<stageLock, httpLock>>
<1>1. CASE selection = None \/ selection.account = cmd[c].account
  <2>1. /\ cmd' = [cmd EXCEPT ![c] = [cmd[c] EXCEPT !.at = "copy", !.seen = selection]]
        /\ UNCHANGED <<stageLock, httpLock>>
    BY <1>1 DEF Setup!ReadToStage, Setup!GoesIf, Setup!Goes
  <2> QED BY <1>1, <2>1, SeenSet
<1>2. CASE ~(selection = None \/ selection.account = cmd[c].account)
  BY <1>2, EndsStops DEF Setup!ReadToStage, Setup!GoesIf
<1> QED BY <1>1, <1>2

LEMMA DoctorMoves ==
    ASSUME SetupType, NEW c \in Setup!Command, CommandType(c), Setup!ReadToDiagnose(c)
    PROVE  \/ Stopped(c) /\ Setup!Ends(c)
           \/ /\ Moved(c, "resolve") /\ AsGiven(c) /\ cmd'[c].seen = selection /\ SameSnap(c)
              /\ selection # None
              /\ UNCHANGED <<stageLock, httpLock>>
<1>1. CASE selection # None
  <2>1. /\ cmd' = [cmd EXCEPT ![c] = [cmd[c] EXCEPT !.at = "resolve", !.seen = selection]]
        /\ UNCHANGED <<stageLock, httpLock>>
    BY <1>1 DEF Setup!ReadToDiagnose, Setup!GoesIf, Setup!Goes
  <2> QED BY <1>1, <2>1, SeenSet
<1>2. CASE ~(selection # None)
  BY <1>2, EndsStops DEF Setup!ReadToDiagnose, Setup!GoesIf
<1> QED BY <1>1, <1>2

LEMMA ReadNamedMoves ==
    ASSUME SetupType, NEW c \in Setup!Command, CommandType(c), Setup!ReadNamed(c)
    PROVE  \/ Stopped(c) /\ Setup!Ends(c)
           \/ /\ Moved(c, "inspect") /\ AsRead(c) /\ SameSnap(c)
              /\ cmd'[c].profile = names[cmd[c].name].place.at
              /\ cmd'[c].send = names[cmd[c].name].send
              /\ names[cmd[c].name] # None /\ names[cmd[c].name].account = cmd[c].account
              /\ UNCHANGED <<stageLock, httpLock>>
<1> DEFINE named == names[cmd[c].name]
           from == named.place.at
           sends == named.send
<1>1. CASE named # None /\ named.account = cmd[c].account
  <2>1. /\ cmd' = [cmd EXCEPT ![c] =
                      [cmd[c] EXCEPT !.at = "inspect", !.profile = from, !.send = sends]]
        /\ UNCHANGED <<stageLock, httpLock>>
    BY <1>1 DEF Setup!ReadNamed, Setup!GoesIf, Setup!Goes
  <2> HIDE DEF from, sends, named
  <2>2. /\ Moved(c, "inspect") /\ AsRead(c) /\ SameSnap(c)
        /\ cmd'[c].profile = from /\ cmd'[c].send = sends
    BY <2>1 DEF SetupType, CommandType, CommandFields, Moved, AsRead, SameSnap
  <2> QED BY <1>1, <2>1, <2>2 DEF from, sends, named
<1>2. CASE ~(named # None /\ named.account = cmd[c].account)
  BY <1>2, EndsStops DEF Setup!ReadNamed, Setup!GoesIf
<1> QED BY <1>1, <1>2

LEMMA CopyMoves ==
    ASSUME SetupType, NEW c \in Setup!Command, CommandType(c), Setup!Copy(c)
    PROVE  \/ Stopped(c) /\ Setup!Ends(c)
           \/ /\ Moved(c, "publish") /\ AsGiven(c) /\ AsRead(c) /\ SameSnap(c)
              /\ UNCHANGED <<stageLock, httpLock>>
<1>1. CASE live[cmd[c].profile] # None
  <2>1. /\ cmd' = [cmd EXCEPT ![c] =
                      [cmd[c] EXCEPT !.at = "publish", !.copy = live[cmd[c].profile]]]
        /\ UNCHANGED <<stageLock, httpLock>>
    BY <1>1 DEF Setup!Copy, Setup!GoesIf, Setup!Goes
  <2> QED BY <1>1, <2>1, CopySet
<1>2. CASE ~(live[cmd[c].profile] # None)
  BY <1>2, EndsStops DEF Setup!Copy, Setup!GoesIf
<1> QED BY <1>1, <1>2

LEMMA PublishMoves ==
    ASSUME SetupType, NEW c \in Setup!Command, CommandType(c), Setup!Publish(c)
    PROVE  \/ Stopped(c) /\ Setup!Ends(c) /\ UNCHANGED snaps
           \/ /\ Moved(c, "save") /\ AsGiven(c) /\ AsRead(c) /\ cmd'[c].snap = Len(snaps) + 1
              /\ snaps' = Append(snaps, [account |-> cmd[c].account, there |-> TRUE])
              /\ UNCHANGED <<stageLock, httpLock>>
<1>1. CASE Setup!Matches(c)
  <2>1. /\ cmd' = [cmd EXCEPT ![c] =
                      [cmd[c] EXCEPT !.at = "save", !.snap = Len(snaps) + 1, !.copy = None]]
        /\ snaps' = Append(snaps, [account |-> cmd[c].account, there |-> TRUE])
        /\ UNCHANGED <<stageLock, httpLock>>
    BY <1>1 DEF Setup!Publish, Setup!GoesIf, Setup!Goes, Setup!Matches
  <2> QED BY <1>1, <2>1, SnapSet
<1>2. CASE ~(Setup!Matches(c))
  BY <1>2, EndsStops DEF Setup!Publish, Setup!GoesIf, Setup!Matches
<1> QED BY <1>1, <1>2

LEMMA InspectMoves ==
    ASSUME SetupType, NEW c \in Setup!Command, CommandType(c), Setup!Inspect(c)
    PROVE  \/ Stopped(c) /\ Setup!Ends(c)
           \/ /\ Moved(c, IF cmd[c].do \in {"choose", "choose-dedicated"} THEN "lock" ELSE "save")
              /\ AsGiven(c) /\ AsRead(c) /\ SameSnap(c)
              /\ Setup!Confirmed(c) /\ UNCHANGED <<stageLock, httpLock>>
BY EndsStops DEF SetupType, CommandType, CommandFields, Setup!Inspect, Setup!GoesIf, Setup!Goes,
   Moved, AsGiven, AsRead, SameSnap

LEMMA LockMoves ==
    ASSUME SetupType, NEW c \in Setup!Command, CommandType(c), Setup!Lock(c)
    PROVE  \/ Stopped(c) /\ Setup!Ends(c)
           \/ /\ Moved(c, IF cmd[c].do \in {"stage", "save-named", "use-named"}
                          THEN "read" ELSE "save")
              /\ AsGiven(c) /\ AsRead(c) /\ SameSnap(c)
              /\ stageLock = None /\ stageLock' = c /\ UNCHANGED httpLock
BY EndsStops DEF SetupType, CommandType, CommandFields, Setup!Lock, Setup!GoesIf, Setup!Goes,
   Moved, AsGiven, AsRead, SameSnap

LEMMA ReadToNameMoves ==
    ASSUME SetupType, NEW c \in Setup!Command, CommandType(c), Setup!ReadToName(c)
    PROVE  \/ Stopped(c) /\ Setup!Ends(c)
           \/ /\ Moved(c, "save") /\ AsGiven(c) /\ SameSnap(c)
              /\ cmd'[c].seen = selection /\ cmd'[c].table = names
              /\ selection # None /\ selection.place.kind = "id"
              /\ names[cmd[c].name] # None \/ Setup!Cardinality(Setup!Used(names)) < MaxNames
              /\ UNCHANGED <<stageLock, httpLock>>
<1> DEFINE room == /\ selection # None /\ selection.place.kind = "id"
                   /\ names[cmd[c].name] # None \/ Setup!Cardinality(Setup!Used(names)) < MaxNames
<1>1. CASE room
  <2>1. TakesUp(c, "save", selection, names) /\ UNCHANGED <<stageLock, httpLock>>
    BY <1>1 DEF Setup!ReadToName, Setup!GoesIf, Setup!Goes, TakesUp
  <2>2. /\ Moved(c, "save") /\ AsGiven(c) /\ SameSnap(c)
        /\ cmd'[c].seen = selection /\ cmd'[c].table = names
    BY <2>1, SeenTableSet
  <2> QED BY <1>1, <2>1, <2>2
<1>2. CASE ~room
  BY <1>2, EndsStops DEF Setup!ReadToName, Setup!GoesIf
<1> QED BY <1>1, <1>2

LEMMA ResolveMoves ==
    ASSUME SetupType, NEW c \in Setup!Command, CommandType(c), Setup!Resolve(c)
    PROVE  \/ Stopped(c) /\ Setup!Ends(c)
           \/ /\ Moved(c, "observe") /\ AsGiven(c) /\ AsRead(c) /\ SameSnap(c)
              /\ UNCHANGED <<stageLock, httpLock>>
<1>1. CASE cmd[c].seen.place.kind = "dedicated"
  <2>1. /\ cmd' = [cmd EXCEPT ![c] = [cmd[c] EXCEPT !.at = "observe", !.table = cmd[c].seen.place]]
        /\ UNCHANGED <<stageLock, httpLock>>
    BY <1>1 DEF Setup!Resolve, Setup!Goes
  <2> QED BY <2>1, TableSet
<1>2. CASE ~(cmd[c].seen.place.kind = "dedicated")
  <2>1. CASE selection # None /\ selection.account = cmd[c].seen.account
    <3>1. /\ cmd' = [cmd EXCEPT ![c] = [cmd[c] EXCEPT !.at = "observe", !.table = selection.place]]
          /\ UNCHANGED <<stageLock, httpLock>>
      BY <1>2, <2>1 DEF Setup!Resolve, Setup!GoesIf, Setup!Goes
    <3> QED BY <3>1, TableSet
  <2>2. CASE ~(selection # None /\ selection.account = cmd[c].seen.account)
    BY <1>2, <2>2, EndsStops DEF Setup!Resolve, Setup!GoesIf
  <2> QED BY <2>1, <2>2
<1> QED BY <1>1, <1>2

\* What a step of one command leaves to the others.
Frame(c) ==
    /\ \A d \in Setup!Command \ {c} :
          /\ cmd'[d] = cmd[d]
          /\ stageLock = d => stageLock' = d
          /\ httpLock = d => httpLock' = d
          /\ cmd[d].at = "save" /\ cmd[d].snap # 0 => snaps'[cmd[d].snap] = snaps[cmd[d].snap]
    /\ was \subseteq was' /\ consented \subseteq consented'
    /\ Len(snaps) <= Len(snaps')
    /\ \A i \in 1..Len(snaps) : snaps'[i].account = snaps[i].account
    /\ names' = names \/ stageLock = c
    /\ config' = config \/ httpLock = c
    /\ \A s \in {SnapOf(selection'), SnapOf(config')} :
          \/ s \in {0, SnapOf(selection), SnapOf(config)}
          \/ cmd[c].at = "save" /\ s = cmd[c].snap
    /\ cmd'[c].at = "save" /\ cmd'[c].snap # 0 => cmd'[c].snap > Len(snaps)

\* so the others fit as before.
LEMMA OthersFit ==
    ASSUME SetupInv, SetupType', NEW c \in Setup!Command, Frame(c), NEW d \in Setup!Command \ {c}
    PROVE  CommandFits(d)'
<1> USE DEF SetupInv, SetupType, Frame
<1>1. CommandFits(d) /\ CommandFits(c)
  OBVIOUS
<1>2. Len(snaps) \in Nat /\ Len(snaps') \in Nat
  OBVIOUS
<1>3. CommandType(d)' /\ OnCourse(d)' /\ Given(d)' /\ HoldsLocks(d)' /\ ConsentRead(d)'
  BY <1>1 DEF CommandFits, CommandType, OnCourse, Given, HoldsLocks, ConsentRead
<1>5. SavesGrounded(d)'
  <2>1. cmd'[d] = cmd[d] /\ SavesGrounded(d) /\ HoldsLocks(d) /\ d # c
    BY <1>1 DEF CommandFits
  <2>2. cmd[d].at = "save" /\ cmd[d].do \in {"stage", "stage-http"} => cmd[d].snap # 0
    BY <1>1 DEF CommandFits, OnCourse
  <2>3. cmd[d].at = "save" /\ cmd[d].do \in {"stage", "stage-http"} =>
            /\ cmd[d].snap \in 1..Len(snaps')
            /\ snaps'[cmd[d].snap].account = cmd[d].account /\ snaps'[cmd[d].snap].there
    BY <1>2, <2>1, <2>2 DEF SavesGrounded
  <2>4. cmd[d].do = "stage-http" /\ cmd[d].at \in {"copy", "publish", "save"} => config' = config
    BY <2>1 DEF HoldsLocks
  <2>5. was \subseteq was'
    OBVIOUS
  <2> HIDE DEF SetupInv, SetupType, Frame
  <2> QED BY <2>1, <2>3, <2>4, <2>5 DEF SavesGrounded, Setup!Staged, Setup!Choosing
<1>6. NamesRead(d)'
  <2>1. /\ cmd'[d] = cmd[d] /\ NamesRead(d) /\ HoldsLocks(d) /\ CommandType(d) /\ d # c
        /\ names' = names \/ stageLock = c
    BY <1>1 DEF CommandFits
  <2>2. cmd[d].seen # None /\ Grounded(cmd[d].seen) => Grounded(cmd[d].seen)'
    BY <1>2, <2>1 DEF Grounded
  <2>3. cmd[d].at = "save" /\ cmd[d].do = "save-named" => names' = names
    BY <2>1 DEF HoldsLocks
  <2> HIDE DEF SetupInv, SetupType, Frame
  <2> QED BY <2>1, <2>2, <2>3 DEF NamesRead, Setup!Used, Setup!Cardinality
<1>7. SnapshotApart(d)'
  <2>1. CommandType(d) /\ CommandType(c) /\ SnapshotApart(d) /\ SnapshotApart(c) /\ SavesGrounded(d)
        /\ OnCourse(d)
    BY <1>1 DEF CommandFits
  <2>2. ASSUME cmd[d].at = "save", cmd[d].snap # 0
        PROVE  /\ cmd[d].snap \notin {SnapOf(selection'), SnapOf(config')}
               /\ \A e \in Setup!Command :
                     cmd'[e].at = "save" /\ cmd'[e].snap = cmd[d].snap => e = d
    <3> DEFINE t == cmd[d].snap
    <3>1. /\ t \notin {SnapOf(selection), SnapOf(config)} /\ t # 0
          /\ \A e \in Setup!Command : cmd[e].at = "save" /\ cmd[e].snap = t => e = d
      BY <2>1, <2>2 DEF SnapshotApart
    <3>2. t \in 1..Len(snaps)
      BY <2>1, <2>2 DEF SavesGrounded, OnCourse
    <3> HIDE DEF t
    <3>3. ~(cmd[c].at = "save" /\ cmd[c].snap = t)
      BY <3>1
    <3>4. t \notin {SnapOf(selection'), SnapOf(config')}
      BY <3>1, <3>3
    <3>5. ASSUME NEW e \in Setup!Command, cmd'[e].at = "save", cmd'[e].snap = t PROVE e = d
      BY <1>2, <3>1, <3>2, <3>5
    <3> QED BY <3>4, <3>5 DEF t
  <2>3. ASSUME cmd[d].at = "clean", SnapOf(cmd[d].seen) # 0
        PROVE  /\ SnapOf(cmd[d].seen) \in 1..Len(snaps')
               /\ SnapOf(cmd[d].seen) \notin {SnapOf(selection'), SnapOf(config')}
               /\ \A e \in Setup!Command :
                     cmd'[e].at = "save" => cmd'[e].snap # SnapOf(cmd[d].seen)
    <3> DEFINE t == SnapOf(cmd[d].seen)
    <3>1. /\ t \in 1..Len(snaps) /\ t \notin {SnapOf(selection), SnapOf(config)}
          /\ \A e \in Setup!Command : cmd[e].at = "save" => cmd[e].snap # t
      BY <2>1, <2>3 DEF SnapshotApart
    <3> HIDE DEF t
    <3>2. t \in 1..Len(snaps') /\ t # 0
      BY <1>2, <3>1
    <3>3. t \notin {SnapOf(selection'), SnapOf(config')}
      BY <3>1, <3>2
    <3>4. ASSUME NEW e \in Setup!Command, cmd'[e].at = "save" PROVE cmd'[e].snap # t
      BY <1>2, <3>1, <3>2, <3>4
    <3> QED BY <3>2, <3>3, <3>4 DEF t
  <2>4. SnapOf(selection)' = SnapOf(selection') /\ SnapOf(config)' = SnapOf(config')
        /\ SnapOf(cmd[d].seen)' = SnapOf(cmd[d].seen)
    BY DEF SnapOf
  <2> QED BY <2>2, <2>3, <2>4 DEF SnapshotApart
<1> QED BY <1>3, <1>5, <1>6, <1>7 DEF CommandFits

\* A command that has ended fits.
LEMMA StoppedFits ==
    ASSUME NEW c \in Setup!Command, Stopped(c)
    PROVE  CommandFits(c)'
BY DEF Stopped, CommandFits, CommandType, OnCourse, Given, HoldsLocks, SavesGrounded, NamesRead,
   ConsentRead, SnapshotApart, SnapOf

\* A step that changes no file and no session.
Quiet ==
    /\ UNCHANGED <<live, was, selection, names, config, session, service, consented, saved, torn>>
    /\ report' # report => (report'.send => report'.account \in consented)
    /\ snaps' \in Seq(Snapshots) /\ Len(snaps) <= Len(snaps')
    /\ \A i \in 1..Len(snaps) : snaps'[i] = snaps[i]
    /\ httpLock = Setup!Service => httpLock' = httpLock
    /\ DOMAIN cmd' = Setup!Command

\* The invariant without the commands.
FilesInv ==
    SetupType /\ FilesGrounded /\ PluginConsented /\ Setup!SendConsented /\ Setup!NamesKept

\* A quiet step keeps it,
LEMMA QuietKeeps ==
    ASSUME SetupInv, Quiet
    PROVE  FilesInv'
<1> USE DEF Quiet
<1>1. SetupType'
  BY DEF SetupInv, SetupType
<1>2. Len(snaps) \in Nat /\ Len(snaps') \in Nat
  BY DEF SetupInv, SetupType
<1>3. \A r \in Selections : Grounded(r) => Grounded(r)'
  BY <1>2 DEF Grounded
<1>4. SnapOf(selection)' = SnapOf(selection) /\ SnapOf(config)' = SnapOf(config)
  BY DEF SnapOf
<1>5. \A r \in {selection, config} \ {None} :
         Setup!Staged(r.place) /\ ~torn => snaps'[r.place.at].there
  <2> TAKE r \in {selection, config} \ {None}
  <2>1. Setup!Staged(r.place) => Grounded(r)
    BY DEF SetupInv, FilesGrounded
  <2>2. Setup!Staged(r.place) => r.place.at \in 1..Len(snaps)
    BY <2>1 DEF Grounded
  <2> QED BY <2>2 DEF SetupInv, FilesGrounded
<1>6. FilesGrounded'
  BY <1>3, <1>4, <1>5 DEF SetupInv, SetupType, FilesGrounded
<1>7. PluginConsented'
  BY DEF SetupInv, PluginConsented
<1>8. Setup!SendConsented' /\ Setup!NamesKept'
  BY DEF SetupInv, Setup!SendConsented, Setup!NamesKept, Setup!Used, Setup!Cardinality
<1> QED BY <1>1, <1>6, <1>7, <1>8 DEF FilesInv

\* and the commands that do not take it fit as before.
LEMMA QuietOthers ==
    ASSUME SetupInv, Quiet, NEW c \in Setup!Command,
           \A d \in Setup!Command \ {c} :
               /\ cmd'[d] = cmd[d]
               /\ stageLock = d => stageLock' = d
               /\ httpLock = d => httpLock' = d,
           cmd'[c].at = "save" /\ cmd'[c].snap # 0 => cmd'[c].snap > Len(snaps)
    PROVE  \A d \in Setup!Command \ {c} : CommandFits(d)'
<1>1. Len(snaps) \in Nat /\ Len(snaps') \in Nat
  BY DEF SetupInv, SetupType, Quiet
<1>2. \A d \in Setup!Command :
         cmd[d].at = "save" /\ cmd[d].snap # 0 => cmd[d].snap \in 1..Len(snaps)
  BY DEF SetupInv, CommandFits, OnCourse, SavesGrounded
<1>3. SnapOf(selection') = SnapOf(selection) /\ SnapOf(config') = SnapOf(config)
  BY DEF SnapOf, Quiet
<1>4. Frame(c)
  BY <1>1, <1>2, <1>3 DEF Frame, Quiet
<1>5. SetupType'
  BY QuietKeeps DEF FilesInv
<1> QED BY <1>4, <1>5, OthersFit

\* The invariant is the one of the files and of each command.
LEMMA FitsMeansInv ==
    ASSUME FilesInv', NEW c \in Setup!Command, CommandFits(c)',
           \A d \in Setup!Command \ {c} : CommandFits(d)'
    PROVE  SetupInv'
BY DEF FilesInv, SetupInv, Setup!Command

\* A command that ends gives up its own locks only.
LEMMA EndsFree ==
    ASSUME NEW c \in Setup!Command, Setup!Ends(c)
    PROVE  /\ \A d \in Setup!Command \ {c} :
                 (stageLock = d => stageLock' = d) /\ (httpLock = d => httpLock' = d)
           /\ httpLock = Setup!Service => httpLock' = httpLock
BY TransportAssumption DEF Setup!Ends, Setup!Command, Setup!Service

\* A step that changes commands only is quiet.
LEMMA OnlyQuiet ==
    ASSUME SetupInv, Setup!Only, DOMAIN cmd' = Setup!Command,
           httpLock = Setup!Service => httpLock' = httpLock
    PROVE  Quiet
BY DEF SetupInv, SetupType, Setup!Only, Quiet

\* A command that stops, and changes no file.
LEMMA StopKeeps ==
    ASSUME SetupInv, NEW c \in Setup!Command, Setup!Ends(c), Setup!Only
    PROVE  SetupInv'
<1>1. Stopped(c)
  BY EndsStops DEF SetupInv
<1>2. Quiet
  BY <1>1, EndsFree, OnlyQuiet DEF Stopped
<1> QED BY <1>1, <1>2, EndsFree, StoppedFits, QuietKeeps, QuietOthers, FitsMeansInv DEF Stopped

\* A command that goes on, and changes nothing else.
LEMMA MoveKeeps ==
    ASSUME SetupInv, NEW c \in Setup!Command, NEW s, Moved(c, s), SameSnap(c), Setup!Only,
           stageLock' = stageLock \/ (stageLock = None /\ stageLock' = c),
           httpLock' = httpLock \/ (httpLock = None /\ httpLock' = c),
           cmd[c].snap = 0, CommandFits(c)'
    PROVE  SetupInv'
<1>1. Quiet
  BY OnlyQuiet, TransportAssumption DEF Moved, Setup!Service
<1>2. \A d \in Setup!Command \ {c} :
          (stageLock = d => stageLock' = d) /\ (httpLock = d => httpLock' = d)
  BY TransportAssumption DEF Setup!Command
<1> QED BY <1>1, <1>2, QuietKeeps, QuietOthers, FitsMeansInv DEF Moved, SameSnap

\* The steps of a command before it saves, one by one.
LEMMA InspectKeeps ==
    ASSUME SetupInv, NEW c \in Setup!Command, Setup!Inspect(c)
    PROVE  SetupInv'
<1>1. CommandFits(c) /\ CommandType(c)
  BY DEF SetupInv, CommandFits
<1>2. CASE Stopped(c) /\ Setup!Ends(c)
  BY <1>2, StopKeeps DEF Setup!Inspect
<1> DEFINE s == IF cmd[c].do \in {"choose", "choose-dedicated"} THEN "lock" ELSE "save"
<1>3. CASE /\ Moved(c, s) /\ AsGiven(c) /\ AsRead(c) /\ SameSnap(c)
           /\ Setup!Confirmed(c) /\ UNCHANGED <<stageLock, httpLock>>
  <2>1. <<cmd[c].profile, cmd[c].account>> \in was
    <3>1. cmd[c].profile \in Profiles
      BY <1>1 DEF CommandFits, Given, OnCourse, Setup!Inspect
    <3> QED BY <1>3, <3>1, TransportAssumption
            DEF SetupInv, FilesGrounded, Setup!Confirmed, Setup!AccountAt, Setup!Place,
                Setup!Staged, Profiles, Places
  <2>2. CommandFits(c)'
    BY <1>1, <1>3, <2>1
       DEF CommandFits, CommandType, OnCourse, Given, HoldsLocks, SavesGrounded, NamesRead,
           ConsentRead, SnapshotApart, SnapOf, Moved, AsGiven, AsRead, SameSnap, Setup!Inspect,
           Setup!Only, Setup!Choosing, Setup!Guarded
  <2>3. cmd[c].snap = 0
    BY <1>1 DEF CommandFits, OnCourse, Setup!Inspect
  <2> HIDE DEF s
  <2> QED BY <1>3, <2>2, <2>3, MoveKeeps DEF Setup!Inspect
<1> QED BY <1>1, <1>2, <1>3, InspectMoves DEF SetupInv

LEMMA LockKeeps ==
    ASSUME SetupInv, NEW c \in Setup!Command, Setup!Lock(c)
    PROVE  SetupInv'
<1>1. CommandFits(c) /\ CommandType(c)
  BY DEF SetupInv, CommandFits
<1>2. CASE Stopped(c) /\ Setup!Ends(c)
  BY <1>2, StopKeeps DEF Setup!Lock
<1> DEFINE s == IF cmd[c].do \in {"stage", "save-named", "use-named"} THEN "read" ELSE "save"
<1>3. CASE /\ Moved(c, s) /\ AsGiven(c) /\ AsRead(c) /\ SameSnap(c)
           /\ stageLock = None /\ stageLock' = c /\ UNCHANGED httpLock
  <2>2. CommandFits(c)'
    BY <1>1, <1>3
       DEF CommandFits, CommandType, OnCourse, Given, HoldsLocks, SavesGrounded, NamesRead,
           ConsentRead, SnapshotApart, SnapOf, Moved, AsGiven, AsRead, SameSnap, Setup!Lock,
           Setup!Only, Setup!Choosing, Setup!Guarded
  <2>3. cmd[c].snap = 0
    BY <1>1 DEF CommandFits, OnCourse, Setup!Lock
  <2> HIDE DEF s
  <2> QED BY <1>3, <2>2, <2>3, MoveKeeps DEF Setup!Lock
<1> QED BY <1>1, <1>2, <1>3, LockMoves DEF SetupInv

LEMMA LockHttpKeeps ==
    ASSUME SetupInv, NEW c \in Setup!Command, Setup!LockHttp(c)
    PROVE  SetupInv'
<1>1. CommandFits(c) /\ CommandType(c)
  BY DEF SetupInv, CommandFits
<1>2. CASE Stopped(c) /\ Setup!Ends(c)
  BY <1>2, StopKeeps DEF Setup!LockHttp
<1>3. CASE /\ Moved(c, "copy") /\ AsGiven(c) /\ cmd'[c].seen = config /\ SameSnap(c)
           /\ Setup!Pin(config) = cmd[c].account
           /\ httpLock = None /\ httpLock' = c /\ UNCHANGED stageLock
  <2>1. cmd[c].do = "stage-http" /\ cmd[c].account \in Account
    BY <1>1 DEF CommandFits, OnCourse, Given, Setup!LockHttp
  <2>2. config # None /\ config \in Selections
    BY <1>3, <2>1, ConstantAssumption DEF Setup!Pin, SetupInv, SetupType
  <2>3. CommandFits(c)'
    BY <1>1, <1>3, <2>1, <2>2
       DEF CommandFits, CommandType, OnCourse, Given, HoldsLocks, SavesGrounded, NamesRead,
           ConsentRead, SnapshotApart, SnapOf, Moved, AsGiven, AsRead, SameSnap, Setup!LockHttp,
           Setup!Only, Setup!Choosing, Setup!Guarded
  <2>4. cmd[c].snap = 0
    BY <1>1 DEF CommandFits, OnCourse, Setup!LockHttp
  <2> QED BY <1>3, <2>3, <2>4, MoveKeeps DEF Setup!LockHttp
<1> QED BY <1>1, <1>2, <1>3, LockHttpMoves DEF SetupInv

LEMMA ReadToStageKeeps ==
    ASSUME SetupInv, NEW c \in Setup!Command, Setup!ReadToStage(c)
    PROVE  SetupInv'
<1>1. CommandFits(c) /\ CommandType(c)
  BY DEF SetupInv, CommandFits
<1>2. CASE Stopped(c) /\ Setup!Ends(c)
  BY <1>2, StopKeeps DEF Setup!ReadToStage
<1>3. CASE /\ Moved(c, "copy") /\ AsGiven(c) /\ cmd'[c].seen = selection /\ SameSnap(c)
           /\ selection = None \/ selection.account = cmd[c].account
           /\ UNCHANGED <<stageLock, httpLock>>
  <2>1. selection # None /\ selection.send => selection.account \in consented
    BY DEF SetupInv, Setup!SendConsented
  <2>2. CommandFits(c)'
    BY <1>1, <1>3, <2>1
       DEF CommandFits, CommandType, OnCourse, Given, HoldsLocks, SavesGrounded, NamesRead,
           ConsentRead, SnapshotApart, SnapOf, Moved, AsGiven, AsRead, SameSnap, Setup!ReadToStage,
           Setup!Only, Setup!Choosing, Setup!Guarded, SetupInv, SetupType
  <2>3. cmd[c].snap = 0
    BY <1>1 DEF CommandFits, OnCourse, Setup!ReadToStage
  <2> QED BY <1>3, <2>2, <2>3, MoveKeeps DEF Setup!ReadToStage
<1> QED BY <1>1, <1>2, <1>3, ReadToStageMoves DEF SetupInv

LEMMA ReadToNameKeeps ==
    ASSUME SetupInv, NEW c \in Setup!Command, Setup!ReadToName(c)
    PROVE  SetupInv'
<1>1. CommandFits(c) /\ CommandType(c)
  BY DEF SetupInv, CommandFits
<1>2. CASE Stopped(c) /\ Setup!Ends(c)
  BY <1>2, StopKeeps DEF Setup!ReadToName
<1>3. CASE /\ Moved(c, "save") /\ AsGiven(c) /\ SameSnap(c)
           /\ cmd'[c].seen = selection /\ cmd'[c].table = names
           /\ selection # None /\ selection.place.kind = "id"
           /\ names[cmd[c].name] # None \/ Setup!Cardinality(Setup!Used(names)) < MaxNames
           /\ UNCHANGED <<stageLock, httpLock>>
  <2>1. selection # None /\ selection.send => selection.account \in consented
    BY DEF SetupInv, Setup!SendConsented
  <2>2. Grounded(selection) /\ Grounded(selection)'
    BY <1>3 DEF SetupInv, FilesGrounded, Grounded, Setup!Only, Setup!ReadToName
  <2>3. /\ CommandType(c)' /\ OnCourse(c)' /\ Given(c)' /\ HoldsLocks(c)' /\ SavesGrounded(c)'
        /\ ConsentRead(c)' /\ SnapshotApart(c)'
    BY <1>1, <1>3, <2>1
       DEF CommandFits, CommandType, OnCourse, Given, HoldsLocks, SavesGrounded,
           ConsentRead, SnapshotApart, SnapOf, Moved, AsGiven, AsRead, SameSnap, Setup!ReadToName,
           Setup!Only, Setup!Choosing, Setup!Guarded, SetupInv, SetupType
  <2>4. NamesRead(c)'
    <3>1. cmd'[c].seen # None /\ Grounded(cmd[c].seen)' /\ cmd'[c].seen.place.kind = "id"
      BY <1>3, <2>2 DEF Grounded, Setup!ReadToName, Setup!Only
    <3>2. UNCHANGED names /\ cmd'[c].name = cmd[c].name
      BY <1>3 DEF Moved, Setup!ReadToName, Setup!Only
    <3> QED BY <1>3, <3>1, <3>2 DEF NamesRead, Setup!Used, Setup!Cardinality
  <2>5. cmd[c].snap = 0
    BY <1>1 DEF CommandFits, OnCourse, Setup!ReadToName
  <2> QED BY <1>3, <2>3, <2>4, <2>5, MoveKeeps DEF Setup!ReadToName, CommandFits
<1> QED BY <1>1, <1>2, <1>3, ReadToNameMoves DEF SetupInv

LEMMA ReadNamedKeeps ==
    ASSUME SetupInv, NEW c \in Setup!Command, Setup!ReadNamed(c)
    PROVE  SetupInv'
<1>1. CommandFits(c) /\ CommandType(c)
  BY DEF SetupInv, CommandFits
<1>2. CASE Stopped(c) /\ Setup!Ends(c)
  BY <1>2, StopKeeps DEF Setup!ReadNamed
<1> DEFINE named == names[cmd[c].name]
<1>3. CASE /\ Moved(c, "inspect") /\ AsRead(c) /\ SameSnap(c)
           /\ cmd'[c].profile = named.place.at /\ cmd'[c].send = named.send
           /\ named # None /\ named.account = cmd[c].account
           /\ UNCHANGED <<stageLock, httpLock>>
  <2>1. cmd[c].name \in Name
    BY <1>1 DEF CommandFits, Given, Setup!ReadNamed
  <2>2. /\ named \in Selections /\ Grounded(named) /\ named.place.kind = "id"
        /\ named.send => named.account \in consented
    BY <1>3, <2>1 DEF SetupInv, SetupType, FilesGrounded, Setup!SendConsented
  <2> HIDE DEF named
  <2>3. named.place.at \in Profiles /\ named.send \in BOOLEAN
    BY <2>2 DEF Grounded, Setup!Staged, Selections
  <2>4. CommandFits(c)'
    BY <1>1, <1>3, <2>1, <2>2, <2>3
       DEF CommandFits, CommandType, OnCourse, Given, HoldsLocks, SavesGrounded, NamesRead,
           ConsentRead, SnapshotApart, SnapOf, Moved, AsGiven, AsRead, SameSnap, Setup!ReadNamed,
           Setup!Only, Setup!Choosing, Setup!Guarded
  <2>5. cmd[c].snap = 0
    BY <1>1 DEF CommandFits, OnCourse, Setup!ReadNamed
  <2> QED BY <1>3, <2>4, <2>5, MoveKeeps DEF Setup!ReadNamed
<1> QED BY <1>1, <1>2, <1>3, ReadNamedMoves DEF SetupInv

LEMMA ReadToDiagnoseKeeps ==
    ASSUME SetupInv, NEW c \in Setup!Command, Setup!ReadToDiagnose(c)
    PROVE  SetupInv'
<1>1. CommandFits(c) /\ CommandType(c)
  BY DEF SetupInv, CommandFits
<1>2. CASE Stopped(c) /\ Setup!Ends(c)
  BY <1>2, StopKeeps DEF Setup!ReadToDiagnose
<1>3. CASE /\ Moved(c, "resolve") /\ AsGiven(c) /\ cmd'[c].seen = selection /\ SameSnap(c)
           /\ selection # None
           /\ UNCHANGED <<stageLock, httpLock>>
  <2>1. selection # None /\ selection.send => selection.account \in consented
    BY DEF SetupInv, Setup!SendConsented
  <2>2. CommandFits(c)'
    BY <1>1, <1>3, <2>1
       DEF CommandFits, CommandType, OnCourse, Given, HoldsLocks, SavesGrounded, NamesRead,
           ConsentRead, SnapshotApart, SnapOf, Moved, AsGiven, AsRead, SameSnap,
           Setup!ReadToDiagnose, Setup!Only, Setup!Choosing, Setup!Guarded, SetupInv, SetupType
  <2>3. cmd[c].snap = 0
    BY <1>1 DEF CommandFits, OnCourse, Setup!ReadToDiagnose
  <2> QED BY <1>3, <2>2, <2>3, MoveKeeps DEF Setup!ReadToDiagnose
<1> QED BY <1>1, <1>2, <1>3, DoctorMoves DEF SetupInv

LEMMA CopyKeeps ==
    ASSUME SetupInv, NEW c \in Setup!Command, Setup!Copy(c)
    PROVE  SetupInv'
<1>1. CommandFits(c) /\ CommandType(c)
  BY DEF SetupInv, CommandFits
<1>2. CASE Stopped(c) /\ Setup!Ends(c)
  BY <1>2, StopKeeps DEF Setup!Copy
<1>3. CASE /\ Moved(c, "publish") /\ AsGiven(c) /\ AsRead(c) /\ SameSnap(c)
           /\ UNCHANGED <<stageLock, httpLock>>
  <2>1. CommandFits(c)'
    BY <1>1, <1>3
       DEF CommandFits, CommandType, OnCourse, Given, HoldsLocks, SavesGrounded, NamesRead,
           ConsentRead, SnapshotApart, SnapOf, Moved, AsGiven, AsRead, SameSnap, Setup!Copy,
           Setup!Only, Setup!Choosing, Setup!Guarded
  <2>2. cmd[c].snap = 0
    BY <1>1 DEF CommandFits, OnCourse, Setup!Copy
  <2> QED BY <1>3, <2>1, <2>2, MoveKeeps DEF Setup!Copy
<1> QED BY <1>1, <1>2, <1>3, CopyMoves DEF SetupInv

LEMMA ResolveKeeps ==
    ASSUME SetupInv, NEW c \in Setup!Command, Setup!Resolve(c)
    PROVE  SetupInv'
<1>1. CommandFits(c) /\ CommandType(c)
  BY DEF SetupInv, CommandFits
<1>2. CASE Stopped(c) /\ Setup!Ends(c)
  BY <1>2, StopKeeps DEF Setup!Resolve
<1>3. CASE /\ Moved(c, "observe") /\ AsGiven(c) /\ AsRead(c) /\ SameSnap(c)
           /\ UNCHANGED <<stageLock, httpLock>>
  <2>1. CommandFits(c)'
    BY <1>1, <1>3
       DEF CommandFits, CommandType, OnCourse, Given, HoldsLocks, SavesGrounded, NamesRead,
           ConsentRead, SnapshotApart, SnapOf, Moved, AsGiven, AsRead, SameSnap, Setup!Resolve,
           Setup!Only, Setup!Choosing, Setup!Guarded
  <2>2. cmd[c].snap = 0
    BY <1>1 DEF CommandFits, OnCourse, Setup!Resolve
  <2> QED BY <1>3, <2>1, <2>2, MoveKeeps DEF Setup!Resolve
<1> QED BY <1>1, <1>2, <1>3, ResolveMoves DEF SetupInv

\* The last look at a login, and the publication of a copy.
LEMMA ObserveKeeps ==
    ASSUME SetupInv, NEW c \in Setup!Command, Setup!Observe(c)
    PROVE  SetupInv'
<1>1. CommandFits(c) /\ CommandType(c)
  BY DEF SetupInv, CommandFits
<1>2. Setup!Ends(c) /\ Stopped(c)
  BY EndsStops DEF Setup!Observe, SetupInv
<1>3. cmd[c].seen # None /\ (cmd[c].seen.send => cmd[c].seen.account \in consented)
  BY <1>1 DEF CommandFits, OnCourse, SavesGrounded, ConsentRead, Setup!Observe
<1>4. report' # report => (report'.send => report'.account \in consented)
  <2> DEFINE observed == Setup!AccountAt(cmd[c].table)
             matched == observed = cmd[c].seen.account
             sends == matched /\ cmd[c].seen.send
  <2>1. report' = report \/ report' = [place |-> cmd[c].table, account |-> observed,
                                       matched |-> matched, send |-> sends]
    BY DEF Setup!Observe
  <2>2. sends => observed \in consented
    BY <1>3
  <2> HIDE DEF observed, matched, sends
  <2> QED BY <2>1, <2>2
<1>5. Quiet
  BY <1>2, <1>4, EndsFree DEF Quiet, Stopped, Setup!Observe, SetupInv, SetupType
<1> QED BY <1>2, <1>5, EndsFree, StoppedFits, QuietKeeps, QuietOthers, FitsMeansInv DEF Stopped

LEMMA PublishKeeps ==
    ASSUME SetupInv, NEW c \in Setup!Command, Setup!Publish(c)
    PROVE  SetupInv'
<1>1. CommandFits(c) /\ CommandType(c)
  BY DEF SetupInv, CommandFits
<1>2. CASE Stopped(c) /\ Setup!Ends(c) /\ UNCHANGED snaps
  <2>1. Quiet
    BY <1>2, EndsFree DEF Quiet, Stopped, Setup!Publish, SetupInv, SetupType
  <2> QED BY <1>2, <2>1, EndsFree, StoppedFits, QuietKeeps, QuietOthers, FitsMeansInv DEF Stopped
<1>3. CASE /\ Moved(c, "save") /\ AsGiven(c) /\ AsRead(c) /\ cmd'[c].snap = Len(snaps) + 1
           /\ snaps' = Append(snaps, [account |-> cmd[c].account, there |-> TRUE])
           /\ UNCHANGED <<stageLock, httpLock>>
  <2>1. cmd[c].do \in {"stage", "stage-http"} /\ cmd[c].account \in Account /\ cmd[c].snap = 0
    BY <1>1 DEF CommandFits, OnCourse, Given, Setup!Publish
  <2>2. /\ snaps \in Seq(Snapshots) /\ Len(snaps) \in Nat
        /\ [account |-> cmd[c].account, there |-> TRUE] \in Snapshots
    BY <2>1 DEF SetupInv, SetupType, Snapshots
  <2>3. /\ snaps' \in Seq(Snapshots) /\ Len(snaps') = Len(snaps) + 1
        /\ \A i \in 1..Len(snaps) : snaps'[i] = snaps[i]
        /\ snaps'[Len(snaps) + 1] = [account |-> cmd[c].account, there |-> TRUE]
    BY <1>3, <2>2
  <2>4. Quiet
    BY <1>3, <2>2, <2>3 DEF Quiet, Moved, Setup!Publish
  <2>5. \A d \in Setup!Command \ {c} : CommandFits(d)'
    BY <1>3, <2>2, <2>4, QuietOthers DEF Moved
  <2>6. \A d \in Setup!Command : cmd[d].at = "save" => cmd[d].snap # Len(snaps) + 1
    <3>1. \A d \in Setup!Command :
             cmd[d].at = "save" => cmd[d].snap = 0 \/ cmd[d].snap \in 1..Len(snaps)
      BY DEF SetupInv, CommandFits, OnCourse, SavesGrounded
    <3> QED BY <2>2, <3>1
  <2>7. SnapOf(selection) # Len(snaps) + 1 /\ SnapOf(config) # Len(snaps) + 1
    BY <2>2 DEF SetupInv, FilesGrounded, Grounded, SnapOf
  <2>8. SnapOf(selection)' = SnapOf(selection) /\ SnapOf(config)' = SnapOf(config)
    BY DEF SnapOf, Setup!Publish
  <2>9. /\ CommandType(c)' /\ OnCourse(c)' /\ Given(c)' /\ HoldsLocks(c)'
        /\ NamesRead(c)' /\ ConsentRead(c)'
    BY <1>1, <1>3, <2>1, <2>2
       DEF CommandFits, CommandType, OnCourse, Given, HoldsLocks, NamesRead, SavesGrounded,
           ConsentRead, Moved, AsGiven, AsRead, Setup!Publish, Setup!Choosing, Setup!Guarded
  <2>10. SavesGrounded(c)'
    BY <1>1, <1>3, <2>1, <2>2, <2>3
       DEF CommandFits, SavesGrounded, Moved, AsGiven, AsRead, Setup!Publish, Setup!Choosing
  <2>11. SnapshotApart(c)'
    BY <1>3, <2>2, <2>6, <2>7, <2>8 DEF SnapshotApart, Moved
  <2>12. CommandFits(c)'
    BY <2>9, <2>10, <2>11 DEF CommandFits
  <2> QED BY <2>4, <2>5, <2>12, QuietKeeps, FitsMeansInv
<1> QED BY <1>1, <1>2, <1>3, PublishMoves DEF SetupInv

\* The fields of a command that begins.
Asked(w, do, p, a, e, n) ==
    /\ w = [f \in CommandFields |-> w[f]]
    /\ w.at = Setup!First(do) /\ w.do = do /\ w.profile = p /\ w.account = a
    /\ w.send = e /\ w.name = n /\ w.seen = None /\ w.snap = 0 /\ w.revoked = FALSE

\* A command begins with what it was asked,
LEMMA WantedIs ==
    ASSUME NEW do, NEW p, NEW a, NEW e, NEW n
    PROVE  Asked(Setup!Wanted(do, p, a, e, n), do, p, a, e, n)
<1> DEFINE s == Setup!First(do)
           w == Setup!Wanted(do, p, a, e, n)
<1>1. w = [at |-> s, do |-> do, profile |-> p, account |-> a, send |-> e, name |-> n,
           seen |-> None, table |-> None, snap |-> 0, copy |-> None, revoked |-> FALSE]
  <2>1. w = [Setup!Idle EXCEPT !.at = s, !.do = do, !.profile = p, !.account = a, !.send = e,
                               !.name = n]
    BY DEF Setup!Wanted
  <2> HIDE DEF s, w
  <2> QED BY <2>1 DEF Setup!Idle
<1> HIDE DEF s, w
<1>2. w.at = s
  BY <1>1
<1>3. /\ w = [f \in CommandFields |-> w[f]]
      /\ w.do = do /\ w.profile = p /\ w.account = a
      /\ w.send = e /\ w.name = n /\ w.seen = None /\ w.snap = 0 /\ w.revoked = FALSE
  BY <1>1 DEF CommandFields
<1>4. Asked(w, do, p, a, e, n)
  BY <1>2, <1>3 DEF s, Asked
<1> QED BY <1>4 DEF w

\* What a command is given when it begins.
Begun(w) ==
    /\ w.do \in Setup!Choosing => /\ w.at = "inspect" /\ w.profile \in Profiles
                                  /\ w.account \in Account /\ w.send \in BOOLEAN
    /\ w.do = "stage" => w.at = "lock" /\ w.profile \in Profiles /\ w.account \in Account
    /\ w.do = "stage-http" => w.at = "lockHttp" /\ w.profile \in Profiles /\ w.account \in Account
    /\ w.do = "save-named" => w.at = "lock" /\ w.name \in Name
    /\ w.do = "use-named" =>
          w.at = "lock" /\ w.account \in Account /\ w.name \in Name /\ w.send = FALSE
    /\ w.do = "revoke" => w.at = "lock"
    /\ w.do = "doctor" => w.at = "read"
    /\ w.do \in Setup!Choosing \cup Setup!Guarded \cup {"stage-http", "doctor"}
    /\ w = [f \in CommandFields |-> w[f]]
    /\ w.seen = None /\ w.snap = 0 /\ w.revoked = FALSE

\* The arguments of each kind of command, as the command line checks them.
WellAsked(do, p, a, e, n) ==
    \/ do \in {"select", "choose"} /\ p \in Choice /\ a \in Account /\ e \in BOOLEAN
    \/ do = "choose-dedicated" /\ p = "own" /\ a \in Account /\ e \in BOOLEAN
    \/ do \in {"stage", "stage-http"} /\ p \in Choice /\ a \in Account
    \/ do = "save-named" /\ n \in Name
    \/ do = "use-named" /\ a \in Account /\ n \in Name /\ e = FALSE
    \/ do \in {"revoke", "doctor"}

\* which is well asked,
LEMMA WantedBegun ==
    ASSUME NEW do, NEW p, NEW a, NEW e, NEW n, NEW w,
           WellAsked(do, p, a, e, n), w = Setup!Wanted(do, p, a, e, n)
    PROVE  Begun(w)
<1>1. Asked(w, do, p, a, e, n)
  BY WantedIs
<1> QED BY <1>1
    DEF Asked, WellAsked, Begun, Setup!First, Setup!Choosing, Setup!Guarded, Profiles

\* whatever the command line lets through.
LEMMA WellFormedBegun ==
    ASSUME NEW w \in Setup!WellFormed
    PROVE  Begun(w)
<1> DEFINE One == {Setup!Wanted(do, p, a, e, None) : do \in {"select", "choose"}, p \in Choice,
                                                    a \in Account, e \in BOOLEAN}
           Two == {Setup!Wanted("choose-dedicated", "own", a, e, None) :
                       a \in Account, e \in BOOLEAN}
           Three == {Setup!Wanted(do, p, a, e, None) :
                         do \in {"stage", "stage-http"}, p \in Choice, a \in Account,
                         e \in Setup!NoConsent}
           Four == {Setup!Wanted("save-named", None, None, e, n) :
                        n \in Name, e \in Setup!NoConsent}
           Five == {Setup!Wanted("use-named", None, a, e, n) :
                        a \in Account, n \in Name, e \in Setup!NoConsent}
           Six == {Setup!Wanted(do, None, None, e, None) :
                       do \in {"revoke", "doctor"}, e \in Setup!NoConsent}
<1>1. CASE w \in One
  <2>1. PICK do \in {"select", "choose"}, p \in Choice, a \in Account, e \in BOOLEAN :
            w = Setup!Wanted(do, p, a, e, None)
    BY <1>1
  <2>2. WellAsked(do, p, a, e, None)
    BY DEF WellAsked, Setup!NoConsent
  <2> QED BY <2>1, <2>2, WantedBegun
<1>2. CASE w \in Two
  <2>1. PICK a \in Account, e \in BOOLEAN :
            w = Setup!Wanted("choose-dedicated", "own", a, e, None)
    BY <1>2
  <2>2. WellAsked("choose-dedicated", "own", a, e, None)
    BY DEF WellAsked, Setup!NoConsent
  <2> QED BY <2>1, <2>2, WantedBegun
<1>3. CASE w \in Three
  <2>1. PICK do \in {"stage", "stage-http"}, p \in Choice, a \in Account, e \in Setup!NoConsent :
            w = Setup!Wanted(do, p, a, e, None)
    BY <1>3
  <2>2. WellAsked(do, p, a, e, None)
    BY DEF WellAsked, Setup!NoConsent
  <2> QED BY <2>1, <2>2, WantedBegun
<1>4. CASE w \in Four
  <2>1. PICK n \in Name, e \in Setup!NoConsent :
            w = Setup!Wanted("save-named", None, None, e, n)
    BY <1>4
  <2>2. WellAsked("save-named", None, None, e, n)
    BY DEF WellAsked, Setup!NoConsent
  <2> QED BY <2>1, <2>2, WantedBegun
<1>5. CASE w \in Five
  <2>1. PICK a \in Account, n \in Name, e \in Setup!NoConsent :
            w = Setup!Wanted("use-named", None, a, e, n)
    BY <1>5
  <2>2. WellAsked("use-named", None, a, e, n)
    BY DEF WellAsked, Setup!NoConsent
  <2> QED BY <2>1, <2>2, WantedBegun
<1>6. CASE w \in Six
  <2>1. PICK do \in {"revoke", "doctor"}, e \in Setup!NoConsent :
            w = Setup!Wanted(do, None, None, e, None)
    BY <1>6
  <2>2. WellAsked(do, None, None, e, None)
    BY DEF WellAsked, Setup!NoConsent
  <2> QED BY <2>1, <2>2, WantedBegun
<1>7. Setup!WellFormed = One \cup Two \cup Three \cup Four \cup Five \cup Six
  BY DEF Setup!WellFormed
<1> HIDE DEF One, Two, Three, Four, Five, Six
<1> QED BY <1>1, <1>2, <1>3, <1>4, <1>5, <1>6, <1>7

\* A new command keeps the invariant.
LEMMA BeginKeeps ==
    ASSUME SetupInv, NEW c \in Setup!Command, Setup!Begin(c)
    PROVE  SetupInv'
<1>1. PICK w : Begun(w) /\ cmd' = [cmd EXCEPT ![c] = w]
  BY WellFormedBegun DEF Setup!Begin
<1>2. DOMAIN cmd' = Setup!Command /\ cmd'[c] = w /\ \A d \in Setup!Command \ {c} : cmd'[d] = cmd[d]
  BY <1>1 DEF SetupInv, SetupType
<1>3. Quiet
  BY <1>2 DEF Quiet, Setup!Begin, SetupInv, SetupType
<1>4. CommandFits(c)'
  <2>1. CommandType(c)'
    BY <1>1, <1>2 DEF Begun, CommandType
  <2>2. OnCourse(c)'
    BY <1>1, <1>2 DEF Begun, OnCourse, Setup!Choosing, Setup!Guarded
  <2>3. Given(c)' /\ HoldsLocks(c)'
    BY <1>1, <1>2 DEF Begun, Given, HoldsLocks, Setup!Choosing
  <2>4. SavesGrounded(c)' /\ NamesRead(c)' /\ ConsentRead(c)' /\ SnapshotApart(c)'
    BY <1>1, <1>2
       DEF Begun, SavesGrounded, NamesRead, ConsentRead, SnapshotApart, Setup!Choosing,
           Setup!Guarded
  <2> QED BY <2>1, <2>2, <2>3, <2>4 DEF CommandFits
<1>5. \A d \in Setup!Command \ {c} : CommandFits(d)'
  BY <1>1, <1>2, <1>3, QuietOthers DEF Begun, Setup!Begin
<1> QED BY <1>3, <1>4, <1>5, QuietKeeps, FitsMeansInv

\* A step that copies nothing: it may remove copies.
SnapsKept ==
    /\ snaps' \in Seq(Snapshots) /\ Len(snaps') = Len(snaps)
    /\ \A i \in 1..Len(snaps) : snaps'[i].account = snaps[i].account

\* What was seen stays seen.
LEMMA GroundedStays ==
    ASSUME SetupType, SnapsKept, was \subseteq was', NEW r, Grounded(r)
    PROVE  IF Setup!Staged(r.place)
           THEN r.place.at \in 1..Len(snaps') /\ snaps'[r.place.at].account = r.account
           ELSE r.place.at \in Profiles /\ <<r.place.at, r.account>> \in was'
BY DEF Grounded, SnapsKept

\* Removing a copy touches no other.
LEMMA RemovedKeeps ==
    ASSUME SetupType, NEW s \in 1..Len(snaps), snaps' = Setup!Removed(s)
    PROVE  SnapsKept /\ \A i \in 1..Len(snaps) : i # s => snaps'[i] = snaps[i]
<1>1. snaps \in Seq(Snapshots)
  BY DEF SetupType
<1>2. snaps' = [snaps EXCEPT ![s] = [snaps[s] EXCEPT !.there = FALSE]]
  BY DEF Setup!Removed
<1>3. /\ [snaps[s] EXCEPT !.there = FALSE] \in Snapshots
      /\ [snaps[s] EXCEPT !.there = FALSE].account = snaps[s].account
  <2> DEFINE r == snaps[s]
  <2>1. r \in Snapshots
    BY <1>1
  <2> HIDE DEF r
  <2>2. [r EXCEPT !.there = FALSE] \in Snapshots /\ [r EXCEPT !.there = FALSE].account = r.account
    BY <2>1 DEF Snapshots
  <2> QED BY <2>2 DEF r
<1> DEFINE gone == [snaps[s] EXCEPT !.there = FALSE]
<1> HIDE DEF gone
<1>4. /\ snaps' = [snaps EXCEPT ![s] = gone]
      /\ gone \in Snapshots /\ gone.account = snaps[s].account
  BY <1>2, <1>3 DEF gone
<1>5. snaps' \in Seq(Snapshots) /\ Len(snaps') = Len(snaps)
  BY <1>1, <1>4
<1>6. \A i \in 1..Len(snaps) : snaps'[i] = IF i = s THEN gone ELSE snaps[i]
  BY <1>1, <1>4
<1> QED BY <1>4, <1>5, <1>6 DEF SnapsKept

\* What a step of a command does to the files.
SelectionSaved(c) ==
    /\ cmd[c].at = "save" /\ selection' \in Selections /\ Grounded(selection')
    /\ ~selection'.undone /\ (selection'.send => selection'.account \in consented')
    /\ SnapOf(selection') \in {0, cmd[c].snap}
    /\ consented \subseteq consented' /\ UNCHANGED <<names, saved, config>>
HttpSaved(c) ==
    /\ cmd[c].at = "save" /\ cmd[c].do = "stage-http"
    /\ config' \in Selections /\ Grounded(config')
    /\ SnapOf(config') = cmd[c].snap
    /\ service = None /\ UNCHANGED <<selection, consented, names, saved>>
NamedSaved(c) ==
    /\ cmd[c].at = "save" /\ cmd[c].do = "save-named"
    /\ names' \in [Name -> Selections \cup {None}]
    /\ \A n \in Name : names'[n] # None =>
          /\ Grounded(names'[n]) /\ names'[n].place.kind = "id"
          /\ names'[n].send => names'[n].account \in consented
    /\ Setup!NamesKept' /\ UNCHANGED <<selection, consented, config>>
Revoked == selection' = None /\ UNCHANGED <<names, saved, config, consented>>
FilesLeft == UNCHANGED <<selection, names, saved, config, consented>>
\* A step does one of these to the files.
FileStep(c) == SelectionSaved(c) \/ HttpSaved(c) \/ NamedSaved(c) \/ Revoked \/ FilesLeft

\* and leaves the rest; a copy that a file refers to is there unless a save was torn.
Aside ==
    /\ UNCHANGED <<live, was, session, service, report>>
    /\ DOMAIN cmd' = Setup!Command
    /\ httpLock = Setup!Service => httpLock' = httpLock
    /\ ~torn' => ~torn /\ \A i \in 1..Len(snaps) :
                              i \in {SnapOf(selection'), SnapOf(config')} => snaps'[i].there

\* Such a step keeps the invariant of the files,
LEMMA FilesFollow ==
    ASSUME SetupInv, NEW c \in Setup!Command, SnapsKept, Aside, FileStep(c)
    PROVE  FilesInv'
<1> USE DEF Aside
<1>1. CommandFits(c) /\ SetupType /\ FilesGrounded
  BY DEF SetupInv
<1>2. SetupType'
  BY <1>1 DEF SetupType, FileStep, SelectionSaved, HttpSaved, NamedSaved, Revoked, FilesLeft,
              SnapsKept
<1>3. SnapOf(selection)' = SnapOf(selection') /\ SnapOf(config)' = SnapOf(config')
  BY DEF SnapOf
<1>4. ASSUME NEW r, Grounded(r) PROVE Grounded(r)'
  BY <1>1, <1>4, GroundedStays DEF Grounded
<1>5. \A p \in Profiles : <<p, live'[p]>> \in was'
  BY <1>1 DEF FilesGrounded
<1>6. selection' # None => Grounded(selection)' /\ ~selection'.undone
  <2>1. selection' # None => Grounded(selection') /\ ~selection'.undone
    BY <1>1 DEF FileStep, SelectionSaved, HttpSaved, NamedSaved, Revoked, FilesLeft, FilesGrounded,
                Grounded
  <2> QED BY <1>1, <2>1, GroundedStays DEF Grounded
<1>7. \A n \in Name : names'[n] # None => Grounded(names[n])' /\ names'[n].place.kind = "id"
  <2>1. \A n \in Name : names'[n] # None => Grounded(names'[n]) /\ names'[n].place.kind = "id"
    BY <1>1 DEF FileStep, SelectionSaved, HttpSaved, NamedSaved, Revoked, FilesLeft, FilesGrounded,
                Grounded
  <2> QED BY <1>1, <2>1, GroundedStays DEF Grounded
<1>8. config' # None /\ Setup!Staged(config'.place) => Grounded(config)'
  <2>1. config' # None /\ Setup!Staged(config'.place) => Grounded(config')
    BY <1>1 DEF FileStep, SelectionSaved, HttpSaved, NamedSaved, Revoked, FilesLeft, FilesGrounded,
                Grounded
  <2> QED BY <1>1, <2>1, GroundedStays DEF Grounded
<1>9. SnapOf(selection') # 0 => SnapOf(selection') # SnapOf(config')
  <2>1. /\ SnapOf(selection) # 0 => SnapOf(selection) # SnapOf(config)
        /\ cmd[c].at = "save" /\ cmd[c].snap # 0 =>
              cmd[c].snap \notin {SnapOf(selection), SnapOf(config)}
    BY <1>1 DEF FilesGrounded, CommandFits, SnapshotApart
  <2>2. CASE SelectionSaved(c)
    BY <2>1, <2>2 DEF SelectionSaved
  <2>3. CASE HttpSaved(c)
    BY <2>1, <2>3 DEF HttpSaved
  <2>4. CASE Revoked
    BY <2>4 DEF Revoked, SnapOf
  <2>5. CASE NamedSaved(c) \/ FilesLeft
    BY <2>1, <2>5 DEF NamedSaved, FilesLeft
  <2> QED BY <2>2, <2>3, <2>4, <2>5 DEF FileStep
<1>10. service' # None => service' = config' /\ httpLock' = Setup!Service
  BY <1>1 DEF FilesGrounded, FileStep, SelectionSaved, HttpSaved, NamedSaved, Revoked, FilesLeft
<1>11. \A r \in {selection', config'} \ {None} :
          Setup!Staged(r.place) /\ ~torn' => snaps'[r.place.at].there
  <2> SUFFICES ASSUME NEW r \in {selection', config'}, r # None, Setup!Staged(r.place), ~torn'
               PROVE  snaps'[r.place.at].there
    OBVIOUS
  <2>1. SnapOf(r) = r.place.at /\ SnapOf(r) \in {SnapOf(selection'), SnapOf(config')}
    BY DEF SnapOf
  <2>2. r.place.at \in 1..Len(snaps)
    <3>1. Grounded(selection)' \/ r # selection'
      BY <1>6
    <3>2. Grounded(config)' \/ r # config'
      BY <1>8
    <3> QED BY <3>1, <3>2 DEF Grounded, SnapsKept
  <2> QED BY <2>1, <2>2
<1>12. FilesGrounded'
  BY <1>3, <1>5, <1>6, <1>7, <1>8, <1>9, <1>10, <1>11 DEF FilesGrounded
<1>13. consented \subseteq consented'
  BY DEF FileStep, SelectionSaved, HttpSaved, NamedSaved, Revoked, FilesLeft
<1>14. PluginConsented'
  <2>1. PluginConsented /\ UNCHANGED session
    BY DEF SetupInv
  <2> QED BY <1>13, <2>1 DEF PluginConsented
<1>15. Setup!NamesKept'
  <2>1. CASE NamedSaved(c)
    BY <2>1 DEF NamedSaved
  <2>2. CASE UNCHANGED <<names, saved>>
    BY <2>2 DEF SetupInv, Setup!NamesKept, Setup!Used, Setup!Cardinality
  <2> QED BY <2>1, <2>2 DEF FileStep, SelectionSaved, HttpSaved, Revoked, FilesLeft
<1>16. Setup!SendConsented'
  <2>1. Setup!SendConsented
    BY DEF SetupInv
  <2>2. selection' # None /\ selection'.send => selection'.account \in consented'
    BY <1>13, <2>1 DEF Setup!SendConsented, FileStep, SelectionSaved, HttpSaved, NamedSaved,
                       Revoked, FilesLeft
  <2>3. \A n \in Name : names'[n] # None /\ names'[n].send => names'[n].account \in consented'
    BY <1>13, <2>1 DEF Setup!SendConsented, FileStep, SelectionSaved, HttpSaved, NamedSaved,
                       Revoked, FilesLeft
  <2> QED BY <1>13, <2>1, <2>2, <2>3 DEF Setup!SendConsented
<1> QED BY <1>2, <1>12, <1>14, <1>15, <1>16 DEF FilesInv

\* and the other commands fit as before.
LEMMA FileFrame ==
    ASSUME SetupInv, NEW c \in Setup!Command, SnapsKept, Aside, FileStep(c),
           \A d \in Setup!Command \ {c} :
               /\ cmd'[d] = cmd[d]
               /\ stageLock = d => stageLock' = d
               /\ httpLock = d => httpLock' = d
               /\ cmd[d].at = "save" /\ cmd[d].snap # 0 => snaps'[cmd[d].snap] = snaps[cmd[d].snap],
           cmd'[c].at # "save"
    PROVE  \A d \in Setup!Command \ {c} : CommandFits(d)'
<1>1. CommandFits(c) /\ SetupType
  BY DEF SetupInv
<1>2. Len(snaps) \in Nat
  BY <1>1 DEF SetupType
<1>3. names' = names \/ stageLock = c
  BY <1>1 DEF CommandFits, HoldsLocks, FileStep, SelectionSaved, HttpSaved, NamedSaved, Revoked,
              FilesLeft
<1>4. config' = config \/ httpLock = c
  BY <1>1 DEF CommandFits, HoldsLocks, FileStep, SelectionSaved, HttpSaved, NamedSaved, Revoked,
              FilesLeft
<1>5. \A s \in {SnapOf(selection'), SnapOf(config')} :
          \/ s \in {0, SnapOf(selection), SnapOf(config)}
          \/ cmd[c].at = "save" /\ s = cmd[c].snap
  <2>1. CASE SelectionSaved(c)
    BY <2>1 DEF SelectionSaved
  <2>2. CASE HttpSaved(c)
    BY <2>2 DEF HttpSaved
  <2>3. CASE Revoked
    BY <2>3 DEF Revoked, SnapOf
  <2>4. CASE NamedSaved(c) \/ FilesLeft
    BY <2>4 DEF NamedSaved, FilesLeft
  <2> QED BY <2>1, <2>2, <2>3, <2>4 DEF FileStep
<1>6. consented \subseteq consented'
  BY DEF FileStep, SelectionSaved, HttpSaved, NamedSaved, Revoked, FilesLeft
<1>7. Frame(c)
  BY <1>2, <1>3, <1>4, <1>5, <1>6 DEF Frame, SnapsKept, Aside
<1>8. SetupType'
  BY FilesFollow DEF FilesInv
<1> QED BY <1>7, <1>8, OthersFit

\* Each save does what its definition says.
LEMMA SelectionFits ==
    ASSUME SetupInv, NEW c \in Setup!Command, cmd[c].at = "save", Setup!SaveSelection(c)
    PROVE  SelectionSaved(c)
<1>1. CommandFits(c) /\ CommandType(c) /\ SetupType
  BY DEF SetupInv, CommandFits
<1>2. selection' = Setup!Saved(c) /\ UNCHANGED <<names, saved, config>>
      /\ consented \subseteq consented'
  BY DEF Setup!SaveSelection
<1>3. cmd[c].do \in Setup!Choosing \cup {"stage", "use-named"}
  BY DEF Setup!SaveSelection
<1>4. CASE cmd[c].do = "stage"
  <2> DEFINE send == cmd[c].seen # None /\ cmd[c].seen.send
  <2>1. selection' = [place |-> [kind |-> "staged", at |-> cmd[c].snap], account |-> cmd[c].account,
                      send |-> send, undone |-> FALSE]
    BY <1>1, <1>2, <1>4 DEF Setup!Saved, Setup!Record, Setup!Place, CommandType
  <2>2. /\ cmd[c].account \in Account /\ cmd[c].snap \in 1..Len(snaps)
        /\ snaps[cmd[c].snap].account = cmd[c].account
    BY <1>1, <1>4 DEF CommandFits, Given, SavesGrounded
  <2>3. send \in BOOLEAN /\ (send => cmd[c].account \in consented)
    BY <1>1, <1>4 DEF CommandFits, ConsentRead
  <2> HIDE DEF send
  <2>4. selection' \in Selections
    BY <1>1, <2>1, <2>2, <2>3 DEF Selections, Places, SetupType
  <2>5. Grounded(selection') /\ ~selection'.undone /\ selection'.send = send
        /\ selection'.account = cmd[c].account
    BY <2>1, <2>2 DEF Grounded, Setup!Staged
  <2>6. SnapOf(selection') \in {0, cmd[c].snap}
    BY <2>1 DEF SnapOf, Setup!Staged
  <2> QED BY <1>2, <2>3, <2>4, <2>5, <2>6 DEF SelectionSaved
<1>5. CASE cmd[c].do # "stage"
  <2> DEFINE kind == CASE cmd[c].do = "select" -> "path"
                       [] cmd[c].do = "choose-dedicated" -> "dedicated"
                       [] OTHER -> "id"
  <2>1. selection' = [place |-> [kind |-> kind, at |-> cmd[c].profile], account |-> cmd[c].account,
                      send |-> cmd[c].send, undone |-> FALSE]
    BY <1>2, <1>5 DEF Setup!Saved, Setup!Record, Setup!Place
  <2>2. kind \in {"path", "dedicated", "id"}
    OBVIOUS
  <2> HIDE DEF kind
  <2>3. /\ cmd[c].account \in Account /\ cmd[c].profile \in Profiles /\ cmd[c].send \in BOOLEAN
        /\ <<cmd[c].profile, cmd[c].account>> \in was
    BY <1>1, <1>3, <1>5 DEF CommandFits, Given, SavesGrounded
  <2>4. cmd[c].send => cmd[c].account \in consented'
    BY <1>1, <1>3, <1>5 DEF CommandFits, ConsentRead, Setup!SaveSelection
  <2>5. selection' \in Selections
    BY <2>1, <2>2, <2>3 DEF Selections, Places, Profiles
  <2>6. Grounded(selection') /\ ~selection'.undone /\ selection'.send = cmd[c].send
        /\ selection'.account = cmd[c].account
    BY <2>1, <2>2, <2>3 DEF Grounded, Setup!Staged
  <2>7. SnapOf(selection') \in {0, cmd[c].snap}
    BY <2>1, <2>2 DEF SnapOf, Setup!Staged
  <2> QED BY <1>2, <2>4, <2>5, <2>6, <2>7 DEF SelectionSaved
<1> QED BY <1>4, <1>5

LEMMA HttpFits ==
    ASSUME SetupInv, NEW c \in Setup!Command, cmd[c].at = "save", Setup!SaveHttp(c)
    PROVE  HttpSaved(c) /\ config # None /\ Grounded(config') /\ SnapOf(config') # 0
<1>1. CommandFits(c) /\ CommandType(c) /\ SetupType /\ cmd[c].do = "stage-http"
  BY DEF SetupInv, CommandFits, Setup!SaveHttp
<1>2. /\ cmd[c].account \in Account /\ cmd[c].snap \in 1..Len(snaps)
      /\ snaps[cmd[c].snap].account = cmd[c].account /\ config # None
  BY <1>1 DEF CommandFits, Given, SavesGrounded
<1>3. config \in Selections /\ config.account = cmd[c].account
  BY <1>1, <1>2 DEF SetupType, Setup!SaveHttp
<1>4. config' = [config EXCEPT !.place = [kind |-> "staged", at |-> cmd[c].snap]]
  BY DEF Setup!SaveHttp, Setup!Place
<1> DEFINE place == [kind |-> "staged", at |-> cmd[c].snap]
<1>5. place \in Places
  BY <1>1, <1>2 DEF SetupType, Places
<1>6. place.kind = "staged" /\ place.at = cmd[c].snap
  OBVIOUS
<1>7. config' = [config EXCEPT !.place = place]
  BY <1>4
<1> HIDE DEF place
<1>8. config' \in Selections /\ config'.place = place /\ config'.account = config.account
  BY <1>3, <1>5, <1>7 DEF Selections, Places
<1>9. Grounded(config')
  BY <1>2, <1>3, <1>6, <1>8 DEF Grounded, Setup!Staged
<1>10. SnapOf(config') = cmd[c].snap \/ config' = None
  BY <1>6, <1>8 DEF SnapOf, Setup!Staged
<1>11. config' # None
  BY <1>8, TransportAssumption
<1>12. service = None
  BY <1>1, TransportAssumption
     DEF CommandFits, HoldsLocks, SetupInv, FilesGrounded, Setup!Service, Setup!Command
<1> QED BY <1>1, <1>2, <1>8, <1>9, <1>10, <1>11, <1>12 DEF HttpSaved, Setup!SaveHttp

\* A name is added to the table while it has room.
LEMMA UsedCounts ==
    ASSUME NEW table \in [Name -> Selections \cup {None}], NEW n \in Name, NEW r \in Selections,
           Setup!Cardinality(Setup!Used(table)) <= MaxNames,
           table[n] # None \/ Setup!Cardinality(Setup!Used(table)) < MaxNames
    PROVE  Setup!Cardinality(Setup!Used([table EXCEPT ![n] = r])) <= MaxNames
<1> DEFINE T == Setup!Used(table)
           U == Setup!Used([table EXCEPT ![n] = r])
<1>1. /\ T \subseteq Name /\ U \subseteq Name /\ U \subseteq T \cup {n}
      /\ table[n] # None <=> n \in T
  BY DEF Setup!Used
<1>2. IsFiniteSet(T) /\ IsFiniteSet(T \cup {n})
  BY <1>1, TransportAssumption, FS_Subset, FS_AddElement
<1>3. IsFiniteSet(U) /\ Cardinality(U) <= Cardinality(T \cup {n})
  BY <1>1, <1>2, FS_Subset
<1>4. Cardinality(T \cup {n}) = IF n \in T THEN Cardinality(T) ELSE Cardinality(T) + 1
  BY <1>2, FS_AddElement
<1>5. Cardinality(T) \in Nat /\ Cardinality(U) \in Nat /\ Cardinality(T \cup {n}) \in Nat
  BY <1>2, <1>3, FS_CardinalityType
<1>6. Setup!Cardinality(T) = Cardinality(T) /\ Setup!Cardinality(U) = Cardinality(U)
  BY DEF Setup!Cardinality, Cardinality
<1>7. MaxNames \in Nat
  BY TransportAssumption
<1> HIDE DEF T, U
<1>8. Cardinality(T) <= MaxNames /\ (n \in T \/ Cardinality(T) < MaxNames)
  BY <1>1, <1>6 DEF T
<1>9. Cardinality(U) <= MaxNames
  BY <1>3, <1>4, <1>5, <1>7, <1>8
<1> QED BY <1>6, <1>9 DEF U

LEMMA NamedFits ==
    ASSUME SetupInv, NEW c \in Setup!Command, cmd[c].at = "save", Setup!SaveNamed(c)
    PROVE  NamedSaved(c)
<1>1. /\ CommandFits(c) /\ CommandType(c) /\ SetupType /\ FilesGrounded /\ Setup!NamesKept
      /\ Setup!SendConsented /\ cmd[c].do = "save-named"
  BY DEF SetupInv, CommandFits, Setup!SaveNamed
<1> DEFINE r == cmd[c].seen
           n == cmd[c].name
<1>2. /\ n \in Name /\ r # None /\ Grounded(r) /\ r.place.kind = "id" /\ cmd[c].table = names
      /\ names[n] # None \/ Setup!Cardinality(Setup!Used(names)) < MaxNames
      /\ r \in Selections /\ (r.send => r.account \in consented)
  BY <1>1 DEF CommandFits, Given, NamesRead, ConsentRead, CommandType
<1>3. names' = [names EXCEPT ![n] = r] /\ saved' = [saved EXCEPT ![n] = r]
      /\ UNCHANGED <<selection, consented, config>>
  BY <1>2 DEF Setup!SaveNamed
<1> HIDE DEF r, n
<1>4. names \in [Name -> Selections \cup {None}] /\ names = saved
      /\ Setup!Cardinality(Setup!Used(names)) <= MaxNames
  BY <1>1 DEF SetupType, Setup!NamesKept, Setup!Cardinality, Cardinality
<1>5. names' \in [Name -> Selections \cup {None}]
      /\ \A m \in Name : names'[m] = IF m = n THEN r ELSE names[m]
  BY <1>2, <1>3, <1>4
<1>6. Setup!Cardinality(Setup!Used([names EXCEPT ![n] = r])) <= MaxNames
  BY <1>2, <1>4, UsedCounts
<1>7. Setup!NamesKept'
  BY <1>3, <1>4, <1>6 DEF Setup!NamesKept, Setup!Used, Setup!Cardinality, Cardinality
<1>8. \A m \in Name : names'[m] # None =>
          /\ Grounded(names'[m]) /\ names'[m].place.kind = "id"
          /\ names'[m].send => names'[m].account \in consented
  BY <1>1, <1>2, <1>5 DEF FilesGrounded, Setup!SendConsented
<1> QED BY <1>1, <1>3, <1>5, <1>7, <1>8 DEF NamedSaved

\* A command that ends with a step on the files.
LEMMA FileStops ==
    ASSUME SetupInv, NEW c \in Setup!Command, Stopped(c), FileStep(c), SnapsKept,
           \A d \in Setup!Command \ {c} :
               (stageLock = d => stageLock' = d) /\ (httpLock = d => httpLock' = d),
           httpLock = Setup!Service => httpLock' = httpLock,
           UNCHANGED <<live, was, session, service, report>>,
           ~torn' => ~torn /\ \A i \in 1..Len(snaps) :
                                 i \in {SnapOf(selection'), SnapOf(config')} => snaps'[i].there,
           \A d \in Setup!Command \ {c} :
               cmd[d].at = "save" /\ cmd[d].snap # 0 => snaps'[cmd[d].snap] = snaps[cmd[d].snap]
    PROVE  SetupInv'
<1>1. Aside
  BY DEF Aside, Stopped
<1>2. \A d \in Setup!Command \ {c} : CommandFits(d)'
  BY <1>1, FileFrame DEF Stopped
<1>3. FilesInv'
  BY <1>1, FilesFollow
<1> QED BY <1>2, <1>3, StoppedFits, FitsMeansInv

\* A command that ends with a step on the files, and gives up its locks.
LEMMA FileEnds ==
    ASSUME SetupInv, NEW c \in Setup!Command, Setup!Ends(c), FileStep(c), SnapsKept,
           UNCHANGED <<live, was, session, service, report>>,
           ~torn' => ~torn /\ \A i \in 1..Len(snaps) :
                                 i \in {SnapOf(selection'), SnapOf(config')} => snaps'[i].there,
           \A d \in Setup!Command \ {c} :
               cmd[d].at = "save" /\ cmd[d].snap # 0 => snaps'[cmd[d].snap] = snaps[cmd[d].snap]
    PROVE  SetupInv'
<1>1. Stopped(c)
  BY EndsStops DEF SetupInv
<1> QED BY <1>1, EndsFree, FileStops

\* The copies that the files refer to are there until a save is torn.
LEMMA StillThere ==
    ASSUME SetupInv, NEW c \in Setup!Command, FileStep(c), ~torn
    PROVE  \A i \in 1..Len(snaps) : i \in {SnapOf(selection'), SnapOf(config')} => snaps[i].there
<1>1. /\ SnapOf(selection) # 0 => snaps[SnapOf(selection)].there
      /\ SnapOf(config) # 0 => snaps[SnapOf(config)].there
  BY DEF SetupInv, FilesGrounded, SnapOf
<1>2. cmd[c].at = "save" /\ cmd[c].snap # 0 => snaps[cmd[c].snap].there
  BY DEF SetupInv, CommandFits, OnCourse, SavesGrounded
<1>3. CASE SelectionSaved(c)
  BY <1>1, <1>2, <1>3 DEF SelectionSaved
<1>4. CASE HttpSaved(c)
  BY <1>1, <1>2, <1>4 DEF HttpSaved
<1>5. CASE Revoked
  BY <1>1, <1>5 DEF Revoked, SnapOf
<1>6. CASE NamedSaved(c) \/ FilesLeft
  BY <1>1, <1>6 DEF NamedSaved, FilesLeft
<1> QED BY <1>3, <1>4, <1>5, <1>6 DEF FileStep

\* A save is one of the three.
LEMMA SaveSteps ==
    ASSUME SetupInv, NEW c \in Setup!Command, cmd[c].at = "save",
           Setup!SaveSelection(c) \/ Setup!SaveHttp(c) \/ Setup!SaveNamed(c)
    PROVE  FileStep(c)
BY SelectionFits, HttpFits, NamedFits DEF FileStep

\* A save keeps the invariant, and so do its interruption and the removal of old copies.
LEMMA SaveKeeps ==
    ASSUME SetupInv, NEW c \in Setup!Command, Setup!Save(c)
    PROVE  SetupInv'
<1>1. FileStep(c)
  BY SaveSteps DEF Setup!Save
<1>2. SnapsKept /\ UNCHANGED <<live, was, session, service, report, torn, snaps>>
  BY DEF Setup!Save, SnapsKept, SetupInv, SetupType
<1>3. ~torn' => ~torn /\ \A i \in 1..Len(snaps) :
                            i \in {SnapOf(selection'), SnapOf(config')} => snaps'[i].there
  BY <1>1, <1>2, StillThere
<1>4. CASE cmd[c].do # "stage-http"
  <2>1. Setup!Ends(c)
    BY <1>4 DEF Setup!Save
  <2> QED BY <1>1, <1>2, <1>3, <2>1, FileEnds
<1>5. CASE cmd[c].do = "stage-http"
  <2>1. Setup!SaveHttp(c) /\ cmd[c].at = "save"
    BY <1>5 DEF Setup!Save, Setup!SaveSelection, Setup!SaveNamed, Setup!Choosing
  <2>2. HttpSaved(c) /\ config # None /\ Grounded(config') /\ SnapOf(config') # 0
    BY <2>1, HttpFits
  <2>3. /\ cmd' = [cmd EXCEPT ![c] = [cmd[c] EXCEPT !.at = "clean"]]
        /\ UNCHANGED <<stageLock, httpLock>>
    BY <1>5 DEF Setup!Save, Setup!Goes
  <2>4. CommandFits(c) /\ CommandType(c) /\ SetupType
    BY DEF SetupInv, CommandFits
  <2>5. Moved(c, "clean") /\ AsGiven(c) /\ AsRead(c) /\ SameSnap(c)
    BY <2>3, <2>4 DEF SetupType, CommandType, CommandFields, Moved, AsGiven, AsRead, SameSnap
  <2>6. Aside
    BY <1>2, <1>3, <2>3, <2>5 DEF Aside, Moved
  <2>7. \A d \in Setup!Command \ {c} : CommandFits(d)'
    BY <1>1, <1>2, <2>3, <2>5, <2>6, FileFrame DEF Moved
  <2>8. cmd[c].seen = config /\ cmd[c].seen # None
    BY <2>1, <2>2, <2>4, <1>5 DEF CommandFits, SavesGrounded
  <2>9. Setup!Staged(config.place) => config.place.at # 0
    BY <2>2, <2>4 DEF SetupInv, FilesGrounded, Grounded, SetupType
  <2>10. CommandType(c)' /\ OnCourse(c)' /\ Given(c)' /\ HoldsLocks(c)' /\ NamesRead(c)'
        /\ SavesGrounded(c)' /\ ConsentRead(c)'
    BY <1>5, <2>1, <2>3, <2>4, <2>5, <2>8, <2>9
       DEF CommandFits, CommandType, OnCourse, Given, HoldsLocks, NamesRead, SavesGrounded,
           ConsentRead, Moved, AsGiven, AsRead, SameSnap, Setup!Choosing, Setup!Guarded
  <2>11. SnapshotApart(c)'
    <3> DEFINE t == SnapOf(config)
    <3>1. ASSUME t # 0 PROVE t \in 1..Len(snaps)
      BY <2>2, <3>1 DEF SetupInv, FilesGrounded, SnapOf, Grounded
    <3>2. ASSUME t # 0 PROVE t # SnapOf(selection)
      BY <3>2 DEF SetupInv, FilesGrounded
    <3>3. t # SnapOf(config')
      BY <2>1, <2>2, <2>4 DEF CommandFits, SnapshotApart, HttpSaved
    <3>4. \A d \in Setup!Command \ {c} : cmd[d].at = "save" /\ cmd[d].snap # 0 => cmd[d].snap # t
      BY DEF SetupInv, CommandFits, SnapshotApart
    <3>5. /\ SnapOf(cmd'[c].seen) = t /\ UNCHANGED <<snaps, selection>>
          /\ cmd'[c].at = "clean" /\ \A d \in Setup!Command \ {c} : cmd'[d] = cmd[d]
      BY <1>2, <2>2, <2>5, <2>8 DEF Moved, AsRead, HttpSaved
    <3>6. SnapOf(selection)' = SnapOf(selection) /\ SnapOf(config)' = SnapOf(config')
          /\ SnapOf(cmd[c].seen)' = SnapOf(cmd'[c].seen)
      BY <3>5 DEF SnapOf
    <3> HIDE DEF t
    <3> QED BY <3>1, <3>2, <3>3, <3>4, <3>5, <3>6 DEF SnapshotApart
  <2>12. CommandFits(c)'
    BY <2>10, <2>11 DEF CommandFits
  <2>13. FilesInv'
    BY <1>1, <1>2, <2>6, FilesFollow
  <2> QED BY <2>7, <2>12, <2>13, FitsMeansInv
<1> QED BY <1>4, <1>5

LEMMA InterruptedKeeps ==
    ASSUME SetupInv, NEW c \in Setup!Command, Setup!Interrupted(c)
    PROVE  SetupInv'
<1>1. CommandFits(c) /\ SetupType
  BY DEF SetupInv
<1> DEFINE own == cmd[c].at = "save" /\ cmd[c].snap # 0
<1>2. /\ FileStep(c)
      /\ ~torn' => ~torn /\ UNCHANGED <<selection, config>>
  BY SaveSteps DEF Setup!Interrupted, FileStep, FilesLeft
<1>3. own => cmd[c].snap \in 1..Len(snaps)
  BY <1>1 DEF CommandFits, OnCourse, SavesGrounded
<1>4. SnapsKept /\ \A i \in 1..Len(snaps) : (own /\ i = cmd[c].snap) \/ snaps'[i] = snaps[i]
  <2>1. CASE own
    BY <1>1, <1>3, <2>1, RemovedKeeps DEF Setup!Interrupted
  <2>2. CASE ~own
    BY <1>1, <2>2 DEF Setup!Interrupted, SnapsKept, SetupType
  <2> QED BY <2>1, <2>2
<1>5. ASSUME NEW d \in Setup!Command \ {c}, cmd[d].at = "save", cmd[d].snap # 0
      PROVE  snaps'[cmd[d].snap] = snaps[cmd[d].snap]
  <2>1. CommandFits(d)
    BY DEF SetupInv
  <2>2. cmd[d].snap \in 1..Len(snaps)
    BY <1>5, <2>1 DEF CommandFits, OnCourse, SavesGrounded
  <2>3. own => cmd[d].snap # cmd[c].snap
    BY <1>1, <1>5 DEF CommandFits, SnapshotApart
  <2> QED BY <1>4, <2>2, <2>3
<1>6. ASSUME ~torn', NEW i \in 1..Len(snaps), i \in {SnapOf(selection'), SnapOf(config')}
      PROVE  ~torn /\ snaps'[i].there
  <2>1. ~torn /\ SnapOf(selection') = SnapOf(selection) /\ SnapOf(config') = SnapOf(config)
    BY <1>2, <1>6 DEF SnapOf
  <2>2. snaps[i].there
    BY <1>2, <1>6, <2>1, StillThere
  <2>3. own => i # cmd[c].snap
    BY <1>1, <1>6, <2>1 DEF CommandFits, SnapshotApart
  <2> QED BY <1>4, <2>1, <2>2, <2>3
<1>7. Setup!Ends(c) /\ UNCHANGED <<live, was, session, service, report>>
  BY DEF Setup!Interrupted
<1> HIDE DEF own
<1>8. ~torn' => ~torn
  BY <1>2
<1>9. ~torn' => ~torn /\ \A i \in 1..Len(snaps) :
                            i \in {SnapOf(selection'), SnapOf(config')} => snaps'[i].there
  BY <1>6, <1>8
<1> QED BY <1>2, <1>4, <1>5, <1>7, <1>9, FileEnds

LEMMA CleanKeeps ==
    ASSUME SetupInv, NEW c \in Setup!Command, Setup!Clean(c)
    PROVE  SetupInv'
<1>1. CommandFits(c) /\ SetupType /\ cmd[c].at = "clean"
  BY DEF SetupInv, Setup!Clean
<1> DEFINE t == SnapOf(cmd[c].seen)
<1>2. cmd[c].seen # None
  BY <1>1 DEF CommandFits, SavesGrounded
<1>3. FileStep(c)
  BY DEF Setup!Clean, FileStep, FilesLeft
<1>4. t # 0 => /\ t \in 1..Len(snaps) /\ t \notin {SnapOf(selection), SnapOf(config)}
               /\ \A d \in Setup!Command : cmd[d].at = "save" => cmd[d].snap # t
  BY <1>1 DEF CommandFits, SnapshotApart
<1>5. SnapsKept /\ \A i \in 1..Len(snaps) : (t # 0 /\ i = t) \/ snaps'[i] = snaps[i]
  <2>1. CASE Setup!Staged(cmd[c].seen.place) /\ t # 0
    <3>1. t = cmd[c].seen.place.at /\ snaps' = Setup!Removed(t)
      BY <1>2, <2>1 DEF SnapOf, Setup!Clean
    <3> HIDE DEF t
    <3> QED BY <1>1, <1>4, <2>1, <3>1, RemovedKeeps
  <2>2. CASE ~Setup!Staged(cmd[c].seen.place)
    BY <1>1, <2>2 DEF Setup!Clean, SnapsKept, SetupType
  <2>3. Setup!Staged(cmd[c].seen.place) => t # 0
    BY <1>1, <1>2 DEF SnapOf, CommandFits, SavesGrounded
  <2> QED BY <2>1, <2>2, <2>3
<1>6. ASSUME NEW d \in Setup!Command \ {c}, cmd[d].at = "save", cmd[d].snap # 0
      PROVE  snaps'[cmd[d].snap] = snaps[cmd[d].snap]
  <2>1. cmd[d].snap \in 1..Len(snaps)
    BY <1>6 DEF SetupInv, CommandFits, OnCourse, SavesGrounded
  <2> HIDE DEF t
  <2> QED BY <1>4, <1>5, <1>6, <2>1
<1>7. UNCHANGED <<live, was, session, service, report, selection, config, torn>> /\ Setup!Ends(c)
  BY DEF Setup!Clean
<1>8. ASSUME ~torn', NEW i \in 1..Len(snaps), i \in {SnapOf(selection'), SnapOf(config')}
      PROVE  ~torn /\ snaps'[i].there
  <2>1. ~torn /\ SnapOf(selection') = SnapOf(selection) /\ SnapOf(config') = SnapOf(config)
    BY <1>7, <1>8 DEF SnapOf
  <2>2. snaps[i].there
    BY <1>3, <1>8, <2>1, StillThere
  <2> HIDE DEF t
  <2> QED BY <1>4, <1>5, <1>8, <2>1, <2>2
<1>9. ~torn' => ~torn /\ \A i \in 1..Len(snaps) :
                            i \in {SnapOf(selection'), SnapOf(config')} => snaps'[i].there
  BY <1>7, <1>8
<1> HIDE DEF t
<1> QED BY <1>3, <1>5, <1>6, <1>7, <1>9, FileEnds

\* Revoking the selection keeps it.
LEMMA RevokeKeeps ==
    ASSUME SetupInv, NEW c \in Setup!Command, Setup!Revoke(c)
    PROVE  SetupInv'
<1>1. stageLock = c
  BY DEF SetupInv, CommandFits, HoldsLocks, Setup!Revoke
<1>2. ASSUME NEW d \in Setup!Command \ {c} PROVE cmd'[d] = cmd[d]
  <2> DEFINE undone == cmd[d].do = "stage" /\ cmd[d].seen # None
  <2>1. CommandType(d) /\ OnCourse(d) /\ HoldsLocks(d)
    BY DEF SetupInv, CommandFits
  <2>2. ~undone
    BY <1>1, <2>1 DEF OnCourse, HoldsLocks
  <2>3. cmd'[d] = [cmd[d] EXCEPT !.revoked = @ \/ undone]
    BY DEF Setup!Revoke
  <2>4. cmd'[d] = [cmd[d] EXCEPT !.revoked = FALSE]
    BY <2>1, <2>2, <2>3 DEF CommandType
  <2> DEFINE r == cmd[d]
  <2>5. r = [f \in CommandFields |-> r[f]] /\ r.revoked = FALSE
    BY <2>1 DEF CommandType
  <2> HIDE DEF r
  <2>6. [r EXCEPT !.revoked = FALSE] = r
    BY <2>5 DEF CommandFields
  <2> QED BY <2>4, <2>6 DEF r
<1>3. DOMAIN cmd' = Setup!Command /\ cmd'[c] = Setup!Idle
  BY DEF Setup!Revoke
<1>4. Stopped(c)
  BY <1>2, <1>3 DEF Stopped, Setup!Idle, CommandFields
<1>5. FileStep(c) /\ SnapsKept
  BY DEF Setup!Revoke, FileStep, Revoked, SnapsKept, SetupInv, SetupType
<1>6. UNCHANGED <<live, was, session, service, report, torn, snaps, httpLock>>
      /\ \A d \in Setup!Command \ {c} : stageLock = d => stageLock' = d
  BY DEF Setup!Revoke
<1>7. ~torn' => ~torn /\ \A i \in 1..Len(snaps) :
                            i \in {SnapOf(selection'), SnapOf(config')} => snaps'[i].there
  BY <1>5, <1>6, StillThere
<1> QED BY <1>4, <1>5, <1>6, <1>7, FileStops

\* A step of the user, the Plugin or the service.
LEMMA OutsideKeeps ==
    ASSUME SetupInv,
           UNCHANGED <<cmd, selection, names, saved, config, snaps, consented, stageLock, torn>>,
           was \subseteq was', \A c \in Setup!Command : httpLock = c => httpLock' = c,
           live' \in [Profiles -> Account \cup {None}],
           \A p \in Profiles : <<p, live'[p]>> \in was',
           service' # None => service' = config /\ httpLock' = Setup!Service,
           DOMAIN session' = {"at", "first", "place", "pin", "send", "login", "moved"},
           session'.first \in Selections \cup {None}, PluginConsented', Setup!SendConsented'
    PROVE  SetupInv'
<1>1. SetupType' /\ Setup!NamesKept'
  BY DEF SetupInv, SetupType, Setup!NamesKept, Setup!Used, Setup!Cardinality
<1>2. SnapOf(selection)' = SnapOf(selection) /\ SnapOf(config)' = SnapOf(config)
  BY DEF SnapOf
<1>3. ASSUME NEW r, Grounded(r) PROVE Grounded(r)'
  BY <1>3 DEF Grounded
<1>4. FilesGrounded'
  <2>1. FilesGrounded
    BY DEF SetupInv
  <2>2. selection' # None => Grounded(selection)' /\ ~selection'.undone
    BY <2>1 DEF FilesGrounded, Grounded
  <2>3. \A n \in Name : names'[n] # None => Grounded(names[n])' /\ names'[n].place.kind = "id"
    BY <2>1 DEF FilesGrounded, Grounded
  <2>4. config' # None /\ Setup!Staged(config'.place) => Grounded(config)'
    BY <2>1 DEF FilesGrounded, Grounded
  <2> QED BY <1>2, <2>1, <2>2, <2>3, <2>4 DEF FilesGrounded
<1>5. ASSUME NEW c \in Setup!Command PROVE CommandFits(c)'
  <2>1. CommandFits(c)
    BY DEF SetupInv
  <2>2. CommandType(c)' /\ OnCourse(c)' /\ Given(c)' /\ HoldsLocks(c)' /\ ConsentRead(c)'
    BY <2>1 DEF CommandFits, CommandType, OnCourse, Given, HoldsLocks, ConsentRead
  <2>3. SavesGrounded(c)'
    BY <2>1 DEF CommandFits, SavesGrounded
  <2>4. NamesRead(c)'
    BY <2>1 DEF CommandFits, NamesRead, Grounded, Setup!Used, Setup!Cardinality
  <2>5. SnapshotApart(c)'
    BY <2>1 DEF CommandFits, SnapshotApart, SnapOf
  <2> QED BY <2>2, <2>3, <2>4, <2>5 DEF CommandFits
<1> QED BY <1>1, <1>4, <1>5 DEF SetupInv

\* A change of login in a profile, and the start and stop of the service.
LEMMA SignInKeeps ==
    ASSUME SetupInv, NEW p \in Setup!Sources, Setup!SignIn(p)
    PROVE  SetupInv'
<1>1. PICK a \in Account \cup {None} : live' = [live EXCEPT ![p] = a] /\ was' = was \cup {<<p, a>>}
  BY DEF Setup!SignIn
<1>2. live \in [Profiles -> Account \cup {None}] /\ \A q \in Profiles : <<q, live[q]>> \in was
  BY DEF SetupInv, SetupType, FilesGrounded
<1>3. live' \in [Profiles -> Account \cup {None}] /\ \A q \in Profiles : <<q, live'[q]>> \in was'
  BY <1>1, <1>2 DEF Profiles, Setup!Sources
<1>4. UNCHANGED <<cmd, selection, names, saved, config, snaps, consented, stageLock, httpLock, torn,
                  session, service, report>>
  BY DEF Setup!SignIn
<1>5. PluginConsented' /\ Setup!SendConsented'
  BY <1>4 DEF SetupInv, PluginConsented, Setup!SendConsented
<1> QED BY <1>1, <1>3, <1>4, <1>5, OutsideKeeps DEF SetupInv, SetupType, FilesGrounded

LEMMA ServiceKeeps ==
    ASSUME SetupInv, Setup!StartService \/ Setup!StopService
    PROVE  SetupInv'
<1>1. UNCHANGED <<live, was, cmd, selection, names, saved, config, snaps, consented, stageLock,
                  torn, session, report>>
  BY DEF Setup!StartService, Setup!StopService
<1>2. PluginConsented' /\ Setup!SendConsented'
  BY <1>1 DEF SetupInv, PluginConsented, Setup!SendConsented
<1>3. /\ service' # None => service' = config /\ httpLock' = Setup!Service
      /\ \A c \in Setup!Command : httpLock = c => httpLock' = c
  BY TransportAssumption DEF Setup!StartService, Setup!StopService, Setup!Service, Setup!Command
<1> QED BY <1>1, <1>2, <1>3, OutsideKeeps DEF SetupInv, SetupType, FilesGrounded

\* A step of the Plugin session.
LEMMA SessionKeeps ==
    ASSUME SetupInv, NEW next, Setup!SessionStep(next),
           DOMAIN next = {"at", "first", "place", "pin", "send", "login", "moved"},
           next.first \in Selections \cup {None},
           next.first # None /\ next.first.send => next.first.account \in consented,
           next.at = "decide" => ~next.send,
           next.at = "resolve" /\ next.send => next.first # None /\ next.first.send,
           next.at \in {"open", "on"} /\ next.send /\ ~next.moved =>
               next.pin # None /\ next.pin \in consented,
           next.at # "on" => next.login = None,
           next.login # None /\ next.send /\ ~next.moved => next.login \in consented
    PROVE  SetupInv'
<1>1. UNCHANGED <<live, was, cmd, selection, names, saved, config, snaps, consented, stageLock,
                  httpLock, torn, service, report>> /\ session' = next
  BY DEF Setup!SessionStep
<1>2. PluginConsented'
  BY <1>1 DEF PluginConsented
<1>3. Setup!SendConsented'
  BY <1>1 DEF SetupInv, Setup!SendConsented
<1> QED BY <1>1, <1>2, <1>3, OutsideKeeps DEF SetupInv, SetupType, FilesGrounded

\* A session that ends.
LEMMA OffKeeps ==
    ASSUME SetupInv, Setup!SessionStep(Setup!Off)
    PROVE  SetupInv'
BY SessionKeeps DEF Setup!Off

\* The steps of the Plugin session, one by one.
LEMMA StartPluginKeeps ==
    ASSUME SetupInv, Setup!StartPlugin
    PROVE  SetupInv'
<1>1. selection \in Selections \cup {None}
      /\ (selection # None /\ selection.send => selection.account \in consented)
  BY DEF SetupInv, SetupType, Setup!SendConsented
<1> DEFINE next == [Setup!Off EXCEPT !.at = "decide", !.first = selection]
<1>2. /\ DOMAIN next = {"at", "first", "place", "pin", "send", "login", "moved"}
      /\ next.at = "decide" /\ next.first = selection /\ next.send = FALSE /\ next.login = None
  BY DEF Setup!Off
<1>3. Setup!SessionStep(next)
  BY DEF Setup!StartPlugin
<1> HIDE DEF next
<1> QED BY <1>1, <1>2, <1>3, SessionKeeps

\* What is known of the session.
LEMMA SessionFields ==
    ASSUME SetupInv
    PROVE  /\ DOMAIN session = {"at", "first", "place", "pin", "send", "login", "moved"}
           /\ session.first \in Selections \cup {None} /\ PluginConsented
BY DEF SetupInv, SetupType

LEMMA DecideTransportKeeps ==
    ASSUME SetupInv, Setup!DecideTransport
    PROVE  SetupInv'
<1> DEFINE sends == Setup!Sends(session.first)
           moved == selection # session.first
           next == [session EXCEPT !.at = "resolve", !.send = sends, !.moved = moved]
<1>1. Setup!SessionStep(next) /\ session.at = "decide"
  BY DEF Setup!DecideTransport
<1>2. sends => session.first # None /\ session.first.send
  BY DEF Setup!Sends
<1> HIDE DEF sends, moved
<1>3. /\ DOMAIN next = DOMAIN session /\ next.first = session.first /\ next.login = session.login
      /\ next.at = "resolve" /\ next.send = sends
  BY SessionFields
<1> HIDE DEF next
<1>4. session.login = None
  BY <1>1, SessionFields DEF PluginConsented
<1> QED BY <1>1, <1>2, <1>3, <1>4, SessionFields, SessionKeeps DEF PluginConsented

LEMMA ResolveLoginKeeps ==
    ASSUME SetupInv, Setup!ResolveLogin
    PROVE  SetupInv'
<1> DEFINE off == platform = "win32" /\ session.send /\ selection = None
           pin == Setup!Pin(selection)
           place == IF selection = None THEN None ELSE selection.place
           moved == session.moved \/ selection # session.first
           next == [session EXCEPT !.at = "open", !.pin = pin, !.place = place, !.moved = moved,
                                   !.first = None]
<1>1. CASE off
  BY <1>1, OffKeeps DEF Setup!ResolveLogin
<1>2. CASE ~off
  <2>1. Setup!SessionStep(next) /\ session.at = "resolve"
    BY <1>2 DEF Setup!ResolveLogin
  <2>2. session.send /\ ~moved => pin # None /\ pin \in consented
    <3>1. SUFFICES ASSUME session.send, ~moved PROVE pin # None /\ pin \in consented
      OBVIOUS
    <3>2. selection # None /\ selection.send
      BY <2>1, <3>1, SessionFields DEF PluginConsented
    <3>3. selection.account \in consented /\ selection.account \in Account
      BY <3>2 DEF SetupInv, SetupType, Setup!SendConsented, Selections
    <3> QED BY <3>2, <3>3, ConstantAssumption DEF Setup!Pin
  <2> HIDE DEF off, pin, place, moved
  <2>3. /\ DOMAIN next = DOMAIN session /\ next.first = None /\ next.login = session.login
        /\ next.at = "open" /\ next.send = session.send /\ next.pin = pin /\ next.moved = moved
    BY SessionFields
  <2> HIDE DEF next
  <2>4. session.login = None
    BY <2>1, SessionFields DEF PluginConsented
  <2> QED BY <2>1, <2>2, <2>3, <2>4, SessionFields, SessionKeeps
<1> QED BY <1>1, <1>2

LEMMA OpenSessionKeeps ==
    ASSUME SetupInv, Setup!OpenSession
    PROVE  SetupInv'
<1> DEFINE login == Setup!AccountAt(session.place)
           next == [session EXCEPT !.at = "on", !.login = login]
           still == [session EXCEPT !.at = "on"]
<1>1. session.at = "open" \/ (session.at = "on" /\ ~session.send)
  BY DEF Setup!OpenSession
<1>2. \/ Setup!Accepts(login) /\ Setup!SessionStep(next)
      \/ Setup!SessionStep(Setup!Off)
      \/ ~session.send /\ Setup!SessionStep(still)
  BY DEF Setup!OpenSession
<1>3. CASE Setup!Accepts(login) /\ Setup!SessionStep(next)
  <2>1. login # None /\ session.pin \in {None, login}
    BY <1>3 DEF Setup!Accepts
  <2> HIDE DEF login
  <2>2. /\ DOMAIN next = DOMAIN session /\ next.first = session.first /\ next.login = login
        /\ next.at = "on" /\ next.send = session.send /\ next.pin = session.pin
        /\ next.moved = session.moved
    BY SessionFields
  <2> HIDE DEF next
  <2>3. session.send /\ ~session.moved => session.pin # None /\ session.pin \in consented
    BY <1>1, SessionFields DEF PluginConsented
  <2> QED BY <1>1, <1>3, <2>1, <2>2, <2>3, SessionFields, SessionKeeps DEF PluginConsented
<1>4. CASE Setup!SessionStep(Setup!Off)
  BY <1>4, OffKeeps
<1>5. CASE ~session.send /\ Setup!SessionStep(still)
  <2>1. /\ DOMAIN still = DOMAIN session /\ still.first = session.first
        /\ still.login = session.login /\ still.at = "on" /\ still.send = session.send
    BY SessionFields
  <2> HIDE DEF still
  <2> QED BY <1>1, <1>5, <2>1, SessionFields, SessionKeeps DEF PluginConsented
<1> QED BY <1>2, <1>3, <1>4, <1>5

\* Every step of the setup keeps the invariant.
LEMMA SetupStep ==
    ASSUME SetupInv, [Setup!SetupNext]_setupVars
    PROVE  SetupInv'
<1>1. ASSUME NEW c \in Setup!Command, Setup!Killed(c) PROVE SetupInv'
  BY <1>1, StopKeeps DEF Setup!Killed
<1>2. ASSUME NEW c \in Setup!Command,
             \/ Setup!Begin(c) \/ Setup!Inspect(c) \/ Setup!Lock(c) \/ Setup!LockHttp(c)
             \/ Setup!ReadToStage(c) \/ Setup!ReadToName(c) \/ Setup!ReadNamed(c)
             \/ Setup!ReadToDiagnose(c)
             \/ Setup!Copy(c) \/ Setup!Publish(c) \/ Setup!Save(c) \/ Setup!Revoke(c)
             \/ Setup!Clean(c) \/ Setup!Resolve(c) \/ Setup!Observe(c) \/ Setup!Interrupted(c)
             \/ Setup!Killed(c)
      PROVE  SetupInv'
  BY <1>1, <1>2, BeginKeeps, InspectKeeps, LockKeeps, LockHttpKeeps, ReadToStageKeeps,
     ReadToNameKeeps, ReadNamedKeeps, ReadToDiagnoseKeeps, CopyKeeps, PublishKeeps, SaveKeeps,
     RevokeKeeps, CleanKeeps, ResolveKeeps, ObserveKeeps, InterruptedKeeps
<1>3. CASE Setup!StartPlugin \/ Setup!DecideTransport \/ Setup!ResolveLogin \/ Setup!OpenSession
  BY <1>3, StartPluginKeeps, DecideTransportKeeps, ResolveLoginKeeps, OpenSessionKeeps
<1>4. CASE Setup!StopPlugin
  BY <1>4, OffKeeps DEF Setup!StopPlugin
<1>5. CASE Setup!StartService \/ Setup!StopService
  BY <1>5, ServiceKeeps
<1>6. CASE \E p \in Setup!Sources : Setup!SignIn(p)
  BY <1>6, SignInKeeps
<1>7. CASE UNCHANGED setupVars
  <2>1. UNCHANGED <<live, was, cmd, selection, names, saved, config, snaps, consented, stageLock,
                    httpLock, torn, session, service, report>>
    BY <1>7 DEF setupVars
  <2>2. PluginConsented' /\ Setup!SendConsented'
    BY <2>1 DEF SetupInv, PluginConsented, Setup!SendConsented
  <2> QED BY <2>1, <2>2, OutsideKeeps DEF SetupInv, SetupType, FilesGrounded
<1> QED BY <1>2, <1>3, <1>4, <1>5, <1>6, <1>7 DEF Setup!SetupNext

\* The files are as the first run finds them.
LEMMA SetupBegins ==
    ASSUME Setup!SetupInit
    PROVE  SetupInv
<1> USE ConstantAssumption, TransportAssumption
<1>1. /\ live \in [Profiles -> Account \cup {None}] /\ was = {<<p, live[p]>> : p \in Profiles}
      /\ cmd = [c \in Setup!Command |-> Setup!Idle] /\ session = Setup!Off
      /\ names = [n \in Name |-> None] /\ saved = names /\ snaps = <<>> /\ service = None
      /\ report = None
      /\ consented = IF selection # None /\ selection.send THEN {selection.account} ELSE {}
  BY DEF Setup!SetupInit, Setup!Sources, Profiles
<1>2. selection = None \/
          (/\ selection \in Selections /\ selection.place.kind = "id"
           /\ selection.place.at \in Profiles /\ selection.account = live[selection.place.at]
           /\ ~selection.undone)
  <2>1. CASE selection # None
    <3>1. PICK p \in Choice, send \in BOOLEAN :
              selection = [place |-> [kind |-> "id", at |-> p], account |-> live[p],
                           send |-> send, undone |-> FALSE]
      BY <2>1 DEF Setup!SetupInit, Setup!Record, Setup!Place
    <3>2. live[p] \in Account /\ p \in Profiles
      <4>1. live[p] # None
        BY <2>1, <3>1 DEF Setup!SetupInit
      <4> QED BY <1>1, <4>1 DEF Profiles
    <3>3. [kind |-> "id", at |-> p] \in Places
      BY DEF Places
    <3> QED BY <3>1, <3>2, <3>3 DEF Selections
  <2> QED BY <2>1
<1>3. config = None \/ (config \in Selections /\ config.place.kind = "path")
  <2>1. CASE config # None
    <3>1. PICK p \in Choice, a \in Account :
              config = [place |-> [kind |-> "path", at |-> p], account |-> a,
                        send |-> TRUE, undone |-> FALSE]
      BY <2>1 DEF Setup!SetupInit, Setup!Record, Setup!Place
    <3>2. [kind |-> "path", at |-> p] \in Places
      BY DEF Places
    <3> QED BY <3>1, <3>2 DEF Selections
  <2> QED BY <2>1
<1>4. SetupType
  <2>1. DOMAIN session = {"at", "first", "place", "pin", "send", "login", "moved"}
        /\ session.first = None
    BY <1>1 DEF Setup!Off
  <2>2. snaps \in Seq(Snapshots)
    BY <1>1
  <2> QED BY <1>1, <1>2, <1>3, <2>1, <2>2 DEF SetupType
<1>5. FilesGrounded
  <2>1. \A p \in Profiles : <<p, live[p]>> \in was
    BY <1>1
  <2>2. selection # None => Grounded(selection) /\ ~selection.undone
    BY <1>2, <2>1 DEF Grounded, Setup!Staged
  <2>3. SnapOf(selection) = 0 /\ SnapOf(config) = 0
    BY <1>2, <1>3 DEF SnapOf, Setup!Staged
  <2> QED BY <1>1, <1>2, <1>3, <2>1, <2>2, <2>3 DEF FilesGrounded, Setup!Staged
<1>6. PluginConsented
  BY <1>1 DEF PluginConsented, Setup!Off
<1>7. Setup!SendConsented
  BY <1>1 DEF Setup!SendConsented, Setup!Off
<1>8. Setup!NamesKept
  <2>1. Setup!Used(names) = {}
    BY <1>1 DEF Setup!Used
  <2>2. Setup!Cardinality(Setup!Used(names)) = 0
    BY <2>1, FS_EmptySet DEF Setup!Cardinality, Cardinality
  <2> QED BY <1>1, <2>2 DEF Setup!NamesKept, Setup!Cardinality, Cardinality
<1>9. ASSUME NEW c \in Setup!Command PROVE CommandFits(c)
  <2>1. cmd[c] = Setup!Idle
    BY <1>1
  <2> QED BY <2>1 DEF Setup!Idle, CommandFields, CommandFits, CommandType, OnCourse, Given,
             HoldsLocks, SavesGrounded, NamesRead, ConsentRead, SnapshotApart, SnapOf
<1> QED BY <1>4, <1>5, <1>6, <1>7, <1>8, <1>9 DEF SetupInv

\* and with it what the transport promises of the login it uses.
LEMMA SetupTrue ==
    ASSUME SetupInv
    PROVE  /\ Setup!PinsSeen /\ Setup!SendConsented /\ Setup!RevokeStands
           /\ Setup!NamesKept /\ Setup!SourceStands
<1>1. FilesGrounded /\ Setup!SendConsented /\ Setup!NamesKept
  BY DEF SetupInv
<1>2. Setup!PinsSeen
  BY <1>1 DEF FilesGrounded, Grounded, Setup!PinsSeen, Setup!SeenThere
<1>3. Setup!RevokeStands
  BY <1>1 DEF FilesGrounded, Setup!RevokeStands
<1>4. Setup!SourceStands
  BY <1>1 DEF FilesGrounded, Setup!SourceStands
<1> QED BY <1>1, <1>2, <1>3, <1>4

(***************************************************************************)
(* One behaviour runs one part; the invariants hold of the others as they began. *)
(***************************************************************************)

\* The dedicated Chrome does not change while another part runs.
LEMMA ChromeStutters ==
    ASSUME ChromeInv, UNCHANGED chromeVars
    PROVE  ChromeInv'
BY DEF chromeVars, ChromeInv, ChromeType, LockHeld, ChromeCame, GuardianLast, GuardianDone,
   Chrome!AttachedSpared

\* Every step of a send keeps its invariant.
LEMMA BrowserStep ==
    ASSUME BrowserInv, Browser!BrowserSendNext
    PROVE  BrowserInv'
<1>1. BrowserType' /\ LockSpansSend' /\ SendingAlone' /\ OwnsPage'
  BY BrowserTypeStep, LockSpansSendStep, SendingAloneStep, OwnsPageStep
<1>2. NothingInserted' /\ Routed' /\ LooseBlocked' /\ Unclaimed' /\ RejectedBlocked'
  BY NothingInsertedStep, RoutedStep, LooseBlockedStep, UnclaimedStep, RejectedBlockedStep
<1>3. CallbackOrder' /\ GhostsOwned' /\ GhostsElsewhere'
  BY CallbackOrderStep, GhostsOwnedStep, GhostsElsewhereStep
<1>4. Browser!NothingEscaped' /\ Browser!EscapesRecorded' /\ Browser!TabsSpared'
  BY NothingEscapedStep, EscapesRecordedStep, TabsSparedStep
<1> QED BY <1>1, <1>2, <1>3, <1>4 DEF BrowserInv

\* What holds of the transport whichever of its parts runs.
TransportInv == BrowserInv /\ ChromeInv /\ SetupInv

\* The parts begin as they begin alone.
LEMMA TransportStarts == TransportInit => TransportInv
BY BrowserBegins, ChromeStarts, SetupBegins DEF TransportInit, SetupStarts, TransportInv

\* A step is one of the part that runs, and leaves the others.
LEMMA TransportStep ==
    ASSUME TransportInv,
           [TransportNext]_<<part, vars, browserVars, chromeVars, setupVars>>
    PROVE  TransportInv'
<1>1. BrowserInv /\ ChromeInv /\ SetupInv
  BY DEF TransportInv
<1>2. Browser!BrowserSendNext \/ UNCHANGED browserVars
  BY DEF TransportNext
<1>3. Chrome!BackgroundNext \/ UNCHANGED chromeVars
  BY DEF TransportNext
<1>4. [Setup!SetupNext]_setupVars
  BY DEF TransportNext
<1>5. BrowserInv'
  BY <1>1, <1>2, BrowserStep, BrowserStutters
<1>6. ChromeInv'
  BY <1>1, <1>3, ChromeStep, ChromeStutters
<1>7. SetupInv'
  BY <1>1, <1>4, SetupStep
<1> QED BY <1>5, <1>6, <1>7 DEF TransportInv

\* What the ledger says of a POST is true of the page that makes it, no baseline shows a
\* message that never left, no tab of another message and no Chrome of another owner is
\* closed, no Chrome is left behind, and the login in use was seen and enabled for sending
\* (BrowserSubchatBackend.prepare and send with its route callback,
\* background_chrome_context with its guardian, the setup commands, the Plugin and the HTTP
\* service): for any number of messages, tabs, owners, profiles, logins and names.
THEOREM TransportHonest == TransportSpec => []TransportTrue
<1>1. TransportInit => TransportInv
  BY TransportStarts
<1>2. TransportInv /\ [TransportNext]_<<part, vars, browserVars, chromeVars, setupVars>>
      => TransportInv'
  BY TransportStep
<1>3. TransportInv => TransportTrue
  BY BrowserTrue, ChromeTrue, SetupTrue DEF TransportInv, TransportTrue
<1> QED BY <1>1, <1>2, <1>3, PTL DEF TransportSpec
=============================================================================
